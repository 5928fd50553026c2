# Verification of the batch processing middleware

TLA+ modules of the middleware in this repository, the TLC runs that check them
on small instances, and TLAPS proofs of what matters most for every instance.
`PROJECT.json` maps every definition to the lines it models.

## 1. The system

System A submits batches of items over HTTP. The middleware stores them in
Postgres, its worker pool sends each item to System C, and when all items of a
batch are finished a webhook dispatcher tells System A. Several middleware nodes
may share the database; nothing else is shared between nodes.

| Component | State | Operations | Interacts through |
|---|---|---|---|
| HTTP handlers, `batch_service.go` | none of its own | submit, status, cancel | tables `batches`, `batch_items`, `idempotency_keys` |
| Worker pool, `worker_pool.go` | claimed rows, current item of each goroutine | claim, send, dead-letter, record, count, complete, enqueue; reset stale locks | `batch_items`, `batches`, `outbox_events`, `dead_letter_queue`, System C client |
| Webhook dispatcher, `webhook_dispatcher.go` | claimed events, current event | claim, fetch, count, post, mark | `outbox_events`, `batches`, `batch_items`, the receiver |
| System C client, `systemc_client.go` | circuit breaker, rate limiter | `SendItem` | the workers of a node, System C |
| Process, `cmd/server/main.go`, `config.go`, `db.go` | the connection, the goroutines and their contexts | load, connect, start, serve, shut down | everything above |
| System A, `simulators/systema` | table `systema_items`, seeders, sender loop | seed, reset, claim, post, mark; webhook handler | middleware API, webhooks |
| System C, `simulators/systemc` | none | `/process` | System C client |
| Router, API key check, logging, metrics, uuid helper | none the program reads | | |

What is hard about it:

* **Interleaving.** Every statement is a transaction of its own, except in
  `CancelBatch`. Workers, cleaners, dispatchers, handlers and nodes interleave
  between statements; the code relies on `FOR UPDATE SKIP LOCKED`, on the status
  columns, and on updates by key.
* **Crashes and shutdowns.** A node may stop between any two statements. `Stop`
  cancels the contexts the later calls use, so that a shutdown is, for the
  tables, the same as a crash.
* **Failed calls.** A call to Postgres may fail before or after its statement
  took effect. Most errors are logged and otherwise ignored.
* **Late answers.** Answers of System C come back to a breaker that has changed
  its state; webhooks come back to a sender that has not recorded its POST yet.
* **Start and stop.** The loops, the handlers and the listener use a connection
  that deferred calls close; a signal comes at any moment.
* **Bounds.** SMALLINT counters, VARCHAR(1000) error texts, retry limits.

What makes each component correct is stated by the properties of section 3;
`hazards` in `PROJECT.json` lists, line by line, what they are for.

## 2. The modules

| Module | Models | Kind |
|---|---|---|
| `BatchStore` | tables `batches`, `batch_items` and each statement of `batch_repo.go` as an action over them | shared state |
| `OutboxStore` | EXTENDS `BatchStore` with `outbox_events` and `dead_letter_queue`, `outbox_repo.go`, `deadletter_repo.go` | shared state |
| `WorkerPool` | EXTENDS `OutboxStore`: workers, cleaner, faults, and the handlers' statements the workers can see | component |
| `ItemLifecycle` | what an item is promised, without workers or tables | abstract specification of `WorkerPool` |
| `WorkerPoolProofs` | theorems about `WorkerPool` | proofs |
| `WebhookDispatcher` | EXTENDS `OutboxStore`: dispatchers, receivers, faults; the workers as their theorems leave them | component |
| `Delivery` | what an event is promised, without dispatchers, locks or retry schedule | abstract specification of `WebhookDispatcher` |
| `DispatcherProofs` | theorems about `WebhookDispatcher` | proofs |
| `Middleware` | INSTANCEs of `WorkerPool` and `WebhookDispatcher` over one database, a node being a worker and a dispatcher that go down together | composition |
| `MiddlewareProofs` | theorems about `Middleware`, with `WorkerPoolProofs` and `DispatcherProofs` as INSTANCEs | proofs |
| `BatchService` | EXTENDS `BatchStore`: requests, retries, cancellations, queries; the workers as their theorems leave them | component |
| `ServiceProofs` | theorems about `BatchService` | proofs |
| `SystemCClient` | the circuit breaker under concurrent callers | component |
| `ClientProofs` | theorems about `SystemCClient` | proofs |
| `Processing` | INSTANCEs of `WorkerPool` and `SystemCClient`: the workers of a node behind the breaker they share, and what System C is asked and processes | composition |
| `ProcessingProofs` | theorems about `Processing`, with `WorkerPoolProofs` as an INSTANCE | proofs |
| `Server` | the process: configuration, connection, goroutines, signal, shutdown | component |
| `ServerProofs` | theorems about `Server` | proofs |
| `SystemA` | seeders, sender loop and webhook handler over `systema_items`; the middleware as it promises to be | component |
| `SystemAProofs` | theorems about `SystemA` | proofs |
| `MC_*` | the instances TLC checks | |

**How state and actions correspond.** A table is a function from keys to rows; a
row that was never inserted has status `absent`. Timestamps are left out: whether
a row is due, or its lock is stale, is a choice of the action that reads it. A
goroutine is a program counter whose values are the calls it makes next, and each
action runs from one call to the next, with every assignment in between. Rows a
worker or dispatcher got from `RETURNING` are kept as a copy, because the code
goes by the copy and not by the table.

**How the compositions are put together.** A step of the whole is a step of one
component and leaves the other's own variables alone; the tables belong to both.
A crash is a step of both. In `Processing` the reply `WorkerPool` chooses freely
is what the breaker and System C make of it: `Refused` and `Answered` are the two
ways `SendItem` of `WorkerPool` can happen. `Middleware` states with
`ImplementsDispatcher` that, seen through the tables, the real workers behave as
the short ones of `WebhookDispatcher` do (`Finish`, `Announce`), so that what is
proved of the dispatcher holds of the dispatcher behind the real pool; that it does
is the theorem `DispatcherImplemented`, from which the others about `Middleware` follow.

**Abstractions worth knowing.**

* The answer of System C is a record of whether it is an error and whether its
  text can be stored (`Reply`).
* In `WorkerPool` the four queries of `GetBatchItemsStatus` are two steps: the
  total never changes, and the list of failed items is not used by the workers;
  its failure is that of the call before `CompleteBatch`. The dispatcher reads
  them in one step, since by `CompletionCorrect`, `CompletionFinal` and
  `TerminalItems` the items of an announced batch do not change. The status in the
  payload is the one `GetBatch` returned before.
* `MarkEventAsProcessed` is modelled with the CHECK constraint it runs into:
  the statement fails and the row stays as it was.
* gobreaker is not part of the repository; the parts of it that
  `NewSystemCClient` configures are modelled and marked external. Of a
  generation number only whether it is the current one is kept, which is all it
  is compared for. The rate limiter is a step in front of the breaker, which lets a
  call through or fails it; at which rate it does so is left out.
* In `SystemCClient` what a call may be answered depends on what it has met (`met`):
  System C up, down, or both, since the call was made. A call that met
  an outage may fail after the recovery, one that did not fails only for its item
  (`ItemFault`).
* In `BatchService` and `WebhookDispatcher` the workers are replaced by
  `WorkerClaims`, `WorkerRecords`, `WorkerCompletes` and `Finish`, `Announce`.
  The former allow what `LifecycleImplemented`, `CompletionCorrect` and
  `CompletionFinal` establish of `WorkerPool`, the latter what
  `DispatcherImplemented` establishes of `Middleware`.
* `Server` keeps of the configuration the two settings the life of the process
  depends on; a tick of a loop only uses the connection, since what it does is the
  subject of the other modules. `net/http` is external.

Definitions whose names extend another one's (`PendingRowsForgetsStatus` before
`PendingRows`) are deliberate mistakes. The specifications do not use them; put
in the place of the definition they vary, each breaks a property, which shows
that the property depends on that code.

## 3. The runs

Properties that hold:

| Run | Instance | Shows |
|---|---|---|
| `pool_safety` | 2 nodes, a batch of 2 items, 1 crash, 1 failed call, any answer | the tables: `SingleHolder`, `TerminalItemsStay`, `RetriesNeverRefunded`, the refinement `ImplementsLifecycle`; the verdict: `FinishedVerdict`, `VerdictStays`, `CancelledItemsBlockCompletion`; what is announced and dead-lettered: `EventsBacked`, `FailedItemsInDlq`; and `PoolInv`, the inductive invariant of the proofs |
| `dispatch_outbox` | 2 dispatchers, a batch with a webhook and one with none or a malformed one, 1 crash, 1 failed call, fair | `SingleDispatcher`, `DeliveredTruthful`, the refinement `ImplementsDelivery`, `EventsSettle` |
| `middleware` | 2 nodes with a worker and a dispatcher each, a batch of 2 items, 1 crash, 1 failed call, fair | `ImplementsDispatcher`, `ItemsSettle`, `BatchesReported` |
| `service_requests` | 2 requests with one key, 1 cancellation, 1 query, 2 failed calls | `SameKeySameBatch`, `AcceptedIsStored`, `ReportsNeverAhead`, `RefusalJustified` |
| `breaker_probes` | 3 workers, 2 probes, 2 outages, items that fail also while System C is up, a rate limiter that may fail a call, fair | `CountsAccount`, `ProbesDecide`, `BreakerRecovers` |
| `processing` | 2 workers behind a breaker of 1 probe and a rate limiter that may fail a call, a good and a bad item, 1 outage, 1 crash | `ProcessedOnce`, `DoneWasProcessed`, `AskedWithinTries` |
| `server` | up to 2 workers, a cleaner, a dispatcher, 2 requests, settings absent, garbled, -1, 0 and 1 in the environment and in `.env`, fair | `ConnectionOutlivesUse`, `BadIntervalEnds`, `SignalEnds` |
| `sender_queue` | 2 seeders of an item each, one of which may outlive the range of its back-off, 1 fault, 2 webhooks per batch, a URL that may be malformed, fair | `TriggerTruthful`, `SentWasAccepted`, `NoDuplicateSubmission`, `QueueDrains` |

Claims of the documents that the code does not keep; each run finds the
counterexample, and `findings` quotes the line:

| Run | Claim | What happens |
|---|---|---|
| `pool_slow_claims` | `partial` means that some items succeeded and the others failed (`README.md:136`) | a live worker holds rows for more than ten minutes: they are processed twice, one item is counted as done and as failed, and the batch ends `partial` with no item done and its other item untouched |
| `middleware_crash` | a finished batch is announced | a crash after the last outcome, or while the event is dispatched: nobody looks at the batch or the event again, although another node is up |
| `service_retry` | retries are handled safely | the UNIQUE key turns down an overlapping retry, and any retry of a request that failed half way |
| `processing_client_errors` | a 4xx does not trip the breaker | it is counted like any error: one bad item opens the breaker and uses up the retries of the good ones |

Further disagreements the models follow the code in, without a run of their own:

* `worker_pool.go:150`: the error of the insertion into the dead letter queue is
  ignored and the item is marked failed all the same, which is why
  `FailedItemsInDlq` speaks of behaviours without failed calls. The insertion
  comes before the item is marked failed: a crash in between leaves a dead letter
  of an item that is tried again and may succeed.
* `worker_pool.go:161`: an error text longer than VARCHAR(1000) makes the update
  fail; the cleaner puts the row back without regard to `max_retries`, until
  `retry_count + 1` is out of SMALLINT's range and every run of the cleaner fails.
  `middleware` therefore has only texts that fit: with others `ItemsSettle` is
  violated.
* `batch_repo.go:152`, `:183`: `CompleteBatch` overwrites a cancellation that found
  all items in processing, and a cancellation overtaken by the completion is
  answered with success.
* `batch_service.go:32`: a request without a key stores the empty string in the
  UNIQUE column `idempotency_key`, so that only the first one is accepted. The
  handler reads `X-Idempotency-Key`, README.md speaks of `Idempotency-Key`: a
  client that follows it has no key.
* `batch_service.go:95`: `expires_at` is written and never read.
* `batch_service.go:110`: a report reads the counts before the status, so that it
  may say `done` with too few items; and an unknown batch is answered with a 500,
  not the 404 the handler has a branch for, because the first query returns
  `sql.ErrNoRows`.
* `outbox_repo.go:50`: `MarkEventAsProcessed` writes a status the CHECK constraint of
  `migrations/003_create_outbox_events.up.sql:7` refuses, so that a delivered event
  stays in processing, although `SIMULATORS.md:45` has the outbox updated
  after a delivery; that it is not sent again rests on nothing resetting it.
* `webhook_dispatcher.go:126`: the error of `GetBatchItemsStatus` is dropped and the
  webhook reports no items; its status is right all the same, which `DeliveredTruthful`
  promises also then.
* `config.go`: what is no number counts as 0. With `WORKER_COUNT` 0 batches are
  accepted and never processed; an `ITEMS_PER_POLL` below 1 claims nothing; a rate
  limit of 0 fails every item; only a poll interval below 1 ends the process
  (`BadIntervalEnds`).
* `metrics.go:33`: `ItemsPending` is added to at submission and subtracted from at
  each claim, but not added to when a try fails or the cleaner puts a row back: it
  drifts below zero. Nothing in the program reads it, and it is not modelled.
* `simulators/systema/main.go:374`, `:787`: `markSent` overwrites what a webhook
  that overtook it recorded: the item counts as sent and is not tried again, which
  `SentWasAccepted` allows.
* `simulators/systema/main.go:403`: the back-off is computed as an integer before it is
  cut to 600 seconds; at 29 tries `POWER(2, retry_count)::int * 5` is out of range, and the
  statement fails for every row of the batch (`OutOfRange`). It takes a `MAX_RETRIES` of 30
  or more; `QueueDrains` leaves such behaviours out.
* `simulators/systema/main.go:624`: with a `MIDDLEWARE_URL` of which no request can be made,
  `sendBatch` leaves the rows in sending and counts no try: they are put back and claimed
  for ever (`PostNotSent`), which `QueueDrains` leaves out as well.
* `simulators/systema/main.go:302`: the comment speaks of ON CONFLICT DO NOTHING;
  the COPY skips no duplicate, and one refuses all rows of a seeder (`SeedRefused`).

**Bounds, and why they are enough.** Two workers on two nodes are the smallest
pool with every race between workers, between nodes, and with the cleaner of a
node that is up; two items are the smallest batch with a partial verdict and with
two workers that finish it together. With `MaxRetries` 1 an item has a first try and
a last one. `SmallIntMax` is kept just above what the retries need, so that its end
is reached; `MaxBackoff` is 1 in `sender_queue` and 28 in the code, and one item has a retry
more than that, so that its end is reached too. One crash and one failed call can hit every step of every behaviour,
and each other. The two batches of `dispatch_outbox` give the two dispatchers an
event each and one of them both. Three callers and two probes let a late answer of
one generation meet the probes of the next; the breaker of `processing` trips on two
requests so that the two tries of one item do it. In `server` two workers and the
two other loops can be at different places when the signal comes, and two requests
keep one handler busy while another is done. For the proved properties the bounds
do not matter. The bounds named in guards are `MaxCrashes`, `MaxDbErrors`,
`MaxOutages`, `MaxWindow`, `MaxBatches`, `MaxWebhooks` and `MaxFaults`; the number of
events is bounded by the number of items, in `WebhookDispatcher` by the guard of
`Announce` that `ImplementsDispatcher` justifies. Symmetry, of alike items or
workers, is used only for invariants, action properties and `ImplementsLifecycle`,
which have no fairness. Deadlock is not checked: all the
systems may rest when there is nothing to do, and the bounds on faults and
submissions make them do so; a process that has ended rests for good.

**Fairness.** A worker, dispatcher or sender whose process is up goes on: its
loops are driven by tickers and its HTTP calls have timeouts. A row or event that
stays due is claimed, because the claims take the oldest first; a row that stays
abandoned grows stale and is reset, unless the statement fails because a stale row is at
the end of SMALLINT (`EndOfRange`). Nothing makes a client submit or cancel, makes
System C recover, or restarts a node (`docker-compose.yml` has no restart policy for
the middleware or System A), so none of these is fair: `ItemsSettle` holds because
a bounded number of crashes leaves one of two nodes up, `QueueDrains` and
`BreakerRecovers` say under which condition they promise something: the former that the
process is up, with a URL requests can be made of, again and again, and that no back-off
leaves its range; the latter that System C is up in the end, that requests keep
reaching the breaker and that, in the end, none fails for its item. `Middleware`
has the fairness of its two components. In `SystemA`
the reset and the claim are strongly fair because the sender passes by them again
and again rather than waiting at them. In `Server` a loop whose context is cancelled
ends under strong fairness: its select picks at random among the cases that are
ready, and the ticker is not ready all the time, so Done is not passed over for ever.
No handler is fair, as a client may take as long as it likes: `SignalEnds` rests on
the timeout of `Shutdown`.

## 4. The proofs

The theorems hold for any finite set of items and any sets of batches, workers,
nodes and dispatchers, any answers, and any number of crashes and failed calls;
of `BatchService` for any number of requests, keys, cancellations and queries; of
`SystemCClient` for any finite number of callers and any settings of the breaker; of
`SystemA` for any disjoint seeders, retries, batch size, webhooks and faults; of
`Server` for any number of workers and requests and any texts as settings. What they
assume of the constants are the named assumptions of the modules
(`StoreAssumption`, `ServiceAssumption`, ...).

| Module | Theorem | States |
|---|---|---|
| `WorkerPoolProofs` | `TypeCorrect` | `Spec => []TypeOK` |
| | `ClaimsExclusive` | `SingleHolder` |
| | `LifecycleImplemented` | `Spec => Lifecycle!Spec`, the refinement |
| | `TerminalItems`, `RetriesCounted` | the action properties `TerminalItemsStay`, `RetriesNeverRefunded` |
| | `CompletionCorrect` | `FinishedVerdict` |
| | `CompletionFinal` | `VerdictStays` |
| | `EventsTrue` | `EventsBacked` |
| | `CancelledBatchesNotCompleted` | `CancelledItemsBlockCompletion` |
| | `PoolInvariant` | `PoolInv` itself |
| | `DeadLettersStored` | `FailedItemsInDlq` |
| `DispatcherProofs` | `TypeCorrect` | `Spec => []TypeOK` |
| | `DispatchersExclusive` | `SingleDispatcher` |
| | `TellsTheTruth` | `DeliveredTruthful` |
| | `DeliveryImplemented` | `Spec => Promise!Spec`, the refinement of `Delivery` |
| `ServiceProofs` | `TypeCorrect` | `Spec => []TypeOK` |
| | `OneBatchPerKey` | `SameKeySameBatch` |
| | `AcceptedStored` | `AcceptedIsStored` |
| | `ReportsSound` | `ReportsNeverAhead` |
| | `RefusalsSound` | `RefusalJustified` |
| `ClientProofs` | `TypeCorrect` | `Spec => []TypeOK` |
| | `CountsCorrect` | `CountsAccount` |
| | `OnlyProbesDecide` | the action property `ProbesDecide` |
| `ProcessingProofs` | `ProcessedAtMostOnce` | `ProcessedOnce` |
| | `DoneProcessed` | `DoneWasProcessed` |
| | `AskedWithinRetries` | `AskedWithinTries` |
| `MiddlewareProofs` | `DispatcherImplemented` | `Spec => Seen!Spec`, the refinement `ImplementsDispatcher` |
| | `ReceiversToldTruly` | `Webhooks!DeliveredTruthful`, of the tables the real workers write |
| | `ReportsCorrect` | `ReportsAddUp` |
| | `OneDispatcherEach` | `Webhooks!SingleDispatcher` |
| | `OutboxKeepsPromise` | `Webhooks!ImplementsDelivery`, the refinement of `Delivery` |
| `ServerProofs` | `TypeCorrect` | `Spec => []TypeOK` |
| | `ConnectionKept` | `ConnectionOutlivesUse` |
| `SystemAProofs` | `TypeCorrect` | `Spec => []TypeOK` |
| | `TriggerAnswersTruly` | `TriggerTruthful` |
| | `SentMeansAccepted` | `SentWasAccepted` |
| | `NoItemTwice` | `NoDuplicateSubmission` |

The theorems about `WorkerPool` assume `SlowClaims = FALSE`, except for
`TypeCorrect` and `DeadLettersStored`: a live worker is done with its rows
before the stale lock threshold. `pool_slow_claims` shows that the assumption is
needed; it is what an operator must ensure by the choice of items per poll and
of System C's timeout. `Middleware` and `Processing` have it built in, the latter with
one node and answers whose text can be stored; so have `BatchService` and
`WebhookDispatcher`, whose short workers do what the theorems under that assumption
leave of them (section 2). Other than that, the theorems assume nothing but the named assumptions on
the constants.

**The argument for the pool.** The invariant to prove is not about tables but about
what the workers carry: `ClaimInv` says that the rows and the job of a worker are
exactly what the table says of those items (`ClaimsCurrent`), that the claims of
different workers are disjoint (`ClaimsDisjoint`), and that a worker about to give
up an item has used its retries (`OutcomeJustified`). It is inductive because an
item leaves processing only through the worker that holds it or, held by nobody,
through the cleaner. From it follow `SingleHolder`, and that every step moves each
item along `ItemLifecycle`, and from that that finished items and retry counters
stay. `PoolInv` adds what a worker that checks a batch has counted so far
(`CountsCurrent`): as finished items stay finished, the two counts, though read
apart, add up to the total only if all items are finished, and then they are the
final ones. This gives the verdict, its finality and the truth of events.
`DeadLettersStored` needs less: a worker that is to mark an item failed has
inserted its dead letter in the step before, and no statement deletes one, so that
it does not matter whether somebody else holds the item as well.

**The argument for the dispatcher.** It has two layers. `HoldInv` collects `TypeOK`,
`RowsOfBusy`, `ClaimsCurrent`, `ClaimsDisjoint` and `EventsCompleted`: what a
dispatcher holds is in processing with the retry count it goes by, held by nobody
else, and about a batch with a verdict. It is inductive on its own and gives
`DispatchersExclusive`. Over it, `DispatcherInv` adds what has been sent:
an event was sent at most once per try, exactly once as long as nothing failed
(`PostsCounted`), a confirmed one is only waiting to be marked (`ConfirmedIsDone`),
and a payload about to be sent is still the summary of its batch
(`PayloadsTruthful`), since a batch with a verdict no longer changes. Then every step
is, for each event, a step of `Delivery` or none. The lemmas on stages
(`StageStep`) say how claims, marks and crashes move an event, those on `Sent`
how a POST does, and the refinement puts them together.

**The argument for the composition.** Of the tables the dispatchers see the batches with
a verdict, the finished items of those, and the events. `EventsCounted` is what the pool
has to add to `PoolInv`: for every set of batches, the events written about them and the
workers about to count and announce one of them are together no more than their items
that are done or failed. It holds since an event is written on behalf of an item whose
outcome a worker recorded, an outcome is recorded once (`TerminalItems`), and the
worker that recorded it writes one event at most; a crash or a failed call only loses
events. Stated for sets of batches it is what the guard of `Announce` asks. The lemma
`PoolSeen` then sorts the steps of the pool into those that finish no batch and leave
the events alone, those that complete one (`Finishes`), and those that announce one
(`Announces`). The dispatchers in turn write only events they have claimed
(`DispatchersHold`), and what they write keeps the number of events and the batches they
are about (`Rewrites`), so that the pool's invariant survives their steps
(`EventsMarked`); and what they read of a batch with a verdict is the same in what they
see and in the tables (`SeenSummary`).

Since every step of the whole is then one of `WebhookDispatcher` over what its
dispatchers see, `DispatcherInv` of that module is an invariant of the whole
(`ToldInv`, with `DispatcherProofs` as the INSTANCE `Told`), and its theorems are carried
over to the tables themselves. Together with `FinishedVerdict` of the pool they give
`ReportsAddUp`: the numbers a receiver is told, counted by `GetBatchItemsStatus`, and the
status, decided by `CompleteBatch`, belong together. In `Middleware` only the workers'
calls to Postgres fail; what failed calls of its own do to a dispatcher is in
`WebhookDispatcher` and its theorems.

**The argument for the use cases.** `ServiceInv` says how far each call got. A
submission that is past `Create` has its batch, and past `Insert` its items
(`SubmissionsStored`); a key is saved last, so that what it stands for, and with it
every answer, is a batch stored in full under that key (`KeysStored`,
`AnswersStored`). No two stored batches have the same key, the absent one counting as
one (`KeysUnique`): this is the UNIQUE column, and it is why the key check, which reads
before it writes, need not be atomic. For the queries, `QueriesKnown` bounds the count
of the done items by what it is now: done and failed items stay so
(`StoreMoves`, which every step of requests and workers satisfies), so that the two
counts and the status, though read one after the other, are never ahead.

**The argument for the breaker.** `CountsInv` adds to `CountsAccount` that a closed
breaker's requests cover its successes, its failures and what is in flight
(`WindowAccounts`), that a half-open one admitted no more than `MaxRequests`
(`ProbesLimited`), and that an answer that will be counted is to a request admitted in
the present state (`CurrentAdmittedNow`). The last makes `ProbesDecide` hold: a change
of state empties `current`, so that a late answer changes nothing.

**The argument for `Processing`.** The reply `WorkerPool` chooses freely is fixed
here, so that every step of the pool in it is a step of `WorkerPool`, and `ClaimInv` is
taken over from `WorkerPoolProofs` as it is (`Proved`). The lemma `StepKinds` sorts the
steps by what they do to a call: it starts, asks, ends without or with an answer, its
outcome is recorded, the node goes down or comes back. `ProcessingInv` then counts the
calls: a row not on its way to System C has cost at most `retry_count` of them
(`RowsUnasked`), a success about to be recorded was processed
(`SuccessesProcessed`), and, while nothing failed, what was processed is done, about to be
recorded as done, or stuck (`ProcessedSettled`). The third case is real: recording the
outcome of an item whose counter is at the end of SMALLINT is refused, and so is resetting
it, so that the item stays in processing for ever (`OutOfTries`) - lost, but not
processed twice.

**The argument for the process.** `ConnectionOfMain` says that nothing runs before
the connection is open and that main closes it last; `TakenDown` that each deferred
call leaves behind it what it waited for: no handler after `Shutdown`, whose timeout
ends the process at once; no dispatcher, then no loop of the pool.

**The argument for System A.** A row is there exactly if its seeder inserted it
(`RowsSeeded`), which with `ReplyMeant` gives the answer to the trigger. What the sender
is about to mark sent is the batch accepted last (`LastWasPosted`), and what it has yet
to post, or was turned down, does not count as sent (`BatchIsOpen`), although the
webhook handler writes the same column between the POST and the marking: it only writes
about accepted items, and a failed update leaves all of them alone. While nothing fails, an accepted item stays sent until a webhook
reports it failed (`SubmittedIsKept`), and only what does not count as sent is claimed:
no item is submitted twice otherwise.

**Only model-checked:** liveness under fairness, which the prover does not reach
(`ItemsSettle`, `BatchesReported`, `EventsSettle`, `BreakerRecovers`, `QueueDrains`,
`BadIntervalEnds`, `SignalEnds`). Everything else the passing runs check is proved.
Of the inductive invariants `PoolInv` is checked by a run as well; the others, and
`ReportsAddUp`, are proved without a run of their own. No module has a RECURSIVE
operator, so that all of them can be proved about.

## 5. Not modelled, and the plan

Not modelled: the router, the API key check and the logging middleware (stateless:
a request passes or is turned down before it reaches a handler); the logger and the
uuid helper; the metrics, which nothing in the program reads; the settings other
than the two of `Server`, which are the CONSTANTS of the modules; JSON and HMAC
encoding and the validation of requests, on which no state depends (its gaps
appear as choices: the malformed `webhook_url` of `WebhookDispatcher`, the texts that
do not fit of `WorkerPool`; an item id, of any length, longer than its VARCHAR(100) makes `BulkInsertItems`
fail, as `SubmitCallFails` may); the health and statistics endpoints, which only read;
the generation of demonstration payloads; the statements without a caller
(`UpdateBatchStatus`, `IncrementProcessedItems`, `IncrementFailedItems`,
`GetBatchByCorrelationID`, `UpdateResponse`).

Built in this order, the most important behaviour first: the tables; the worker
pool with its abstract specification and proofs; the use cases; the dispatcher
with its abstract specification and proofs; the breaker; System A; the two
compositions; the process; the proofs about the rest and about the compositions. What
is planned next: failed calls of the dispatchers in `Middleware`, so that its theorems
cover them as well.
