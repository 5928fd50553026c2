------------------------------- MODULE SystemA -------------------------------
(***************************************************************************)
(* System A (simulators/systema/main.go): its table systema_items, the     *)
(* sender loop that drains it to the middleware, and the webhook handler   *)
(* that puts back the items the middleware gave up.  The seeders of        *)
(* handleTrigger or autoSeed, the sender and the handler run in goroutines *)
(* of their own and each statement or request is a step.                   *)
(*                                                                         *)
(* The middleware is what it promises: it processes an accepted batch in   *)
(* full, its outcome never changes, and it reports it with zero or more    *)
(* webhooks (none if a node crashed at the wrong time, several if answers  *)
(* were lost or two workers announced the batch).                          *)
(*                                                                         *)
(* The sender's program counter is what it does next:                      *)
(*   reset       resetStuckSending                                         *)
(*   claim       claimPendingBatch                                         *)
(*   post        POST /api/v1/batches                                      *)
(*   markSent    markSent                                                  *)
(*   markFailed  markFailedBulk                                            *)
(*   down        nothing: the process is down                              *)
(***************************************************************************)
EXTENDS Integers, FiniteSets, Sequences

CONSTANTS
  Items,          \* ids of the items that may be seeded
  Seeds,          \* what each seeder generates: sets of items
  ItemRetries,    \* systema_items.max_retries, of each item
  MaxBackoff,     \* the last retry_count POWER(2, retry_count)::int * 5 can take
  Endpoints,      \* what MIDDLEWARE_URL may be, see Endpoint
  BatchSize,      \* SenderBatchSize
  MaxBatches,     \* bound: batches the middleware accepts in a behaviour
  MaxWebhooks,    \* bound: webhooks per batch
  MaxFaults       \* bound: crashes, lost answers and failed statements

(* http.NewRequest takes the URL of the middleware, or does not.           *)
Endpoint == {"valid", "malformed"}

ASSUME SystemAAssumption ==
  /\ IsFiniteSet(Items)
  /\ Seeds \subseteq SUBSET Items
  /\ \A g, h \in Seeds : g # h => g \cap h = {}
  /\ ItemRetries \in [Items -> Int]
  /\ MaxBackoff \in Nat
  /\ Endpoints \subseteq Endpoint
  /\ BatchSize \in Nat \ {0}
  /\ MaxBatches \in Nat
  /\ MaxWebhooks \in Nat
  /\ MaxFaults \in Nat

VARIABLES
  items,          \* table systema_items
  seeder,         \* what each seeder is at
  reply,          \* what handleTrigger answered
  pc,             \* what the sender does next
  batch,          \* the items it claimed
  endpoint,       \* the URL it posts to, read when the process starts
  accepted,       \* the batches the middleware accepted, in order
  faults          \* faults so far

senderVars == <<pc, batch, endpoint>>

seedVars == <<seeder, reply>>

vars == <<items, seedVars, pc, batch, endpoint, accepted, faults>>
-----------------------------------------------------------------------------
ItemStatus == {"pending", "sending", "sent", "failed", "exhausted"}

PC == {"reset", "claim", "post", "markSent", "markFailed", "down"}

(* A batch in the middleware: its items, those it fails to process, and    *)
(* how many webhooks it has sent.                                          *)
Batch == [items : SUBSET Items, failed : SUBSET Items, webhooks : 0..MaxWebhooks]

Unsent == {i \in Items : items[i].status \in {"pending", "sending", "failed"}}

SetStatus(S, s) == items' = [i \in Items |-> IF i \in S THEN [items[i] EXCEPT !.status = s]
                                                        ELSE items[i]]

Init ==
  /\ items = [i \in Items |-> [status |-> "absent", retry |-> 0]]
  /\ seeder = [g \in Seeds |-> "idle"]
  /\ reply = "none"
  /\ pc = "reset"
  /\ batch = {}
  /\ endpoint \in Endpoints
  /\ accepted = <<>>
  /\ faults = 0
-----------------------------------------------------------------------------
(* handleTrigger, or autoSeed: it starts the seeders, all at once.         *)
Trigger ==
  /\ pc # "down"
  /\ \A g \in Seeds : seeder[g] = "idle"
  /\ seeder' = [g \in Seeds |-> "seeding"]
  /\ UNCHANGED <<items, reply, senderVars, accepted, faults>>

(* seedItems: insertItems copies the rows of a seeder in one transaction.  *)
Seed(g) ==
  /\ seeder[g] = "seeding"
  /\ SetStatus(g, "pending")
  /\ seeder' = [seeder EXCEPT ![g] = "done"]
  /\ UNCHANGED <<reply, senderVars, accepted, faults>>

(* ... or all of them are refused: external_id is UNIQUE, generateItems    *)
(* makes it of the time, and the COPY skips no duplicate.                  *)
SeedRefused(g) ==
  /\ seeder[g] = "seeding"
  /\ seeder' = [seeder EXCEPT ![g] = "failed"]
  /\ UNCHANGED <<items, reply, senderVars, accepted, faults>>

SeedersAt(s) == {g \in Seeds : seeder[g] = s}

(* handleTrigger answers when it has heard of every seeder.                *)
ReplyOfFirstResult ==
  IF SeedersAt("done") # {} THEN "success" ELSE "error"

Reply ==
  CASE SeedersAt("done") = {} -> "error"
    [] SeedersAt("failed") = {} -> "success"
    [] OTHER -> "partial"

AnswerTrigger ==
  /\ reply = "none"
  /\ SeedersAt("done") \cup SeedersAt("failed") = Seeds
  /\ reply' = Reply
  /\ UNCHANGED <<items, seeder, senderVars, accepted, faults>>

(* resetStuckSending, which runs before each claim: S is the set of rows   *)
(* that have been sending for two minutes, twice the timeout of the POST.  *)
ResetStuckForgets(S) ==
  /\ pc = "reset"
  /\ S = {}
  /\ pc' = "claim"
  /\ UNCHANGED <<seedVars, items, batch, accepted, faults, endpoint>>

ResetStuckSending(S) ==
  /\ pc = "reset"
  /\ \A i \in S : items[i].status = "sending"
  /\ SetStatus(S, "failed")
  /\ pc' = "claim"
  /\ UNCHANGED <<seedVars, batch, accepted, faults, endpoint>>

(* claimPendingBatch, of some of the due rows; with none the sender waits  *)
(* for the next tick.                                                      *)
ClaimableForgetsStatus == {i \in Items : items[i].status \in {"pending", "failed", "sent"}}

Claimable == {i \in Items : items[i].status \in {"pending", "failed"}}

ClaimPendingBatch(S) ==
  /\ pc = "claim"
  /\ S \subseteq Claimable
  /\ Cardinality(S) <= BatchSize
  /\ SetStatus(S, "sending")
  /\ batch' = S
  /\ pc' = IF S = {} THEN "reset" ELSE "post"
  /\ UNCHANGED <<seedVars, accepted, faults, endpoint>>

(* sendBatch makes no request of a URL it cannot parse: it returns and     *)
(* leaves the rows as they are, the try is not counted.                    *)
PostNotSent ==
  /\ pc = "post"
  /\ endpoint = "malformed"
  /\ batch' = {}
  /\ pc' = "reset"
  /\ UNCHANGED <<seedVars, items, accepted, faults, endpoint>>

(* sendBatch, the POST: the batch is accepted, F being the items it will   *)
(* fail to process, or it is turned down.                                  *)
Accepts(F) ==
  /\ endpoint = "valid"
  /\ Len(accepted) < MaxBatches
  /\ F \subseteq batch
  /\ accepted' = Append(accepted, [items |-> batch, failed |-> F, webhooks |-> 0])

PostAccepted(F) ==
  /\ pc = "post"
  /\ Accepts(F)
  /\ pc' = "markSent"
  /\ UNCHANGED <<seedVars, items, batch, faults, endpoint>>

PostRejectedMarksSent ==
  /\ pc = "post"
  /\ endpoint = "valid"
  /\ pc' = "markSent"
  /\ UNCHANGED <<seedVars, items, batch, accepted, faults, endpoint>>

PostRejected ==
  /\ pc = "post"
  /\ endpoint = "valid"
  /\ pc' = "markFailed"
  /\ UNCHANGED <<seedVars, items, batch, accepted, faults, endpoint>>

MarkSent ==
  /\ pc = "markSent"
  /\ SetStatus(batch, "sent")
  /\ batch' = {}
  /\ pc' = "reset"
  /\ UNCHANGED <<seedVars, accepted, faults, endpoint>>

(* UPDATE ... WHERE status IN ('sending', 'sent', 'failed', 'pending').    *)
(* The back-off is computed as an integer, and cut to 600 s only then: a   *)
(* row with too many tries fails the statement for all of S.               *)
OutOfRange(i) == items[i].status # "exhausted" /\ items[i].retry > MaxBackoff

Marked(i, last) ==
  [status |-> IF items[i].retry + 1 >= ItemRetries[i] THEN last ELSE "failed",
   retry |-> items[i].retry + 1]

MarkFailedBulkUnknownStatus(S) ==
  items' = [i \in Items |-> IF i \in S /\ items[i].status # "exhausted"
                            THEN Marked(i, "dead") ELSE items[i]]

MarkFailedBulk(S) ==
  IF \E i \in S : OutOfRange(i) THEN UNCHANGED items
  ELSE items' = [i \in Items |-> IF i \in S /\ items[i].status # "exhausted"
                                 THEN Marked(i, "exhausted") ELSE items[i]]

MarkFailed ==
  /\ pc = "markFailed"
  /\ MarkFailedBulk(batch)
  /\ batch' = {}
  /\ pc' = "reset"
  /\ UNCHANGED <<seedVars, accepted, faults, endpoint>>
-----------------------------------------------------------------------------
(* handleWebhook, for a webhook of the k-th accepted batch.                *)
HandleWebhook(k) ==
  /\ pc # "down"
  /\ accepted[k].webhooks < MaxWebhooks
  /\ accepted' = [accepted EXCEPT ![k].webhooks = @ + 1]
  /\ MarkFailedBulk(accepted[k].failed)
  /\ UNCHANGED <<seedVars, senderVars, faults>>
-----------------------------------------------------------------------------
(* Faults.                                                                 *)
Fault ==
  /\ faults < MaxFaults
  /\ faults' = faults + 1

(* handleWebhook logs an error of markFailedBulk and answers 200: the      *)
(* middleware will not come back, and the items stay as they are.          *)
HandleWebhookFails(k) ==
  /\ Fault
  /\ pc # "down"
  /\ accepted[k].webhooks < MaxWebhooks
  /\ accepted' = [accepted EXCEPT ![k].webhooks = @ + 1]
  /\ UNCHANGED <<seedVars, items, senderVars>>

(* The commit of a seeder's rows is answered with an error all the same.   *)
SeedAnswerLost(g) ==
  /\ Fault
  /\ seeder[g] = "seeding"
  /\ SetStatus(g, "pending")
  /\ seeder' = [seeder EXCEPT ![g] = "failed"]
  /\ UNCHANGED <<reply, senderVars, accepted>>

(* The POST times out or its answer is lost, though the batch is accepted; *)
(* the retry will have another idempotency key.                            *)
AnswerLost(F) ==
  /\ Fault
  /\ pc = "post"
  /\ Accepts(F)
  /\ pc' = "markFailed"
  /\ UNCHANGED <<seedVars, items, batch, endpoint>>

(* The body of the answer cannot be read: sendBatch returns and leaves the *)
(* rows as they are.                                                       *)
AnswerGarbled(F) ==
  /\ Fault
  /\ pc = "post"
  /\ Accepts(F)
  /\ batch' = {}
  /\ pc' = "reset"
  /\ UNCHANGED <<seedVars, items, endpoint>>

(* The claim took effect, but its answer is lost or cannot be scanned.     *)
ClaimAnswerLost(S) ==
  /\ Fault
  /\ pc = "claim"
  /\ S \subseteq Claimable
  /\ Cardinality(S) <= BatchSize
  /\ SetStatus(S, "sending")
  /\ pc' = "reset"
  /\ UNCHANGED <<seedVars, batch, accepted, endpoint>>

(* The statement that marks the rows, or one that resets or claims them,   *)
(* fails: the error is logged and the loop goes on.                        *)
StatementFails ==
  /\ Fault
  /\ pc \in {"reset", "claim", "markSent", "markFailed"}
  /\ pc' = IF pc = "reset" THEN "claim" ELSE "reset"
  /\ batch' = {}
  /\ UNCHANGED <<seedVars, items, accepted, endpoint>>

Crash ==
  /\ Fault
  /\ pc # "down"
  /\ pc' = "down"
  /\ batch' = {}
  /\ seeder' = [g \in Seeds |-> IF reply = "none" /\ seeder[g] # "idle" THEN "gone"
                                                                     ELSE seeder[g]]
  /\ UNCHANGED <<items, reply, accepted, endpoint>>

Restart ==
  /\ pc = "down"
  /\ pc' = "reset"
  /\ endpoint' \in Endpoints
  /\ UNCHANGED <<seedVars, items, batch, accepted, faults>>
-----------------------------------------------------------------------------
Sender ==
  \/ \E S \in SUBSET Items : ResetStuckSending(S) \/ ClaimPendingBatch(S)
  \/ \E F \in SUBSET batch : PostAccepted(F)
  \/ PostNotSent
  \/ PostRejected
  \/ MarkSent
  \/ MarkFailed

Next ==
  \/ Trigger
  \/ \E g \in Seeds : Seed(g) \/ SeedRefused(g) \/ SeedAnswerLost(g)
  \/ AnswerTrigger
  \/ Sender
  \/ \E k \in DOMAIN accepted : HandleWebhook(k) \/ HandleWebhookFails(k)
  \/ \E F \in SUBSET batch : AnswerLost(F) \/ AnswerGarbled(F)
  \/ \E S \in SUBSET Items : ClaimAnswerLost(S)
  \/ StatementFails
  \/ Crash
  \/ Restart

Spec == Init /\ [][Next]_vars

(* The sender is driven by a ticker and its POST has a timeout; rows grow  *)
(* stuck and come due, and the claim takes the longest due first.  Nothing *)
(* restarts the process.                                                   *)
Fairness ==
  /\ WF_vars(Sender)
  /\ \A i \in Items :
       /\ SF_vars(\E S \in SUBSET Items : i \in S /\ ResetStuckSending(S))
       /\ SF_vars(\E S \in SUBSET Items : i \in S /\ ClaimPendingBatch(S))

FairSpec == Spec /\ Fairness
-----------------------------------------------------------------------------
TypeOK ==
  /\ items \in [Items -> [status : ItemStatus \cup {"absent"}, retry : 0..(MaxBackoff + 1)]]
  /\ seeder \in [Seeds -> {"idle", "seeding", "done", "failed", "gone"}]
  /\ reply \in {"none", "success", "partial", "error"}
  /\ pc \in PC
  /\ batch \subseteq Items
  /\ endpoint \in Endpoints
  /\ accepted \in Seq(Batch)
  /\ faults \in 0..MaxFaults

(* What handleTrigger answers is what became of the rows, which the sender *)
(* may have taken away meanwhile: a success means that all are there, and  *)
(* an error, unless the answer to a commit was lost, that none is.         *)
TriggerTruthful ==
  /\ reply = "success" => \A g \in Seeds : \A i \in g : items[i].status # "absent"
  /\ reply = "error" /\ faults = 0 => \A i \in Items : items[i].status = "absent"

(* An item that counts as sent is in a batch the middleware accepted,      *)
(* whatever was lost, retried or restarted.                                *)
SentWasAccepted ==
  \A i \in Items : items[i].status = "sent" =>
    \E k \in DOMAIN accepted : i \in accepted[k].items

(* When no answer is lost, nothing crashes and no webhook comes twice, an  *)
(* item is submitted again only after a webhook said that it had failed:   *)
(* no item is in two batches that may both process it.                     *)
NoDuplicateSubmission ==
  faults = 0 /\ (\A k \in DOMAIN accepted : accepted[k].webhooks <= 1) =>
    \A k, l \in DOMAIN accepted : k < l =>
      \A i \in accepted[k].items \cap accepted[l].items :
        i \in accepted[k].failed /\ accepted[k].webhooks > 0

(* Unless the process stays down or its URL malformed, every item leaves   *)
(* the queue in the end: it is sent, or its retries are exhausted, as long *)
(* as max_retries stops every row while its back-off can be computed.      *)
QueueDrains ==
  []<>(pc # "down" /\ endpoint = "valid") =>
    \A i \in Items : i \in Unsent ~> i \notin Unsent \/ \E j \in Items : OutOfRange(j)
=============================================================================
