---------------------------- MODULE SystemAProofs ----------------------------
(***************************************************************************)
(* Theorems about SystemA, for every set of items and seeders, and whatever *)
(* the bounds on batches, webhooks and faults.                             *)
(***************************************************************************)
EXTENDS SystemA, TLAPS

Present == {i \in Items : items[i].status # "absent"}

PresentNext == {i \in Items : items'[i].status # "absent"}

(* Rows are there once a seeder has inserted them, and only then.          *)
RowsSeeded ==
  /\ \A g \in Seeds : seeder[g] = "done" => g \subseteq Present
  /\ \A g \in Seeds : seeder[g] \in {"idle", "seeding"} => g \cap Present = {}
  /\ faults = 0 => \A i \in Present : \E g \in Seeds : i \in g /\ seeder[g] = "done"

(* A trigger is answered when every seeder has ended, for good.            *)
ReplyMeant ==
  /\ reply = "success" => \A g \in Seeds : seeder[g] = "done"
  /\ reply = "error" => \A g \in Seeds : seeder[g] = "failed"

(* What the sender holds and what the middleware was given are rows.       *)
WorkIsPresent ==
  /\ batch \subseteq Present
  /\ \A k \in DOMAIN accepted :
       /\ accepted[k].items \subseteq Present
       /\ accepted[k].failed \subseteq accepted[k].items

(* What is about to be marked sent is the batch accepted last.             *)
LastWasPosted ==
  pc = "markSent" => accepted # <<>> /\ accepted[Len(accepted)].items = batch

(* What is still to be posted, or was turned down, does not count as sent. *)
BatchIsOpen ==
  pc \in {"post", "markFailed"} => \A i \in batch : items[i].status # "sent"

(* A webhook said that the item failed in the k-th batch.                  *)
Excused(k, i) == i \in accepted[k].failed /\ accepted[k].webhooks > 0

Undisturbed == faults = 0 /\ \A k \in DOMAIN accepted : accepted[k].webhooks <= 1

(* An item that was accepted and has not come back is sent, or is just     *)
(* about to be marked so: nothing will claim it again.                     *)
SubmittedIsKept ==
  Undisturbed =>
    \A k \in DOMAIN accepted : \A i \in accepted[k].items :
      \/ Excused(k, i)
      \/ items[i].status = "sent"
      \/ pc = "markSent" /\ k = Len(accepted)

SystemAInv ==
  /\ TypeOK
  /\ RowsSeeded
  /\ ReplyMeant
  /\ WorkIsPresent
  /\ LastWasPosted
  /\ SentWasAccepted
  /\ BatchIsOpen
  /\ SubmittedIsKept
  /\ NoDuplicateSubmission
-----------------------------------------------------------------------------
Row == [status : ItemStatus \cup {"absent"}, retry : 0..(MaxBackoff + 1)]

(* What the statements do to the rows they are given.                      *)
LEMMA StatusSet ==
  ASSUME TypeOK, NEW S \in SUBSET Items, NEW s \in ItemStatus, SetStatus(S, s)
  PROVE  /\ items' \in [Items -> Row]
         /\ \A i \in S : items'[i].status = s
         /\ \A i \in Items \ S : items'[i] = items[i]
         /\ PresentNext = Present \cup S
BY DEF TypeOK, SetStatus, Row, ItemStatus, Present, PresentNext

LEMMA FailedMarked ==
  ASSUME TypeOK, NEW S \in SUBSET Present, MarkFailedBulk(S)
  PROVE  /\ items' \in [Items -> Row]
         /\ \A i \in S : items'[i].status \in {"failed", "exhausted"} \/ items'[i] = items[i]
         /\ \A i \in Items \ S : items'[i] = items[i]
         /\ PresentNext = Present
<1>1. \A i \in S : i \in Items /\ items[i].status # "absent"
  BY DEF Present
<1>2. CASE UNCHANGED items
  BY <1>2 DEF TypeOK, Row, Present, PresentNext
<1>3. CASE ~UNCHANGED items
  <2>1. /\ \A i \in S : ~OutOfRange(i)
        /\ items' = [i \in Items |-> IF i \in S /\ items[i].status # "exhausted"
                                     THEN Marked(i, "exhausted") ELSE items[i]]
    BY <1>3 DEF MarkFailedBulk
  <2>2. ASSUME NEW i \in Items
        PROVE  /\ items'[i] \in Row
               /\ i \in S => items'[i].status \in {"failed", "exhausted"}
               /\ i \notin S => items'[i] = items[i]
    <3>1. /\ items[i] \in Row
          /\ items'[i] = IF i \in S /\ items[i].status # "exhausted"
                         THEN Marked(i, "exhausted") ELSE items[i]
      BY <2>1 DEF TypeOK, Row
    <3>2. CASE i \in S /\ items[i].status # "exhausted"
      <4>1. items[i].retry + 1 \in 0..(MaxBackoff + 1)
        <5>1. items[i].retry \in 0..(MaxBackoff + 1) /\ ~(items[i].retry > MaxBackoff)
          BY <2>1, <3>1, <3>2 DEF OutOfRange, Row
        <5> QED
          BY <5>1, SystemAAssumption
      <4>2. \E s \in {"failed", "exhausted"} :
              items'[i] = [status |-> s, retry |-> items[i].retry + 1]
        BY <3>1, <3>2 DEF Marked
      <4>3. ASSUME NEW s \in {"failed", "exhausted"},
                   items'[i] = [status |-> s, retry |-> items[i].retry + 1]
            PROVE  items'[i] \in Row /\ items'[i].status = s
        <5>1. s \in ItemStatus \cup {"absent"}
          BY DEF ItemStatus
        <5> QED
          BY <4>1, <4>3, <5>1 DEF Row
      <4> QED
        BY <3>2, <4>2, <4>3
    <3>3. CASE ~(i \in S /\ items[i].status # "exhausted")
      BY <3>1, <3>3
    <3> QED
      BY <3>2, <3>3
  <2>3. items' \in [Items -> Row]
    <3>1. items' = [i \in Items |-> items'[i]]
      BY <2>1
    <3> QED
      BY <2>2, <3>1
  <2> QED
    BY <1>1, <2>2, <2>3 DEF Present, PresentNext
<1> QED
  BY <1>2, <1>3

LEMMA PostedBatch ==
  ASSUME TypeOK, NEW F \in SUBSET batch, Accepts(F)
  PROVE  /\ accepted' \in Seq(Batch)
         /\ Len(accepted') = Len(accepted) + 1
         /\ DOMAIN accepted' = 1..(Len(accepted) + 1)
         /\ \A k \in DOMAIN accepted : accepted'[k] = accepted[k]
         /\ accepted'[Len(accepted) + 1] = [items |-> batch, failed |-> F, webhooks |-> 0]
<1>1. [items |-> batch, failed |-> F, webhooks |-> 0] \in Batch
  BY SystemAAssumption DEF TypeOK, Batch
<1> QED
  BY <1>1 DEF TypeOK, Accepts

LEMMA CountedWebhook ==
  ASSUME TypeOK, NEW k \in DOMAIN accepted, accepted[k].webhooks < MaxWebhooks,
         accepted' = [accepted EXCEPT ![k].webhooks = @ + 1]
  PROVE  /\ accepted' \in Seq(Batch)
         /\ Len(accepted') = Len(accepted)
         /\ DOMAIN accepted' = DOMAIN accepted
         /\ \A l \in DOMAIN accepted \ {k} : accepted'[l] = accepted[l]
         /\ accepted'[k].items = accepted[k].items
         /\ accepted'[k].failed = accepted[k].failed
         /\ accepted'[k].webhooks = accepted[k].webhooks + 1
<1>1. accepted \in Seq(Batch) /\ accepted[k] \in Batch /\ k \in 1..Len(accepted)
  BY DEF TypeOK
<1>2. accepted[k].webhooks + 1 \in 0..MaxWebhooks
  BY <1>1, SystemAAssumption DEF Batch
<1> DEFINE b == [accepted[k] EXCEPT !.webhooks = @ + 1]
<1>3. /\ b \in Batch /\ b.items = accepted[k].items /\ b.failed = accepted[k].failed
      /\ b.webhooks = accepted[k].webhooks + 1
  BY <1>1, <1>2 DEF Batch
<1>4. accepted' = [accepted EXCEPT ![k] = b]
  OBVIOUS
<1> HIDE DEF b
<1>5. accepted' \in Seq(Batch) /\ Len(accepted') = Len(accepted)
  BY <1>1, <1>3, <1>4
<1> QED
  BY <1>1, <1>3, <1>4, <1>5
-----------------------------------------------------------------------------
(* The steps by what they write: the seeders and the trigger, the sender,  *)
(* and the webhook handler.                                                *)
SeederStep ==
  \/ Trigger
  \/ \E g \in Seeds : Seed(g) \/ SeedRefused(g) \/ SeedAnswerLost(g)
  \/ AnswerTrigger

WebhookStep == \E k \in DOMAIN accepted : HandleWebhook(k) \/ HandleWebhookFails(k)

SenderStep ==
  \/ Sender
  \/ \E F \in SUBSET batch : AnswerLost(F) \/ AnswerGarbled(F)
  \/ \E S \in SUBSET Items : ClaimAnswerLost(S)
  \/ StatementFails
  \/ Restart

LEMMA NextSteps ==
  ASSUME [Next]_vars
  PROVE  SeederStep \/ SenderStep \/ WebhookStep \/ Crash \/ UNCHANGED vars
BY DEF Next, SeederStep, SenderStep, WebhookStep

LEMMA SeederMoves ==
  ASSUME TypeOK, SeederStep
  PROVE  /\ UNCHANGED <<senderVars, accepted>>
         /\ seeder' \in [Seeds -> {"idle", "seeding", "done", "failed", "gone"}]
         /\ reply' \in {"none", "success", "partial", "error"}
         /\ faults' \in 0..MaxFaults /\ faults <= faults'
         /\ \/ UNCHANGED items
            \/ \E g \in Seeds : /\ seeder[g] = "seeding" /\ SetStatus(g, "pending")
                                /\ \/ Seed(g)
                                   \/ SeedAnswerLost(g)
<1>1. CASE Trigger \/ AnswerTrigger
  BY <1>1 DEF Trigger, AnswerTrigger, Reply, TypeOK
<1>2. ASSUME NEW g \in Seeds, Seed(g) \/ SeedRefused(g) \/ SeedAnswerLost(g)
      PROVE  /\ UNCHANGED <<senderVars, accepted, reply>>
             /\ seeder' \in [Seeds -> {"idle", "seeding", "done", "failed", "gone"}]
             /\ faults' \in 0..MaxFaults /\ faults <= faults'
             /\ \/ UNCHANGED items
                \/ seeder[g] = "seeding" /\ SetStatus(g, "pending") /\ (Seed(g) \/ SeedAnswerLost(g))
  <2>1. CASE Seed(g)
    BY <2>1 DEF Seed, TypeOK
  <2>2. CASE SeedRefused(g)
    BY <2>2 DEF SeedRefused, TypeOK
  <2>3. CASE SeedAnswerLost(g)
    <3>1. faults' \in 0..MaxFaults /\ faults <= faults'
      BY <2>3, SystemAAssumption DEF SeedAnswerLost, Fault, TypeOK
    <3> QED
      BY <2>3, <3>1 DEF SeedAnswerLost, TypeOK
  <2> QED
    BY <1>2, <2>1, <2>2, <2>3
<1> QED
  BY <1>1, <1>2 DEF SeederStep, TypeOK

(* The sender and the handler leave the seeders alone and neither insert   *)
(* rows nor touch those that are not there.                                *)
SenderOrHandlerMoves ==
  /\ UNCHANGED seedVars
  /\ items' \in [Items -> Row] /\ PresentNext = Present
  /\ pc' \in PC /\ batch' \subseteq Present /\ endpoint' \in Endpoints
  /\ accepted' \in Seq(Batch)
  /\ faults' \in 0..MaxFaults /\ faults <= faults'

LEMMA FaultsInRange ==
  ASSUME TypeOK
  PROVE  /\ UNCHANGED faults => faults' \in 0..MaxFaults /\ faults <= faults'
         /\ Fault => faults' \in 0..MaxFaults /\ faults < faults'
BY SystemAAssumption DEF TypeOK, Fault

LEMMA RowsKept ==
  ASSUME TypeOK, UNCHANGED items
  PROVE  items' \in [Items -> Row] /\ PresentNext = Present
BY DEF TypeOK, Row, Present, PresentNext

LEMMA SenderMoves ==
  ASSUME TypeOK, WorkIsPresent, SenderStep
  PROVE  SenderOrHandlerMoves
<1>1. batch \subseteq Present /\ Present \subseteq Items
  BY DEF WorkIsPresent, Present
<1>2. ASSUME NEW S \in SUBSET Items, ResetStuckSending(S) PROVE SenderOrHandlerMoves
  <2>1. S \subseteq Present /\ SetStatus(S, "failed")
    BY <1>2 DEF ResetStuckSending, Present
  <2>2. items' \in [Items -> Row] /\ PresentNext = Present
    BY <2>1, StatusSet DEF ItemStatus
  <2> QED
    BY <1>1, <1>2, <2>2, FaultsInRange DEF ResetStuckSending, SenderOrHandlerMoves, TypeOK, PC
<1>3. ASSUME NEW S \in SUBSET Items, ClaimPendingBatch(S) PROVE SenderOrHandlerMoves
  <2>1. S \subseteq Present /\ SetStatus(S, "sending")
    BY <1>3 DEF ClaimPendingBatch, Claimable, Present
  <2>2. items' \in [Items -> Row] /\ PresentNext = Present
    BY <2>1, StatusSet DEF ItemStatus
  <2> QED
    BY <1>1, <1>3, <2>1, <2>2, FaultsInRange
    DEF ClaimPendingBatch, SenderOrHandlerMoves, TypeOK, PC
<1>4. ASSUME NEW F \in SUBSET batch, PostAccepted(F) \/ AnswerLost(F) \/ AnswerGarbled(F)
      PROVE  SenderOrHandlerMoves
  <2>1. accepted' \in Seq(Batch) /\ UNCHANGED <<seedVars, items>>
    BY <1>4, PostedBatch DEF PostAccepted, AnswerLost, AnswerGarbled
  <2>2. UNCHANGED faults \/ Fault
    BY <1>4 DEF PostAccepted, AnswerLost, AnswerGarbled
  <2>3. faults' \in 0..MaxFaults /\ faults <= faults'
    BY <2>2, FaultsInRange DEF TypeOK
  <2>4. pc' \in PC /\ batch' \subseteq Present /\ endpoint' \in Endpoints
    BY <1>1, <1>4 DEF PostAccepted, AnswerLost, AnswerGarbled, PC, TypeOK
  <2> QED
    BY <2>1, <2>3, <2>4, RowsKept DEF SenderOrHandlerMoves
<1>5. CASE MarkSent
  <2>1. items' \in [Items -> Row] /\ PresentNext = Present
    BY <1>1, <1>5, StatusSet DEF MarkSent, ItemStatus
  <2> QED
    BY <1>5, <2>1, FaultsInRange DEF MarkSent, SenderOrHandlerMoves, TypeOK, PC
<1>6. CASE MarkFailed
  <2>1. items' \in [Items -> Row] /\ PresentNext = Present
    BY <1>1, <1>6, FailedMarked DEF MarkFailed
  <2> QED
    BY <1>6, <2>1, FaultsInRange DEF MarkFailed, SenderOrHandlerMoves, TypeOK, PC
<1>7. CASE PostNotSent \/ PostRejected \/ Restart
  <2>1. items' \in [Items -> Row] /\ PresentNext = Present
    BY <1>7, RowsKept DEF PostNotSent, PostRejected, Restart
  <2> QED
    BY <1>1, <1>7, <2>1, FaultsInRange
    DEF PostNotSent, PostRejected, Restart, SenderOrHandlerMoves, TypeOK, PC
<1>8. CASE StatementFails
  <2>1. items' \in [Items -> Row] /\ PresentNext = Present
    BY <1>8, RowsKept DEF StatementFails
  <2>2. faults' \in 0..MaxFaults /\ faults <= faults'
    BY <1>8, FaultsInRange DEF StatementFails, TypeOK
  <2> QED
    BY <1>8, <2>1, <2>2 DEF StatementFails, SenderOrHandlerMoves, TypeOK, PC
<1>9. ASSUME NEW S \in SUBSET Items, ClaimAnswerLost(S) PROVE SenderOrHandlerMoves
  <2>1. S \subseteq Present /\ SetStatus(S, "sending")
    BY <1>9 DEF ClaimAnswerLost, Claimable, Present
  <2>2. items' \in [Items -> Row] /\ PresentNext = Present
    BY <2>1, StatusSet DEF ItemStatus
  <2>3. faults' \in 0..MaxFaults /\ faults <= faults'
    BY <1>9, FaultsInRange DEF ClaimAnswerLost, TypeOK
  <2> QED
    BY <1>1, <1>9, <2>2, <2>3 DEF ClaimAnswerLost, SenderOrHandlerMoves, TypeOK, PC
<1> QED
  BY <1>2, <1>3, <1>4, <1>5, <1>6, <1>7, <1>8, <1>9 DEF SenderStep, Sender

LEMMA HandlerMoves ==
  ASSUME TypeOK, WorkIsPresent, WebhookStep
  PROVE  SenderOrHandlerMoves /\ UNCHANGED senderVars
<1>1. PICK k \in DOMAIN accepted : HandleWebhook(k) \/ HandleWebhookFails(k)
  BY DEF WebhookStep
<1>2. accepted' \in Seq(Batch) /\ UNCHANGED <<seedVars, senderVars, endpoint>>
  BY <1>1, CountedWebhook DEF HandleWebhook, HandleWebhookFails, senderVars
<1>3. items' \in [Items -> Row] /\ PresentNext = Present
  <2>1. CASE HandleWebhook(k)
    <3>1. accepted[k].failed \subseteq Present
      BY DEF WorkIsPresent
    <3> QED
      BY <2>1, <3>1, FailedMarked DEF HandleWebhook
  <2> QED
    BY <1>1, <2>1, RowsKept DEF HandleWebhookFails
<1>4. faults' \in 0..MaxFaults /\ faults <= faults'
  BY <1>1, FaultsInRange DEF HandleWebhook, HandleWebhookFails, TypeOK
<1> QED
  BY <1>2, <1>3, <1>4 DEF SenderOrHandlerMoves, senderVars, TypeOK, WorkIsPresent
-----------------------------------------------------------------------------
LEMMA SystemAInit == Init => SystemAInv
<1> SUFFICES ASSUME Init PROVE SystemAInv
  OBVIOUS
<1>1. TypeOK
  BY SystemAAssumption DEF Init, TypeOK, PC
<1>2. RowsSeeded /\ ReplyMeant /\ WorkIsPresent
  BY DEF Init, RowsSeeded, ReplyMeant, WorkIsPresent, Present
<1>3. LastWasPosted /\ SentWasAccepted /\ BatchIsOpen
  BY DEF Init, LastWasPosted, SentWasAccepted, BatchIsOpen
<1>4. SubmittedIsKept /\ NoDuplicateSubmission
  BY DEF Init, SubmittedIsKept, NoDuplicateSubmission
<1> QED
  BY <1>1, <1>2, <1>3, <1>4 DEF SystemAInv

LEMMA RowsOfSeeds == \A g \in Seeds : g \subseteq Items
BY SystemAAssumption

LEMMA TypeStep ==
  ASSUME SystemAInv, [Next]_vars
  PROVE  TypeOK'
<1>1. TypeOK /\ WorkIsPresent
  BY DEF SystemAInv
<1>2. CASE SeederStep
  <2>1. items' \in [Items -> Row]
    <3>1. ASSUME NEW g \in Seeds, SetStatus(g, "pending") PROVE items' \in [Items -> Row]
      BY <1>1, <3>1, StatusSet, RowsOfSeeds DEF ItemStatus
    <3> QED
      BY <1>1, <1>2, <3>1, SeederMoves, RowsKept
  <2> QED
    BY <1>1, <1>2, <2>1, SeederMoves DEF TypeOK, Row, senderVars
<1>3. CASE SenderStep \/ WebhookStep
  BY <1>1, <1>3, SenderMoves, HandlerMoves
  DEF SenderOrHandlerMoves, TypeOK, Row, Present, seedVars
<1>4. CASE Crash
  <2>1. faults' \in 0..MaxFaults
    BY <1>1, <1>4, FaultsInRange DEF Crash
  <2> QED
    BY <1>1, <1>4, <2>1 DEF Crash, TypeOK, PC
<1>5. CASE UNCHANGED vars
  BY <1>1, <1>5 DEF vars, seedVars, TypeOK
<1> QED
  BY <1>2, <1>3, <1>4, <1>5, NextSteps

LEMMA SeededStep ==
  ASSUME SystemAInv, [Next]_vars
  PROVE  RowsSeeded' /\ ReplyMeant'
<1>1. TypeOK /\ WorkIsPresent /\ RowsSeeded /\ ReplyMeant
  BY DEF SystemAInv
<1>2. CASE SenderStep \/ WebhookStep \/ UNCHANGED vars
  <2>1. UNCHANGED seedVars /\ PresentNext = Present /\ (faults' = 0 => faults = 0)
    <3>1. CASE UNCHANGED vars
      BY <1>1, <3>1, RowsKept DEF vars, seedVars
    <3>2. CASE SenderStep \/ WebhookStep
      BY <1>1, <3>2, SenderMoves, HandlerMoves DEF SenderOrHandlerMoves, TypeOK
    <3> QED
      BY <1>2, <3>1, <3>2
  <2> QED
    BY <1>1, <2>1 DEF RowsSeeded, ReplyMeant, seedVars, Present, PresentNext
<1>3. CASE Crash
  <2>1. /\ items' = items /\ reply' = reply /\ faults' # 0
        /\ \A g \in Seeds : seeder'[g] = IF reply = "none" /\ seeder[g] # "idle" THEN "gone"
                                         ELSE seeder[g]
    BY <1>1, <1>3, FaultsInRange DEF Crash, TypeOK
  <2> QED
    BY <1>1, <2>1 DEF RowsSeeded, ReplyMeant, Present
<1>4. CASE Trigger
  BY <1>1, <1>4 DEF Trigger, RowsSeeded, ReplyMeant, Present
<1>5. CASE AnswerTrigger
  BY <1>1, <1>5 DEF AnswerTrigger, Reply, SeedersAt, RowsSeeded, ReplyMeant, Present, TypeOK
<1>6. ASSUME NEW g \in Seeds, SeedRefused(g) PROVE RowsSeeded' /\ ReplyMeant'
  BY <1>1, <1>6 DEF SeedRefused, RowsSeeded, ReplyMeant, Present, TypeOK
<1>7. ASSUME NEW g \in Seeds, Seed(g) \/ SeedAnswerLost(g) PROVE RowsSeeded' /\ ReplyMeant'
  <2>1. PresentNext = Present \cup g
    BY <1>1, <1>7, StatusSet, RowsOfSeeds DEF Seed, SeedAnswerLost, ItemStatus
  <2>2. \A h \in Seeds : h # g => h \cap g = {}
    BY SystemAAssumption
  <2>3. /\ seeder[g] = "seeding" /\ reply' = reply
        /\ \A h \in Seeds \ {g} : seeder'[h] = seeder[h]
        /\ \/ seeder'[g] = "done" /\ faults' = faults
           \/ seeder'[g] = "failed" /\ faults' # 0
    BY <1>1, <1>7, FaultsInRange DEF Seed, SeedAnswerLost, TypeOK
  <2>4. ReplyMeant'
    BY <1>1, <2>3 DEF ReplyMeant
  <2>5. RowsSeeded'
    BY <1>1, <2>1, <2>2, <2>3 DEF RowsSeeded, Present, PresentNext
  <2> QED
    BY <2>4, <2>5
<1> QED
  BY <1>2, <1>3, <1>4, <1>5, <1>6, <1>7, NextSteps DEF SeederStep

LEMMA PresentStep ==
  ASSUME SystemAInv, [Next]_vars
  PROVE  Present \subseteq PresentNext
<1>1. TypeOK /\ WorkIsPresent
  BY DEF SystemAInv
<1>2. CASE SeederStep
  <2>1. ASSUME NEW g \in Seeds, SetStatus(g, "pending") PROVE Present \subseteq PresentNext
    BY <1>1, <2>1, StatusSet, RowsOfSeeds DEF ItemStatus
  <2> QED
    BY <1>1, <1>2, <2>1, SeederMoves, RowsKept
<1>3. CASE SenderStep \/ WebhookStep
  BY <1>1, <1>3, SenderMoves, HandlerMoves DEF SenderOrHandlerMoves
<1>4. CASE Crash \/ UNCHANGED vars
  BY <1>1, <1>4, RowsKept DEF Crash, vars
<1> QED
  BY <1>2, <1>3, <1>4, NextSteps

(* The middleware's log: its entries keep their items and what they failed, *)
(* webhooks are counted up, and a post appends the batch that was claimed. *)
LogGrows ==
  /\ DOMAIN accepted \subseteq DOMAIN accepted'
  /\ \A k \in DOMAIN accepted :
       /\ accepted'[k].items = accepted[k].items
       /\ accepted'[k].failed = accepted[k].failed
       /\ accepted'[k].webhooks >= accepted[k].webhooks

Posted ==
  /\ DOMAIN accepted' = 1..(Len(accepted) + 1)
  /\ accepted'[Len(accepted) + 1].items = batch
  /\ accepted'[Len(accepted) + 1].failed \subseteq batch

LEMMA LogStep ==
  ASSUME SystemAInv, [Next]_vars
  PROVE  LogGrows /\ (DOMAIN accepted' = DOMAIN accepted \/ Posted)
<1>1. TypeOK
  BY DEF SystemAInv
<1>2. ASSUME NEW k \in DOMAIN accepted
      PROVE  accepted[k] \in Batch /\ accepted[k].webhooks \in Int
  <2>1. accepted[k] \in Batch
    BY <1>1 DEF TypeOK
  <2> QED
    BY <2>1 DEF Batch
<1>3. CASE UNCHANGED accepted
  BY <1>2, <1>3 DEF LogGrows
<1>4. ASSUME NEW F \in SUBSET batch, Accepts(F) PROVE LogGrows /\ Posted
  <2>1. /\ DOMAIN accepted' = 1..(Len(accepted) + 1) /\ DOMAIN accepted = 1..Len(accepted)
        /\ Len(accepted) \in Nat
        /\ \A k \in DOMAIN accepted : accepted'[k] = accepted[k]
        /\ accepted'[Len(accepted) + 1] = [items |-> batch, failed |-> F, webhooks |-> 0]
    BY <1>1, <1>4, PostedBatch DEF TypeOK
  <2> QED
    BY <1>2, <2>1 DEF LogGrows, Posted
<1>5. ASSUME NEW k \in DOMAIN accepted, HandleWebhook(k) \/ HandleWebhookFails(k)
      PROVE  LogGrows /\ DOMAIN accepted' = DOMAIN accepted
  <2>1. /\ DOMAIN accepted' = DOMAIN accepted
        /\ \A l \in DOMAIN accepted \ {k} : accepted'[l] = accepted[l]
        /\ accepted'[k].items = accepted[k].items
        /\ accepted'[k].failed = accepted[k].failed
        /\ accepted'[k].webhooks = accepted[k].webhooks + 1
    BY <1>1, <1>5, CountedWebhook DEF HandleWebhook, HandleWebhookFails
  <2> QED
    BY <1>2, <2>1 DEF LogGrows
<1>6. CASE SenderStep
  <2>1. UNCHANGED accepted \/ \E F \in SUBSET batch : Accepts(F)
    BY <1>6 DEF SenderStep, Sender, ResetStuckSending, ClaimPendingBatch, PostAccepted,
                PostNotSent, PostRejected, MarkSent, MarkFailed, AnswerLost, AnswerGarbled,
                ClaimAnswerLost, StatementFails, Restart
  <2> QED
    BY <1>3, <1>4, <2>1
<1> QED
  BY <1>1, <1>3, <1>5, <1>6, NextSteps, SeederMoves DEF WebhookStep, Crash, vars

LEMMA WorkStep ==
  ASSUME SystemAInv, [Next]_vars
  PROVE  WorkIsPresent'
<1>1. TypeOK /\ WorkIsPresent /\ Present \subseteq PresentNext
  BY PresentStep DEF SystemAInv
<1>2. batch' \subseteq PresentNext
  <2>1. CASE SenderStep \/ WebhookStep
    BY <1>1, <2>1, SenderMoves, HandlerMoves DEF SenderOrHandlerMoves
  <2>2. CASE SeederStep \/ Crash \/ UNCHANGED vars
    BY <1>1, <2>2, SeederMoves DEF WorkIsPresent, Crash, vars, senderVars
  <2> QED
    BY <2>1, <2>2, NextSteps
<1>3. ASSUME NEW k \in DOMAIN accepted'
      PROVE  /\ accepted'[k].items \subseteq PresentNext
             /\ accepted'[k].failed \subseteq accepted'[k].items
  <2>1. CASE k \in DOMAIN accepted
    BY <1>1, <2>1, LogStep DEF LogGrows, WorkIsPresent
  <2>2. CASE k \notin DOMAIN accepted
    <3>1. k = Len(accepted) + 1 /\ Posted
      BY <1>1, <1>3, <2>2, LogStep DEF TypeOK, Posted
    <3> QED
      BY <1>1, <3>1 DEF WorkIsPresent, Posted
  <2> QED
    BY <2>1, <2>2
<1> QED
  BY <1>2, <1>3 DEF WorkIsPresent, Present, PresentNext

(* Only markSent makes a row count as sent.                                *)
LEMMA OnlyMarkSent ==
  ASSUME SystemAInv, [Next]_vars, ~MarkSent, NEW i \in Items, items'[i].status = "sent"
  PROVE  items[i].status = "sent"
<1>1. TypeOK /\ WorkIsPresent /\ batch \subseteq Present /\ Present \subseteq Items
  BY DEF SystemAInv, WorkIsPresent, Present
<1>2. ASSUME NEW S \in SUBSET Items, NEW s \in ItemStatus \ {"sent"}, SetStatus(S, s)
      PROVE  items[i].status = "sent"
  <2>1. s \in ItemStatus /\ s # "sent"
    OBVIOUS
  <2>2. /\ \A j \in S : items'[j].status = s
        /\ \A j \in Items \ S : items'[j] = items[j]
    BY <1>1, <1>2, <2>1, StatusSet
  <2> QED
    BY <2>1, <2>2
<1>3. ASSUME NEW S \in SUBSET Present, MarkFailedBulk(S)
      PROVE  items[i].status = "sent"
  BY <1>1, <1>3, FailedMarked
<1>4. CASE SeederStep
  <2>1. UNCHANGED items \/ \E g \in Seeds : SetStatus(g, "pending")
    BY <1>1, <1>4, SeederMoves
  <2> QED
    BY <1>2, <2>1, RowsOfSeeds DEF ItemStatus
<1>5. CASE SenderStep
  <2>1. ASSUME NEW S \in SUBSET Items,
               ResetStuckSending(S) \/ ClaimPendingBatch(S) \/ ClaimAnswerLost(S)
        PROVE  items[i].status = "sent"
    BY <1>2, <2>1 DEF ResetStuckSending, ClaimPendingBatch, ClaimAnswerLost, ItemStatus
  <2>2. CASE MarkFailed
    BY <1>1, <1>3, <2>2 DEF MarkFailed
  <2>3. CASE UNCHANGED items
    BY <2>3
  <2>4. \/ \E S \in SUBSET Items :
              ResetStuckSending(S) \/ ClaimPendingBatch(S) \/ ClaimAnswerLost(S)
        \/ MarkFailed
        \/ UNCHANGED items
    BY <1>5 DEF SenderStep, Sender, PostAccepted, PostNotSent, PostRejected, AnswerLost,
                AnswerGarbled, ClaimAnswerLost, StatementFails, Restart
  <2> QED
    BY <2>1, <2>2, <2>3, <2>4
<1>6. CASE WebhookStep
  <2>1. UNCHANGED items \/ \E k \in DOMAIN accepted : MarkFailedBulk(accepted[k].failed)
    BY <1>6 DEF WebhookStep, HandleWebhook, HandleWebhookFails
  <2>2. \A k \in DOMAIN accepted : accepted[k].failed \subseteq Present
    BY <1>1 DEF WorkIsPresent
  <2> QED
    BY <1>3, <2>1, <2>2
<1> QED
  BY <1>4, <1>5, <1>6, NextSteps DEF Crash, vars

LEMMA SentStep ==
  ASSUME SystemAInv, [Next]_vars
  PROVE  LastWasPosted' /\ SentWasAccepted'
<1>1. /\ TypeOK /\ WorkIsPresent /\ LastWasPosted /\ SentWasAccepted
      /\ DOMAIN accepted = 1..Len(accepted) /\ Len(accepted) \in Nat
  BY DEF SystemAInv, TypeOK
<1>2. LogGrows /\ TypeOK'
  BY LogStep, TypeStep
<1>3. DOMAIN accepted' = 1..Len(accepted') /\ Len(accepted') \in Nat
  BY <1>2 DEF TypeOK
<1>4. ASSUME pc' = "markSent"
      PROVE  accepted' # <<>> /\ accepted'[Len(accepted')].items = batch'
  <2>1. CASE pc = "markSent"
    <3>1. batch' = batch
      BY <1>4, <2>1, NextSteps, SeederMoves, HandlerMoves, <1>1
      DEF senderVars, Crash, vars, SenderStep, Sender, ResetStuckSending, ClaimPendingBatch,
          PostAccepted, PostNotSent, PostRejected, MarkSent, MarkFailed, AnswerLost,
          AnswerGarbled, ClaimAnswerLost, StatementFails, Restart
    <3>2. UNCHANGED accepted \/ WebhookStep
      BY <1>4, <2>1, NextSteps, SeederMoves, <1>1
      DEF senderVars, Crash, vars, SenderStep, Sender, ResetStuckSending, ClaimPendingBatch,
          PostAccepted, PostNotSent, PostRejected, MarkSent, MarkFailed, AnswerLost,
          AnswerGarbled, ClaimAnswerLost, StatementFails, Restart
    <3>3. Len(accepted') = Len(accepted)
      BY <1>1, <3>2, CountedWebhook DEF WebhookStep, HandleWebhook, HandleWebhookFails
    <3>4. accepted # <<>> /\ accepted[Len(accepted)].items = batch /\ Len(accepted) > 0
      BY <1>1, <2>1 DEF LastWasPosted
    <3> QED
      BY <1>1, <1>2, <1>3, <3>1, <3>3, <3>4 DEF LogGrows
  <2>2. CASE pc # "markSent"
    <3>1. PICK F \in SUBSET batch : PostAccepted(F)
      BY <1>4, <2>2, NextSteps, SeederMoves, HandlerMoves, <1>1
      DEF senderVars, Crash, vars, SenderStep, Sender, ResetStuckSending, ClaimPendingBatch,
          PostNotSent, PostRejected, MarkSent, MarkFailed, AnswerLost, AnswerGarbled,
          ClaimAnswerLost, StatementFails, Restart
    <3>2. batch' = batch /\ Accepts(F)
      BY <3>1 DEF PostAccepted
    <3>3. /\ Len(accepted') = Len(accepted) + 1
          /\ accepted'[Len(accepted) + 1] = [items |-> batch, failed |-> F, webhooks |-> 0]
      BY <1>1, <3>2, PostedBatch
    <3> QED
      BY <1>1, <1>3, <3>2, <3>3
  <2> QED
    BY <2>1, <2>2
<1>5. ASSUME NEW i \in Items, items'[i].status = "sent"
      PROVE  \E k \in DOMAIN accepted' : i \in accepted'[k].items
  <2>1. CASE items[i].status = "sent"
    BY <1>1, <1>2, <2>1 DEF SentWasAccepted, LogGrows
  <2>2. CASE items[i].status # "sent"
    <3>1. MarkSent
      BY <1>5, <2>2, OnlyMarkSent
    <3>2. i \in batch
      BY <1>1, <1>5, <2>2, <3>1, StatusSet DEF MarkSent, ItemStatus, WorkIsPresent, Present
    <3>3. Len(accepted) \in DOMAIN accepted /\ i \in accepted[Len(accepted)].items
      BY <1>1, <3>1, <3>2 DEF MarkSent, LastWasPosted
    <3> QED
      BY <1>2, <3>3 DEF LogGrows
  <2> QED
    BY <2>1, <2>2
<1> QED
  BY <1>4, <1>5 DEF LastWasPosted, SentWasAccepted

LEMMA OpenStep ==
  ASSUME SystemAInv, [Next]_vars
  PROVE  BatchIsOpen'
<1>1. TypeOK /\ WorkIsPresent /\ BatchIsOpen /\ batch \subseteq Items
  BY DEF SystemAInv, TypeOK
<1>2. SUFFICES ASSUME pc' \in {"post", "markFailed"}, NEW i \in batch',
                      items'[i].status = "sent"
               PROVE  FALSE
  BY DEF BatchIsOpen
<1>3. ~MarkSent /\ i \in Items
  BY <1>2, TypeStep DEF MarkSent, TypeOK
<1>4. items[i].status = "sent"
  BY <1>2, <1>3, OnlyMarkSent
<1>5. CASE \E S \in SUBSET Items : ClaimPendingBatch(S)
  BY <1>2, <1>4, <1>5 DEF ClaimPendingBatch, Claimable
<1>6. CASE ~\E S \in SUBSET Items : ClaimPendingBatch(S)
  <2>1. batch' = batch /\ pc \in {"post", "markFailed"}
    BY <1>1, <1>2, <1>3, <1>6, NextSteps, SeederMoves, HandlerMoves
    DEF senderVars, Crash, vars, SenderStep, Sender, ResetStuckSending,
        PostAccepted, PostNotSent, PostRejected, MarkFailed, AnswerLost, AnswerGarbled,
        ClaimAnswerLost, StatementFails, Restart
  <2> QED
    BY <1>1, <1>2, <1>4, <2>1 DEF BatchIsOpen
<1> QED
  BY <1>5, <1>6

ExcusedNext(k, i) == i \in accepted'[k].failed /\ accepted'[k].webhooks > 0

(* Without a fault, nothing is posted that nobody asked for again.         *)
LEMMA KeptStep ==
  ASSUME SystemAInv, [Next]_vars
  PROVE  SubmittedIsKept' /\ NoDuplicateSubmission'
<1>1. /\ TypeOK /\ WorkIsPresent /\ RowsSeeded /\ BatchIsOpen /\ LastWasPosted
      /\ DOMAIN accepted = 1..Len(accepted) /\ Len(accepted) \in Nat
      /\ faults \in Nat
  BY SystemAAssumption DEF SystemAInv, TypeOK
<1>2. LogGrows /\ (DOMAIN accepted' = DOMAIN accepted \/ Posted)
  BY LogStep
<1>3. /\ DOMAIN accepted' = 1..Len(accepted') /\ Len(accepted') \in Nat
      /\ \A k \in DOMAIN accepted' : accepted'[k].webhooks \in Int
      /\ \A k \in DOMAIN accepted : accepted[k].webhooks \in Int
  <2>1. ASSUME NEW b \in Batch PROVE b.webhooks \in Int
    BY DEF Batch
  <2> QED
    BY <2>1, <1>1, TypeStep DEF TypeOK
<1>4. faults <= faults' /\ (Fault => faults < faults')
  <2>1. CASE SenderStep \/ WebhookStep
    BY <1>1, <2>1, SenderMoves, HandlerMoves, FaultsInRange DEF SenderOrHandlerMoves
  <2>2. CASE SeederStep
    BY <1>1, <2>2, SeederMoves, FaultsInRange
  <2>3. CASE Crash \/ UNCHANGED vars
    BY <1>1, <2>3, FaultsInRange DEF Crash, vars
  <2> QED
    BY <2>1, <2>2, <2>3, NextSteps
<1>5. SUFFICES ASSUME faults' = 0, \A k \in DOMAIN accepted' : accepted'[k].webhooks <= 1
      PROVE  /\ \A k \in DOMAIN accepted' : \A i \in accepted'[k].items :
                  \/ ExcusedNext(k, i)
                  \/ items'[i].status = "sent"
                  \/ pc' = "markSent" /\ k = Len(accepted')
             /\ \A k, l \in DOMAIN accepted' : k < l =>
                  \A i \in accepted'[k].items \cap accepted'[l].items : ExcusedNext(k, i)
  BY DEF SubmittedIsKept, NoDuplicateSubmission, Undisturbed, Excused, ExcusedNext
<1>6. ~Fault /\ Undisturbed
  <2>1. ~Fault /\ faults = 0
    BY <1>1, <1>4, <1>5
  <2>2. \A k \in DOMAIN accepted : accepted[k].webhooks <= 1
    BY <1>2, <1>3, <1>5 DEF LogGrows
  <2> QED
    BY <2>1, <2>2 DEF Undisturbed
<1>7. /\ \A k \in DOMAIN accepted : \A i \in accepted[k].items :
           \/ Excused(k, i)
           \/ items[i].status = "sent"
           \/ pc = "markSent" /\ k = Len(accepted)
      /\ \A k, l \in DOMAIN accepted : k < l =>
           \A i \in accepted[k].items \cap accepted[l].items : Excused(k, i)
  BY <1>6 DEF SystemAInv, SubmittedIsKept, NoDuplicateSubmission, Undisturbed, Excused
<1>8. ASSUME NEW k \in DOMAIN accepted, NEW i, Excused(k, i) PROVE ExcusedNext(k, i)
  BY <1>2, <1>3, <1>8 DEF LogGrows, Excused, ExcusedNext
<1>9. /\ \A k \in DOMAIN accepted : accepted[k].items \subseteq Present
      /\ Present \subseteq Items
  BY <1>1 DEF WorkIsPresent, Present
(* What was accepted before the step.                                      *)
<1>10. ASSUME NEW k \in DOMAIN accepted, NEW i \in accepted[k].items
       PROVE  \/ ExcusedNext(k, i)
              \/ items'[i].status = "sent"
              \/ pc' = "markSent" /\ k = Len(accepted')
  <2>1. SUFFICES ASSUME ~Excused(k, i), ~ExcusedNext(k, i)
                 PROVE  \/ items'[i].status = "sent"
                        \/ pc' = "markSent" /\ k = Len(accepted')
    BY <1>8
  <2>2. items[i].status = "sent" \/ (pc = "markSent" /\ k = Len(accepted))
    BY <1>7, <2>1
  <2>3. i \in Items /\ i \in Present
    BY <1>9
  <2>4. CASE SeederStep
    <3>1. items'[i] = items[i]
      <4>1. ASSUME NEW g \in Seeds, seeder[g] = "seeding", SetStatus(g, "pending")
            PROVE  items'[i] = items[i]
        <5>1. i \notin g
          BY <1>1, <2>3, <4>1 DEF RowsSeeded
        <5> QED
          BY <1>1, <2>3, <4>1, <5>1, StatusSet, RowsOfSeeds DEF ItemStatus
      <4> QED
        BY <1>1, <2>4, <4>1, SeederMoves
    <3>2. pc' = pc /\ accepted' = accepted
      BY <1>1, <2>4, SeederMoves DEF senderVars
    <3> QED
      BY <2>2, <3>1, <3>2
  <2>5. ASSUME NEW S \in SUBSET Items, ResetStuckSending(S) \/ ClaimPendingBatch(S)
        PROVE  items'[i].status = "sent"
    <3>1. items[i].status = "sent"
      BY <2>2, <2>5 DEF ResetStuckSending, ClaimPendingBatch
    <3>2. i \notin S
      BY <2>5, <3>1 DEF ResetStuckSending, ClaimPendingBatch, Claimable
    <3> QED
      BY <1>1, <2>3, <2>5, <3>1, <3>2, StatusSet
      DEF ResetStuckSending, ClaimPendingBatch, ItemStatus
  <2>6. CASE MarkSent
    <3>1. i \in batch => items'[i].status = "sent"
      BY <1>1, <2>6, StatusSet DEF MarkSent, ItemStatus, TypeOK
    <3>2. i \notin batch => items'[i] = items[i]
      BY <1>1, <2>3, <2>6, StatusSet DEF MarkSent, ItemStatus, TypeOK
    <3>3. i \notin batch => items[i].status = "sent"
      BY <1>1, <2>2 DEF LastWasPosted
    <3> QED
      BY <3>1, <3>2, <3>3
  <2>7. CASE MarkFailed
    <3>1. items[i].status = "sent" /\ i \notin batch
      BY <1>1, <2>2, <2>7 DEF MarkFailed, BatchIsOpen
    <3> QED
      BY <1>1, <2>3, <2>7, <3>1, FailedMarked DEF MarkFailed, WorkIsPresent
  <2>8. CASE PostNotSent \/ PostRejected \/ Restart \/ \E F \in SUBSET batch : PostAccepted(F)
    BY <2>2, <2>8 DEF PostNotSent, PostRejected, Restart, PostAccepted
  <2>9. ASSUME NEW l \in DOMAIN accepted, HandleWebhook(l)
        PROVE  \/ items'[i].status = "sent"
               \/ pc' = "markSent" /\ k = Len(accepted')
    <3>1. /\ pc' = pc /\ Len(accepted') = Len(accepted)
          /\ accepted'[l].failed = accepted[l].failed
          /\ accepted'[l].webhooks = accepted[l].webhooks + 1
          /\ accepted'[l].webhooks <= 1
      BY <1>1, <1>2, <1>5, <2>9, CountedWebhook DEF HandleWebhook, LogGrows, senderVars
    <3>2. CASE i \in accepted[l].failed
      <4>1. ~(accepted[l].webhooks > 0) /\ accepted'[l].webhooks > 0
        <5>1. accepted[l] \in Batch
          BY <1>1 DEF TypeOK
        <5>2. accepted[l].webhooks \in 0..MaxWebhooks
          BY <5>1 DEF Batch
        <5> QED
          BY <3>1, <5>2, SystemAAssumption
      <4>2. k # l
        BY <2>1, <3>1, <3>2, <4>1 DEF ExcusedNext
      <4>3. i \in accepted[l].items
        BY <1>1, <3>2 DEF WorkIsPresent
      <4>4. k < l \/ l < k
        BY <1>1, <4>2
      <4>5. Excused(k, i) \/ Excused(l, i)
        BY <1>7, <4>3, <4>4
      <4> QED
        BY <2>1, <4>1, <4>5 DEF Excused
    <3>3. CASE i \notin accepted[l].failed
      <4>1. items'[i] = items[i]
        <5>1. accepted[l].failed \subseteq Present
          BY <1>1 DEF WorkIsPresent
        <5> QED
          BY <1>1, <2>3, <2>9, <3>3, <5>1, FailedMarked DEF HandleWebhook
      <4> QED
        BY <2>2, <3>1, <4>1
    <3> QED
      BY <3>2, <3>3
  <2>10. CASE UNCHANGED vars
    BY <2>2, <2>10 DEF vars, senderVars
  <2> QED
    BY <1>6, <2>4, <2>5, <2>6, <2>7, <2>8, <2>9, <2>10, NextSteps
    DEF SenderStep, Sender, WebhookStep, HandleWebhookFails, AnswerLost, AnswerGarbled,
        ClaimAnswerLost, StatementFails, Crash
(* The batch of this step.                                                 *)
<1>11. ASSUME NEW l \in DOMAIN accepted', l \notin DOMAIN accepted
       PROVE  /\ l = Len(accepted) + 1 /\ l = Len(accepted')
              /\ pc = "post" /\ pc' = "markSent" /\ accepted'[l].items = batch
  <2>1. Posted
    BY <1>2, <1>11
  <2>2. l = Len(accepted) + 1 /\ l = Len(accepted')
    BY <1>1, <1>3, <1>11, <2>1 DEF Posted
  <2>3. accepted' # accepted /\ ~WebhookStep
    <3>1. ASSUME WebhookStep PROVE DOMAIN accepted' = DOMAIN accepted
      BY <1>1, <3>1, CountedWebhook DEF WebhookStep, HandleWebhook, HandleWebhookFails
    <3> QED
      BY <1>11, <3>1
  <2>4. \E F \in SUBSET batch : PostAccepted(F)
    BY <1>1, <1>6, <2>3, NextSteps, SeederMoves
    DEF SenderStep, Sender, ResetStuckSending, ClaimPendingBatch, PostNotSent, PostRejected, MarkSent,
        MarkFailed, AnswerLost, AnswerGarbled, ClaimAnswerLost, StatementFails, Restart, Crash, vars
  <2> QED
    BY <2>1, <2>2, <2>4 DEF PostAccepted, Posted
<1>12. ASSUME NEW k \in DOMAIN accepted', NEW i \in accepted'[k].items
       PROVE  \/ ExcusedNext(k, i)
              \/ items'[i].status = "sent"
              \/ pc' = "markSent" /\ k = Len(accepted')
  <2>1. CASE k \in DOMAIN accepted
    BY <1>2, <1>10, <2>1 DEF LogGrows
  <2> QED
    BY <1>11, <2>1
<1>13. ASSUME NEW k \in DOMAIN accepted', NEW l \in DOMAIN accepted', k < l,
              NEW i \in accepted'[k].items \cap accepted'[l].items
       PROVE  ExcusedNext(k, i)
  <2>1. k \in DOMAIN accepted
    <3>1. k \notin DOMAIN accepted => k = Len(accepted')
      BY <1>11
    <3> QED
      BY <1>3, <1>13, <3>1
  <2>2. i \in accepted[k].items
    BY <1>2, <2>1 DEF LogGrows
  <2>3. CASE l \in DOMAIN accepted
    <3>1. i \in accepted[l].items
      BY <1>2, <2>3 DEF LogGrows
    <3> QED
      BY <1>7, <1>8, <1>13, <2>1, <2>2, <2>3, <3>1
  <2>4. CASE l \notin DOMAIN accepted
    <3>1. pc = "post" /\ i \in batch
      BY <1>11, <2>4
    <3>2. items[i].status # "sent"
      BY <1>1, <3>1 DEF BatchIsOpen
    <3> QED
      BY <1>7, <1>8, <2>1, <2>2, <3>1, <3>2
  <2> QED
    BY <2>3, <2>4
<1> QED
  BY <1>12, <1>13

LEMMA SystemAStep ==
  ASSUME SystemAInv, [Next]_vars
  PROVE  SystemAInv'
BY TypeStep, SeededStep, WorkStep, SentStep, OpenStep, KeptStep DEF SystemAInv

LEMMA SystemAInvariant == Spec => []SystemAInv
<1>1. SystemAInv /\ [Next]_vars => SystemAInv'
  BY SystemAStep
<1> QED
  BY <1>1, SystemAInit, PTL DEF Spec
-----------------------------------------------------------------------------
(* What holds in every reachable state.                                    *)

(* Every row has a status of the table and no retry counter is negative,   *)
(* and what the sender holds are rows.                                     *)
THEOREM TypeCorrect == Spec => []TypeOK
<1>1. SystemAInv => TypeOK
  BY DEF SystemAInv
<1> QED
  BY <1>1, SystemAInvariant, PTL

(* The answer of handleTrigger says what became of the rows, whichever of  *)
(* the seeders ended first and whatever the sender did meanwhile.          *)
THEOREM TriggerAnswersTruly == Spec => []TriggerTruthful
<1>1. SystemAInv => TriggerTruthful
  <2> SUFFICES ASSUME SystemAInv PROVE TriggerTruthful
    OBVIOUS
  <2>1. RowsSeeded /\ ReplyMeant
    BY DEF SystemAInv
  <2>2. ASSUME reply = "success", NEW g \in Seeds, NEW i \in g
        PROVE  items[i].status # "absent"
    BY <2>1, <2>2 DEF RowsSeeded, ReplyMeant, Present
  <2>3. ASSUME reply = "error", faults = 0, NEW i \in Items
        PROVE  items[i].status = "absent"
    BY <2>1, <2>3 DEF RowsSeeded, ReplyMeant, Present
  <2> QED
    BY <2>2, <2>3 DEF TriggerTruthful
<1> QED
  BY <1>1, SystemAInvariant, PTL

(* No row counts as sent that the middleware was not given.                *)
THEOREM SentMeansAccepted == Spec => []SentWasAccepted
<1>1. SystemAInv => SentWasAccepted
  BY DEF SystemAInv
<1> QED
  BY <1>1, SystemAInvariant, PTL

(* Without a fault and a repeated webhook, an item is submitted again only *)
(* after the middleware gave it up, though webhooks may arrive between any *)
(* two statements of the sender.                                           *)
THEOREM NoItemTwice == Spec => []NoDuplicateSubmission
<1>1. SystemAInv => NoDuplicateSubmission
  BY DEF SystemAInv
<1> QED
  BY <1>1, SystemAInvariant, PTL
=============================================================================
