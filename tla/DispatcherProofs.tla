-------------------------- MODULE DispatcherProofs --------------------------
(***************************************************************************)
(* Theorems about WebhookDispatcher, for every number of dispatchers,      *)
(* batches and items and whatever the bounds on faults.                    *)
(***************************************************************************)
EXTENDS WebhookDispatcher, FiniteSetTheorems, SequenceTheorems, TLAPS

LEMMA EventIdsNat == Cardinality(Items) \in Nat /\ EventIds \subseteq Nat
BY StoreAssumption, FS_CardinalityType DEF EventIds

(* The counts of a batch's items are natural numbers.                      *)
LEMMA CountsAreNat ==
  ASSUME NEW b \in Batches
  PROVE  DoneCount(b) \in Nat /\ TotalItems(b) \in Nat /\ WithStatus(b, "failed") \subseteq Items
<1>1. /\ IsFiniteSet(Items)
      /\ ItemsOf(b) \subseteq Items
      /\ WithStatus(b, "done") \subseteq Items
      /\ WithStatus(b, "failed") \subseteq Items
  BY StoreAssumption DEF ItemsOf, WithStatus
<1>2. IsFiniteSet(ItemsOf(b)) /\ IsFiniteSet(WithStatus(b, "done"))
  BY <1>1, FS_Subset
<1> QED
  BY <1>1, <1>2, FS_CardinalityType DEF DoneCount, TotalItems

(* What a receiver may be told of a completed batch is a payload.          *)
LEMMA SummaryType ==
  ASSUME NEW b \in Batches, batches[b].status \in Verdicts
  PROVE  Summary(b) \in Payload /\ NoSummary(b) \in Payload
BY CountsAreNat DEF Summary, NoSummary, Payload

(* A statement that rewrites rows of the outbox adds and removes none.     *)
LEMMA RowsRewritten ==
  ASSUME outbox \in Seq(Event), NEW t,
         t = [k \in DOMAIN outbox |-> t[k]],
         \A k \in DOMAIN outbox : t[k] \in Event
  PROVE  t \in Seq(Event) /\ DOMAIN t = DOMAIN outbox
<1>1. DOMAIN outbox = 1..Len(outbox) /\ Len(outbox) \in Nat
  OBVIOUS
<1>2. t \in [1..Len(outbox) -> Event]
  BY <1>1
<1> QED
  BY <1>1, <1>2, SeqDef

(* No row is ever marked processed: the table admits no such status.       *)
LEMMA NeverProcessed ==
  ASSUME NEW k, MarkEventAsProcessed(k)
  PROVE  outbox' = outbox
BY DEF MarkEventAsProcessed, EventStatus

LEMMA ClaimedRows ==
  ASSUME OutboxTypeOK, NEW S, GetPendingEvents(S)
  PROVE  /\ outbox' \in Seq(Event)
         /\ DOMAIN outbox' = DOMAIN outbox
         /\ \A k \in S : /\ k \in DOMAIN outbox
                         /\ outbox[k].status \in {"pending", "failed"}
                         /\ outbox'[k] = [outbox[k] EXCEPT !.status = "processing"]
         /\ \A k \in DOMAIN outbox \ S : outbox'[k] = outbox[k]
         /\ \A k \in DOMAIN outbox : outbox'[k].batch = outbox[k].batch
                                     /\ outbox'[k].retry = outbox[k].retry
<1>1. /\ S \subseteq DOMAIN outbox
      /\ \A k \in S : outbox[k].status \in {"pending", "failed"}
  BY DEF GetPendingEvents, PendingEvents
<1>2. \A k \in DOMAIN outbox : outbox[k] \in Event
  BY DEF OutboxTypeOK
<1>3. outbox' = [k \in DOMAIN outbox |->
                   IF k \in S THEN [outbox[k] EXCEPT !.status = "processing"] ELSE outbox[k]]
  BY DEF GetPendingEvents
<1>4. \A k \in DOMAIN outbox : outbox'[k] \in Event
  BY <1>2, <1>3 DEF Event, EventStatus
<1>5. outbox' \in Seq(Event) /\ DOMAIN outbox' = DOMAIN outbox
  BY <1>3, <1>4, RowsRewritten DEF OutboxTypeOK
<1> QED
  BY <1>1, <1>2, <1>3, <1>5 DEF Event

LEMMA FailedRow ==
  ASSUME OutboxTypeOK, NEW k \in DOMAIN outbox, NEW n \in Nat, MarkEventAsFailed(k, n)
  PROVE  /\ outbox' \in Seq(Event)
         /\ DOMAIN outbox' = DOMAIN outbox
         /\ \A e \in DOMAIN outbox \ {k} : outbox'[e] = outbox[e]
         /\ outbox'[k].batch = outbox[k].batch
         /\ \/ outbox'[k].status = "failed" /\ outbox'[k].retry = n
            \/ outbox' = outbox /\ n > SmallIntMax
<1>1. \A e \in DOMAIN outbox : outbox[e] \in Event
  BY DEF OutboxTypeOK
<1>2. CASE n <= SmallIntMax
  <2>1. outbox' = [outbox EXCEPT ![k].status = "failed", ![k].retry = n]
    BY <1>2 DEF MarkEventAsFailed
  <2>2. outbox'[k] = [outbox[k] EXCEPT !.status = "failed", !.retry = n]
    BY <2>1
  <2>3. n \in 0..SmallIntMax
    BY <1>2, StoreAssumption
  <2>4. \A e \in DOMAIN outbox \ {k} : outbox'[e] = outbox[e]
    BY <2>1
  <2>5. outbox'[k] \in Event /\ outbox'[k].batch = outbox[k].batch
        /\ outbox'[k].status = "failed" /\ outbox'[k].retry = n
    BY <1>1, <2>2, <2>3 DEF Event, EventStatus
  <2>6. outbox' = [e \in DOMAIN outbox |-> outbox'[e]]
    BY <2>1
  <2>7. outbox' \in Seq(Event) /\ DOMAIN outbox' = DOMAIN outbox
    BY <1>1, <2>4, <2>5, <2>6, RowsRewritten DEF OutboxTypeOK
  <2> QED
    BY <2>4, <2>5, <2>7
<1>3. CASE ~(n <= SmallIntMax)
  BY <1>3, StoreAssumption DEF MarkEventAsFailed, OutboxTypeOK
<1> QED
  BY <1>2, <1>3

LEMMA WrittenRow ==
  ASSUME OutboxTypeOK, NEW b \in Batches, NEW v \in Verdicts, CreateEvent(b, v)
  PROVE  /\ outbox' \in Seq(Event)
         /\ Len(outbox) \in Nat
         /\ DOMAIN outbox = 1..Len(outbox)
         /\ DOMAIN outbox' = 1..(Len(outbox) + 1)
         /\ \A e \in DOMAIN outbox : outbox'[e] = outbox[e]
         /\ outbox'[Len(outbox) + 1] =
              [batch |-> b, verdict |-> v, status |-> "pending", retry |-> 0]
<1> DEFINE e == [batch |-> b, verdict |-> v, status |-> "pending", retry |-> 0]
<1>1. e \in Event
  BY StoreAssumption DEF Event, EventStatus
<1>2. outbox' = Append(outbox, e) /\ outbox \in Seq(Event)
  BY DEF CreateEvent, OutboxTypeOK
<1> HIDE DEF e
<1>3. /\ outbox' \in Seq(Event)
      /\ Len(outbox') = Len(outbox) + 1
      /\ \A k \in 1..Len(outbox) : outbox'[k] = outbox[k]
      /\ outbox'[Len(outbox) + 1] = e
  BY <1>1, <1>2, AppendProperties
<1> QED
  BY <1>2, <1>3 DEF e
-----------------------------------------------------------------------------
DispatchersOK ==
  /\ pc \in [Dispatchers -> PC]
  /\ rows \in [Dispatchers -> SUBSET Row]
  /\ job \in [Dispatchers -> Job \cup {NoJob}]
  /\ RowsOfBusy

ReceiversOK ==
  /\ webhook \in [Batches -> WebhookUrl]
  /\ posts \in [EventIds -> Nat]
  /\ delivered \subseteq [event : EventIds, payload : Payload]
  /\ accepted \subseteq EventIds

TablesOK == StoreTypeOK /\ OutboxTypeOK /\ DOMAIN outbox \subseteq EventIds

CountersOK == crashes \in 0..MaxCrashes /\ dbErrors \in 0..MaxDbErrors

AllOK == DispatchersOK /\ ReceiversOK /\ TablesOK /\ CountersOK

LEMMA TypeParts == (TypeOK /\ RowsOfBusy) <=> AllOK
BY DEF TypeOK, AllOK, DispatchersOK, ReceiversOK, TablesOK, CountersOK

(* Who holds which event, as facts that every step goes by.                *)
HoldInv ==
  /\ TypeOK
  /\ RowsOfBusy
  /\ ClaimsCurrent
  /\ ClaimsDisjoint
  /\ EventsCompleted

LEMMA HoldInit == Init => HoldInv
<1> SUFFICES ASSUME Init PROVE HoldInv
  OBVIOUS
<1>1. outbox = <<>> /\ DOMAIN outbox = {} /\ outbox \in Seq(Event)
  BY DEF Init, OutboxInit
<1>2. StoreTypeOK /\ dlq \in [Items -> Nat]
  BY StoreAssumption DEF Init, StoreInit, OutboxInit, StoreTypeOK, BatchRow, ItemRow
<1>3. AllOK
  BY <1>1, <1>2, DispatcherAssumption
  DEF Init, AllOK, DispatchersOK, ReceiversOK, TablesOK, CountersOK, OutboxTypeOK, PC,
      RowsOfBusy, Busy, Marking
<1>4. ClaimsCurrent /\ ClaimsDisjoint /\ EventsCompleted
  BY <1>1 DEF Init, ClaimsCurrent, ClaimsDisjoint, EventsCompleted, Held, Busy, Marking
<1> QED
  BY <1>3, <1>4, TypeParts DEF HoldInv

LEMMA HoldParts ==
  ASSUME HoldInv
  PROVE  /\ AllOK
         /\ \A d \in Dispatchers : \A r \in rows[d] :
              /\ r \in Row
              /\ Current(r)
              /\ outbox[r.event] \in Event
              /\ outbox[r.event].batch \in Batches
              /\ batches[outbox[r.event].batch].status \in Verdicts
         /\ \A d \in Dispatchers : pc[d] \in Busy =>
              /\ job[d] \in Job
              /\ Current(job[d])
              /\ outbox[job[d].event] \in Event
              /\ Batch(d) \in Batches
              /\ batches[Batch(d)].status \in Verdicts
<1>1. AllOK
  BY TypeParts DEF HoldInv
<1>2. \A k \in DOMAIN outbox : /\ outbox[k] \in Event
                               /\ outbox[k].batch \in Batches
                               /\ batches[outbox[k].batch].status \in Verdicts
  <2>1. \A k \in DOMAIN outbox : outbox[k] \in Event
    BY <1>1 DEF AllOK, TablesOK, OutboxTypeOK
  <2>2. \A k \in DOMAIN outbox : outbox[k].batch \in Batches
    BY <2>1 DEF Event
  <2> QED
    BY <2>1, <2>2 DEF HoldInv, EventsCompleted
<1>3. ASSUME NEW d \in Dispatchers, NEW r \in rows[d]
      PROVE  r \in Row /\ Current(r) /\ r.event \in DOMAIN outbox
  BY <1>1 DEF AllOK, DispatchersOK, HoldInv, ClaimsCurrent, Current
<1>4. ASSUME NEW d \in Dispatchers, pc[d] \in Busy
      PROVE  job[d] \in Job /\ Current(job[d]) /\ job[d].event \in DOMAIN outbox
  BY <1>4 DEF HoldInv, RowsOfBusy, ClaimsCurrent, Current
<1> QED
  BY <1>1, <1>2, <1>3, <1>4 DEF Batch

(* The end of dispatch leaves a dispatcher either idle or with a row.      *)
LEMMA NextEventOK ==
  ASSUME DispatchersOK, NEW d \in Dispatchers, NextEvent(d)
  PROVE  DispatchersOK'
BY DEF DispatchersOK, RowsOfBusy, NextEvent, GoTo, PC, Busy, Marking

LEMMA TakeOK ==
  ASSUME HoldInv, NEW d \in Dispatchers, NEW r \in rows[d], Take(d, r),
         NEW label \in Busy, GoTo(d, label)
  PROVE  DispatchersOK'
<1>1. r \in Row /\ DispatchersOK /\ NoSummary(outbox[r.event].batch) \in Payload
  BY HoldParts, SummaryType DEF AllOK
<1>2. [event |-> r.event, retry |-> r.retry,
       payload |-> NoSummary(outbox[r.event].batch)] \in Job
  BY <1>1 DEF Row, Job
<1> QED
  BY <1>1, <1>2 DEF Take, GoTo, DispatchersOK, RowsOfBusy, PC, Busy, Marking

(* A dispatcher goes on with its event, the payload filled in or not.      *)
LEMMA MoveOnOK ==
  ASSUME HoldInv, NEW d \in Dispatchers, pc[d] \in Busy,
         NEW label \in Busy, GoTo(d, label), rows' = rows,
         \/ job' = job
         \/ \E p \in Payload : job' = [job EXCEPT ![d].payload = p]
  PROVE  DispatchersOK'
<1>1. job[d] \in Job /\ DispatchersOK
  BY HoldParts DEF AllOK
<1>2. job' \in [Dispatchers -> Job \cup {NoJob}] /\ job'[d] \in Job
      /\ \A c \in Dispatchers \ {d} : job'[c] = job[c]
  BY <1>1 DEF DispatchersOK, Job
<1> QED
  BY <1>1, <1>2 DEF GoTo, DispatchersOK, RowsOfBusy, PC, Busy, Marking

LEMMA FinishType ==
  ASSUME TablesOK, NEW b \in Batches, NEW F \in SUBSET ItemsOf(b), Finish(b, F)
  PROVE  StoreTypeOK'
<1>1. IsFiniteSet(F) /\ IsFiniteSet(ItemsOf(b) \ F)
  BY StoreAssumption, FS_Subset DEF ItemsOf
<1>2. Cardinality(F) \in Nat /\ Cardinality(ItemsOf(b) \ F) \in Nat
  BY <1>1, FS_CardinalityType
<1>3. items' \in [Items -> ItemRow]
  BY StoreAssumption, DispatcherAssumption
  DEF Finish, TablesOK, StoreTypeOK, ItemRow, ItemStatus
<1>4. batches' \in [Batches -> BatchRow]
  BY <1>2 DEF Finish, TablesOK, StoreTypeOK, BatchRow, BatchStatus
<1> QED
  BY <1>3, <1>4 DEF StoreTypeOK

LEMMA AnnounceType ==
  ASSUME TablesOK, NEW b \in Batches, Announce(b)
  PROVE  TablesOK'
<1>1. batches[b].status \in Verdicts /\ OutboxTypeOK /\ CreateEvent(b, batches[b].status)
      /\ Len(outbox) < Cardinality(Items) /\ UNCHANGED <<storeVars, dlq>>
  BY DEF Announce, TablesOK
<1>2. outbox' \in Seq(Event) /\ Len(outbox) \in Nat /\ DOMAIN outbox' = 1..(Len(outbox) + 1)
  BY <1>1, WrittenRow
<1>3. DOMAIN outbox' \subseteq EventIds
  BY <1>1, <1>2, EventIdsNat DEF EventIds
<1> QED
  BY <1>1, <1>2, <1>3 DEF TablesOK, StoreTypeOK, OutboxTypeOK, storeVars

LEMMA TypeStep ==
  ASSUME HoldInv, [Next]_vars
  PROVE  AllOK'
<1> USE DispatcherAssumption
<1>0. AllOK
  BY HoldParts
<1> USE <1>0 DEF AllOK
<1>1. ASSUME NEW b \in Batches, NEW F \in SUBSET ItemsOf(b), Finish(b, F)
      PROVE  AllOK'
  BY <1>1, FinishType
  DEF Finish, DispatchersOK, ReceiversOK, TablesOK, CountersOK, OutboxTypeOK, RowsOfBusy,
      dispatchVars, receiverVars, faultVars
<1>2. ASSUME NEW b \in Batches, Announce(b)
      PROVE  AllOK'
  BY <1>2, AnnounceType
  DEF Announce, DispatchersOK, ReceiversOK, CountersOK, RowsOfBusy,
      dispatchVars, receiverVars, faultVars
<1>3. ASSUME NEW d \in Dispatchers, NEW S \in SUBSET PendingEvents, ClaimEvents(d, S)
      PROVE  AllOK'
  <2>1. TablesOK' /\ S \subseteq EventIds /\ \A k \in S : outbox[k].retry \in 0..SmallIntMax
    <3>1. \A k \in DOMAIN outbox : outbox[k] \in Event
      BY DEF TablesOK, OutboxTypeOK
    <3>2. TablesOK'
      BY <1>3, ClaimedRows DEF ClaimEvents, TablesOK, StoreTypeOK, OutboxTypeOK, storeVars
    <3> QED
      BY <3>1, <3>2 DEF TablesOK, Event, PendingEvents
  <2>2. {[event |-> k, retry |-> outbox[k].retry] : k \in S} \in SUBSET Row
    BY <2>1 DEF Row
  <2>3. DispatchersOK'
    BY <1>3, <2>2 DEF ClaimEvents, GoTo, DispatchersOK, RowsOfBusy, PC, Busy, Marking
  <2> QED
    BY <1>3, <2>1, <2>3 DEF ClaimEvents, ReceiversOK, CountersOK, receiverVars, faultVars
<1>4. ASSUME NEW d \in Dispatchers, NEW r \in rows[d], FetchBatch(d, r)
      PROVE  AllOK'
  <2>1. DispatchersOK'
    BY <1>4, TakeOK DEF FetchBatch, Busy, Marking
  <2> QED
    BY <1>4, <2>1
    DEF FetchBatch, TablesOK, StoreTypeOK, OutboxTypeOK, ReceiversOK, CountersOK,
        storeVars, receiverVars, faultVars
<1>5. ASSUME NEW d \in Dispatchers, CountItems(d)
      PROVE  AllOK'
  <2>1. pc[d] \in Busy /\ job[d] \in Job /\ Summary(Batch(d)) \in Payload
    BY <1>5, HoldParts, SummaryType DEF CountItems, Busy
  <2>2. [Summary(Batch(d)) EXCEPT !.status = job[d].payload.status] \in Payload
    BY <2>1 DEF Payload, Job
  <2>3. DispatchersOK'
    BY <1>5, <2>1, <2>2, MoveOnOK DEF CountItems, Busy, Marking
  <2> QED
    BY <1>5, <2>3
    DEF CountItems, TablesOK, StoreTypeOK, OutboxTypeOK, ReceiversOK, CountersOK,
        storeVars, receiverVars, faultVars
<1>6. ASSUME NEW d \in Dispatchers, NEW answer, Post(d, answer)
      PROVE  AllOK'
  <2>1. pc[d] \in Busy /\ job[d] \in Job
    BY <1>6, HoldParts DEF Post, Busy
  <2>2. AfterPost(answer, job[d].retry) \in Busy
    BY DEF AfterPost, Busy, Marking
  <2>3. DispatchersOK'
    BY <1>6, <2>1, <2>2, MoveOnOK DEF Post
  <2>4. ReceiversOK'
    BY <1>6, <2>1 DEF Post, ReceiversOK, Job
  <2> QED
    BY <1>6, <2>3, <2>4
    DEF Post, TablesOK, StoreTypeOK, OutboxTypeOK, CountersOK, storeVars, faultVars
<1>7. ASSUME NEW d \in Dispatchers, MarkProcessed(d)
      PROVE  AllOK'
  BY <1>7, NeverProcessed, NextEventOK
  DEF MarkProcessed, TablesOK, StoreTypeOK, OutboxTypeOK, ReceiversOK, CountersOK,
      storeVars, receiverVars, faultVars
<1>8. ASSUME NEW d \in Dispatchers, MarkFailed(d)
      PROVE  AllOK'
  <2>1. job[d].event \in DOMAIN outbox /\ job[d].retry + 1 \in Nat
    BY <1>8, HoldParts DEF MarkFailed, Busy, Marking, Current, Job
  <2>2. TablesOK'
    BY <1>8, <2>1, FailedRow DEF MarkFailed, TablesOK, StoreTypeOK, OutboxTypeOK, storeVars
  <2> QED
    BY <1>8, <2>2, NextEventOK
    DEF MarkFailed, ReceiversOK, CountersOK, receiverVars, faultVars
<1>9. ASSUME DbError
      PROVE  ReceiversOK' /\ CountersOK' /\ StoreTypeOK' /\ dlq' = dlq
  BY <1>9
  DEF DbError, TablesOK, StoreTypeOK, ReceiversOK, CountersOK, storeVars, receiverVars
<1>10. ASSUME NEW d \in Dispatchers, NEW S \in SUBSET PendingEvents, ClaimAnswerLost(d, S)
       PROVE  AllOK'
  BY <1>9, <1>10, ClaimedRows
  DEF ClaimAnswerLost, TablesOK, OutboxTypeOK, DispatchersOK, RowsOfBusy, dispatchVars
<1>11. ASSUME NEW d \in Dispatchers, NEW r \in rows[d], FetchFails(d, r)
       PROVE  AllOK'
  <2>1. DispatchersOK'
    BY <1>11, TakeOK DEF FetchFails, Busy, Marking
  <2> QED
    BY <1>9, <1>11, <2>1 DEF FetchFails, TablesOK, OutboxTypeOK
<1>12. ASSUME NEW d \in Dispatchers, CountFails(d)
       PROVE  AllOK'
  <2>1. DispatchersOK'
    BY <1>12, MoveOnOK DEF CountFails, Busy, Marking
  <2> QED
    BY <1>9, <1>12, <2>1 DEF CountFails, TablesOK, OutboxTypeOK
<1>13. ASSUME NEW d \in Dispatchers, MarkFails(d)
       PROVE  AllOK'
  BY <1>9, <1>13, NextEventOK DEF MarkFails, TablesOK, OutboxTypeOK
<1>14. ASSUME NEW d \in Dispatchers, Crash(d) \/ Restart(d)
       PROVE  AllOK'
  <2>1. TablesOK' /\ ReceiversOK'
    BY <1>14
    DEF Crash, Restart, TablesOK, StoreTypeOK, OutboxTypeOK, ReceiversOK, storeVars, receiverVars
  <2>2. CountersOK'
    BY <1>14 DEF Crash, Restart, CountersOK, faultVars
  <2>3. DispatchersOK'
    BY <1>14 DEF Crash, Restart, GoTo, DispatchersOK, RowsOfBusy, PC, Busy, Marking
  <2> QED
    BY <2>1, <2>2, <2>3
<1>15. ASSUME UNCHANGED vars
       PROVE  AllOK'
  BY <1>15
  DEF vars, TablesOK, StoreTypeOK, OutboxTypeOK, ReceiversOK, CountersOK,
      DispatchersOK, RowsOfBusy
<1> QED
  BY <1>1, <1>2, <1>3, <1>4, <1>5, <1>6, <1>7, <1>8, <1>10, <1>11, <1>12, <1>13, <1>14, <1>15
  DEF Next, Work, Fault
-----------------------------------------------------------------------------
(* What a dispatcher goes on with is the event it had, or one of the rows  *)
(* it claimed.                                                             *)
SameJob(d) ==
  /\ pc[d] \in Busy
  /\ job'[d].event = job[d].event
  /\ job'[d].retry = job[d].retry

FromRows(d) ==
  \E r \in rows[d] : /\ r \notin rows'[d]
                     /\ job'[d].event = r.event
                     /\ job'[d].retry = r.retry

TakesNothing ==
  \A d \in Dispatchers :
    /\ rows'[d] \subseteq rows[d]
    /\ pc'[d] \in Busy => SameJob(d) \/ FromRows(d)

(* The rows of the events somebody holds after the step are as before it.  *)
HeldUntouched ==
  \A d \in Dispatchers : \A k \in Held(d)' :
    /\ k \in DOMAIN outbox'
    /\ outbox'[k].status = outbox[k].status
    /\ outbox'[k].retry = outbox[k].retry

LEMMA HeldIs ==
  ASSUME NEW d \in Dispatchers
  PROVE  /\ \A k : k \in Held(d) <=> (\E r \in rows[d] : r.event = k)
                                     \/ (pc[d] \in Busy /\ job[d].event = k)
         /\ \A k : k \in Held(d)' <=> (\E r \in rows'[d] : r.event = k)
                                      \/ (pc'[d] \in Busy /\ job'[d].event = k)
BY DEF Held, Busy

LEMMA HeldProcessing ==
  ASSUME HoldInv, NEW d \in Dispatchers, NEW k \in Held(d)
  PROVE  k \in DOMAIN outbox /\ outbox[k].status = "processing"
BY HeldIs DEF HoldInv, ClaimsCurrent, Current

(* Two rows of one event are the same row.                                 *)
LEMMA RowOfEvent ==
  ASSUME HoldInv, NEW d \in Dispatchers, NEW r \in rows[d], NEW q \in rows[d],
         r.event = q.event
  PROVE  r = q
<1>1. r \in Row /\ q \in Row /\ Current(r) /\ Current(q)
  BY HoldParts
<1>2. r.retry = q.retry
  BY <1>1 DEF Current
<1> QED
  BY <1>1, <1>2 DEF Row

LEMMA HeldShrinks ==
  ASSUME TakesNothing, NEW d \in Dispatchers
  PROVE  Held(d)' \subseteq Held(d)
BY HeldIs DEF TakesNothing, SameJob, FromRows

LEMMA ClaimsKept ==
  ASSUME HoldInv, TakesNothing, HeldUntouched
  PROVE  ClaimsCurrent' /\ ClaimsDisjoint'
<1>1. ClaimsDisjoint'
  BY HeldShrinks DEF HoldInv, ClaimsDisjoint
<1>2. ASSUME NEW d \in Dispatchers, NEW r \in rows'[d]
      PROVE  Current(r)'
  <2>1. r \in rows[d] /\ r.event \in Held(d)'
    BY <1>2, HeldIs DEF TakesNothing
  <2> QED
    BY <2>1, HoldParts DEF HeldUntouched, Current
<1>3. ASSUME NEW d \in Dispatchers, pc'[d] \in Busy
      PROVE  Current(job[d])' /\ \A r \in rows'[d] : r.event # job'[d].event
  <2>1. job'[d].event \in Held(d)'
    BY <1>3, HeldIs
  <2>2. CASE SameJob(d)
    BY <2>1, <2>2, HoldParts
    DEF SameJob, HeldUntouched, Current, HoldInv, ClaimsCurrent, TakesNothing
  <2>3. CASE FromRows(d)
    <3>1. PICK r \in rows[d] : r \notin rows'[d] /\ job'[d].event = r.event
                              /\ job'[d].retry = r.retry
      BY <2>3 DEF FromRows
    <3>2. Current(r)
      BY HoldParts
    <3>3. Current(job[d])'
      BY <2>1, <3>1, <3>2 DEF HeldUntouched, Current
    <3>4. \A q \in rows'[d] : q \in rows[d] /\ q # r
      BY <3>1 DEF TakesNothing
    <3> QED
      BY <3>1, <3>3, <3>4, RowOfEvent
  <2> QED
    BY <1>3, <2>2, <2>3 DEF TakesNothing
<1> QED
  BY <1>1, <1>2, <1>3 DEF ClaimsCurrent

(* Every step but a claim.                                                 *)
LEMMA StepTakesNothing ==
  ASSUME AllOK,
         \/ \E b \in Batches : Announce(b) \/ \E F \in SUBSET ItemsOf(b) : Finish(b, F)
         \/ \E d \in Dispatchers : Work(d)
         \/ Fault
         \/ UNCHANGED vars
  PROVE  TakesNothing
<1> USE DEF AllOK, DispatchersOK, TakesNothing
<1>1. ASSUME UNCHANGED dispatchVars
      PROVE  TakesNothing
  BY <1>1 DEF dispatchVars, SameJob
<1>2. ASSUME NEW d \in Dispatchers, NEW r \in rows[d], NEW label, Take(d, r), GoTo(d, label)
      PROVE  TakesNothing
  BY <1>2 DEF Take, GoTo, SameJob, FromRows
<1>3. ASSUME NEW d \in Dispatchers, NEW label, pc[d] \in Busy, GoTo(d, label), rows' = rows,
             job' = job \/ \E p : job' = [job EXCEPT ![d].payload = p]
      PROVE  TakesNothing
  <2>1. job[d] \in Job
    BY <1>3 DEF RowsOfBusy
  <2>2. SameJob(d)
    BY <1>3, <2>1 DEF SameJob, Job
  <2> QED
    BY <1>3, <2>2 DEF GoTo, SameJob
<1>4. ASSUME NEW d \in Dispatchers, NextEvent(d)
      PROVE  TakesNothing
  BY <1>4 DEF NextEvent, GoTo, SameJob, Busy, Marking
<1>5. ASSUME NEW d \in Dispatchers, Work(d)
      PROVE  TakesNothing
  <2>1. CASE \E r \in rows[d] : FetchBatch(d, r)
    BY <1>2, <2>1 DEF FetchBatch
  <2>2. CASE CountItems(d)
    BY <1>3, <2>2 DEF CountItems, Busy
  <2>3. CASE \E answer \in {"accepted", "rejected", "lost"} : Post(d, answer)
    BY <1>3, <2>3 DEF Post, Busy
  <2>4. CASE MarkProcessed(d) \/ MarkFailed(d)
    BY <1>4, <2>4 DEF MarkProcessed, MarkFailed
  <2> QED
    BY <1>5, <2>1, <2>2, <2>3, <2>4 DEF Work
<1>6. ASSUME Fault
      PROVE  TakesNothing
  <2>1. PICK d \in Dispatchers :
          \/ \E S \in SUBSET PendingEvents : ClaimAnswerLost(d, S)
          \/ \E r \in rows[d] : FetchFails(d, r)
          \/ CountFails(d)
          \/ MarkFails(d)
          \/ Crash(d)
          \/ Restart(d)
    BY <1>6 DEF Fault
  <2>2. CASE \E S \in SUBSET PendingEvents : ClaimAnswerLost(d, S)
    BY <1>1, <2>2 DEF ClaimAnswerLost
  <2>3. CASE \E r \in rows[d] : FetchFails(d, r)
    BY <1>2, <2>3 DEF FetchFails
  <2>4. CASE CountFails(d)
    BY <1>3, <2>4 DEF CountFails, Busy
  <2>5. CASE MarkFails(d)
    BY <1>4, <2>5 DEF MarkFails
  <2>6. CASE Crash(d) \/ Restart(d)
    BY <2>6 DEF Crash, Restart, GoTo, SameJob, Busy, Marking
  <2> QED
    BY <2>1, <2>2, <2>3, <2>4, <2>5, <2>6
<1>7. ASSUME UNCHANGED vars
      PROVE  TakesNothing
  BY <1>1, <1>7 DEF vars, dispatchVars
<1>8. ASSUME NEW b \in Batches, Announce(b) \/ \E F \in SUBSET ItemsOf(b) : Finish(b, F)
      PROVE  TakesNothing
  BY <1>1, <1>8 DEF Announce, Finish
<1> QED
  BY <1>5, <1>6, <1>7, <1>8
-----------------------------------------------------------------------------
(* The five things a step may do to the outbox.                            *)
Marks(d) ==
  /\ pc[d] = "markFailed"
  /\ MarkEventAsFailed(job[d].event, job[d].retry + 1)
  /\ NextEvent(d)

OutboxStep ==
  \/ outbox' = outbox
  \/ \E b \in Batches : Announce(b)
  \/ \E d \in Dispatchers, S \in SUBSET PendingEvents : ClaimEvents(d, S)
  \/ \E S \in SUBSET PendingEvents : GetPendingEvents(S) /\ DbError
  \/ \E d \in Dispatchers : Marks(d)

LEMMA OutboxSteps ==
  ASSUME [Next]_vars
  PROVE  OutboxStep
<1>1. ASSUME NEW d \in Dispatchers, Work(d)
      PROVE  OutboxStep
  <2>1. CASE MarkFailed(d)
    BY <2>1 DEF MarkFailed, Marks, OutboxStep
  <2>2. CASE MarkProcessed(d)
    BY <2>2, NeverProcessed DEF MarkProcessed, OutboxStep
  <2> QED
    BY <1>1, <2>1, <2>2 DEF Work, FetchBatch, CountItems, Post, OutboxStep
<1>2. ASSUME Fault
      PROVE  OutboxStep
  BY <1>2
  DEF Fault, ClaimAnswerLost, FetchFails, CountFails, MarkFails, Crash, Restart, OutboxStep
<1>3. ASSUME NEW b \in Batches, NEW F, Finish(b, F)
      PROVE  OutboxStep
  BY <1>3 DEF Finish, OutboxStep
<1>4. CASE UNCHANGED vars
  BY <1>4 DEF vars, OutboxStep
<1> QED
  BY <1>1, <1>2, <1>3, <1>4 DEF Next, OutboxStep

(* No event is lost, and a new one is about a completed batch.             *)
LEMMA OutboxGrows ==
  ASSUME HoldInv, [Next]_vars
  PROVE  /\ DOMAIN outbox \subseteq DOMAIN outbox'
         /\ \A k \in DOMAIN outbox : outbox'[k].batch = outbox[k].batch
         /\ \A k \in DOMAIN outbox' \ DOMAIN outbox :
              /\ outbox'[k].batch \in Batches
              /\ batches[outbox'[k].batch].status \in Verdicts
              /\ outbox'[k].status = "pending"
              /\ outbox'[k].retry = 0
              /\ UNCHANGED <<dispatchVars, receiverVars, faultVars>>
<1>0. OutboxTypeOK
  BY HoldParts DEF AllOK, TablesOK
<1>1. ASSUME NEW b \in Batches, Announce(b)
      PROVE  /\ DOMAIN outbox = 1..Len(outbox) /\ DOMAIN outbox' = 1..(Len(outbox) + 1)
             /\ Len(outbox) \in Nat
             /\ \A k \in DOMAIN outbox : outbox'[k] = outbox[k]
             /\ outbox'[Len(outbox) + 1] = [batch |-> b, verdict |-> batches[b].status,
                                           status |-> "pending", retry |-> 0]
             /\ batches[b].status \in Verdicts
             /\ UNCHANGED <<dispatchVars, receiverVars, faultVars>>
  BY <1>0, <1>1, WrittenRow DEF Announce
<1>2. CASE \E b \in Batches : Announce(b)
  <2>1. PICK b \in Batches : Announce(b)
    BY <1>2
  <2> DEFINE n == Len(outbox) + 1
  <2>2. /\ DOMAIN outbox = 1..Len(outbox) /\ DOMAIN outbox' = 1..n
        /\ Len(outbox) \in Nat
        /\ \A k \in DOMAIN outbox : outbox'[k] = outbox[k]
        /\ outbox'[n] = [batch |-> b, verdict |-> batches[b].status,
                         status |-> "pending", retry |-> 0]
        /\ batches[b].status \in Verdicts
        /\ UNCHANGED <<dispatchVars, receiverVars, faultVars>>
    BY <1>1, <2>1
  <2>3. DOMAIN outbox \subseteq DOMAIN outbox'
        /\ \A k \in DOMAIN outbox' \ DOMAIN outbox : k = n
    BY <2>2
  <2> HIDE DEF n
  <2> QED
    BY <2>2, <2>3
<1>3. ASSUME NEW S, GetPendingEvents(S)
      PROVE  DOMAIN outbox' = DOMAIN outbox
             /\ \A k \in DOMAIN outbox : outbox'[k].batch = outbox[k].batch
  BY <1>0, <1>3, ClaimedRows
<1>4. ASSUME NEW d \in Dispatchers, Marks(d)
      PROVE  DOMAIN outbox' = DOMAIN outbox
             /\ \A k \in DOMAIN outbox : outbox'[k].batch = outbox[k].batch
  <2>1. job[d].event \in DOMAIN outbox /\ job[d].retry + 1 \in Nat
    BY <1>4, HoldParts DEF Marks, Busy, Marking, Current, Job
  <2> QED
    BY <1>0, <1>4, <2>1, FailedRow DEF Marks
<1> QED
  BY <1>2, <1>3, <1>4, OutboxSteps DEF OutboxStep, ClaimEvents

(* A completed batch keeps its verdict, and its items their statuses: what *)
(* its receivers are to be told no longer changes.                         *)
LEMMA CompletedStays ==
  ASSUME HoldInv, [Next]_vars, NEW b \in Batches, batches[b].status \in Verdicts
  PROVE  batches'[b].status \in Verdicts /\ Summary(b)' = Summary(b)
<1>1. ASSUME NEW c \in Batches, NEW F \in SUBSET ItemsOf(c), Finish(c, F)
      PROVE  batches'[b] = batches[b] /\ \A i \in ItemsOf(b) : items'[i] = items[i]
  <2>1. c # b
    BY <1>1 DEF Finish, Verdicts
  <2>2. batches'[b] = batches[b]
    BY <1>1, <2>1, HoldParts DEF Finish, AllOK, TablesOK, StoreTypeOK
  <2>3. \A i \in ItemsOf(b) : i \in Items /\ i \notin ItemsOf(c)
    BY <2>1 DEF ItemsOf
  <2>4. \A i \in ItemsOf(b) : items'[i] = items[i]
    BY <1>1, <2>3 DEF Finish
  <2> QED
    BY <2>2, <2>4
<1>2. batches'[b] = batches[b] /\ \A i \in ItemsOf(b) : items'[i] = items[i]
  <2>1. CASE \E c \in Batches : \E F \in SUBSET ItemsOf(c) : Finish(c, F)
    BY <1>1, <2>1
  <2>2. CASE UNCHANGED storeVars
    BY <2>2 DEF storeVars
  <2> QED
    BY <2>1, <2>2
    DEF Next, Announce, ClaimEvents, Work, FetchBatch, CountItems, Post, MarkProcessed,
        MarkFailed, Fault, DbError, ClaimAnswerLost, FetchFails, CountFails, MarkFails,
        Crash, Restart, vars, storeVars
<1>3. \A s : WithStatus(b, s)' = WithStatus(b, s)
  BY <1>2 DEF WithStatus, ItemsOf
<1>4. DoneCount(b)' = DoneCount(b) /\ TotalItems(b)' = TotalItems(b)
  BY <1>3 DEF DoneCount, TotalItems, ItemsOf
<1> QED
  BY <1>2, <1>3, <1>4 DEF Summary

LEMMA CompletedStep ==
  ASSUME HoldInv, [Next]_vars
  PROVE  EventsCompleted'
<1>1. ASSUME NEW k \in DOMAIN outbox'
      PROVE  batches'[outbox'[k].batch].status \in Verdicts
  <2>1. CASE k \in DOMAIN outbox
    <3>1. outbox[k] \in Event /\ batches[outbox[k].batch].status \in Verdicts
      BY <2>1, HoldParts DEF AllOK, TablesOK, OutboxTypeOK, HoldInv, EventsCompleted
    <3>2. outbox[k].batch \in Batches /\ outbox'[k].batch = outbox[k].batch
      BY <2>1, <3>1, OutboxGrows DEF Event
    <3> QED
      BY <3>1, <3>2, CompletedStays
  <2>2. CASE k \notin DOMAIN outbox
    BY <2>2, OutboxGrows, CompletedStays
  <2> QED
    BY <2>1, <2>2
<1> QED
  BY <1>1 DEF EventsCompleted

(* An event that was given up or put back is in nobody's hands.            *)
LEMMA Released ==
  ASSUME HoldInv, NEW d \in Dispatchers, pc[d] \in Busy, NextEvent(d),
         NEW c \in Dispatchers
  PROVE  job[d].event \notin Held(c)'
<1>1. AllOK /\ ClaimsDisjoint /\ ClaimsCurrent
  BY HoldParts DEF HoldInv
<1>2. pc'[d] \notin Busy /\ rows' = rows
  BY <1>1 DEF NextEvent, GoTo, AllOK, DispatchersOK, Busy, Marking
<1>3. CASE c = d
  BY <1>1, <1>2, <1>3, HeldIs DEF ClaimsCurrent
<1>4. CASE c # d
  <2>1. pc'[c] = pc[c] /\ job'[c] = job[c]
    BY <1>1, <1>4 DEF NextEvent, GoTo, AllOK, DispatchersOK
  <2>2. job[d].event \in Held(d) /\ job[d].event \notin Held(c)
    BY <1>1, <1>4, HeldIs DEF ClaimsDisjoint
  <2> QED
    BY <1>2, <2>1, <2>2, HeldIs
<1> QED
  BY <1>3, <1>4

(* A claim takes events that nobody holds.                                 *)
LEMMA ClaimFree ==
  ASSUME HoldInv, NEW S \in SUBSET PendingEvents, NEW d \in Dispatchers
  PROVE  Held(d) \cap S = {}
BY HeldProcessing DEF PendingEvents

LEMMA ClaimStep ==
  ASSUME HoldInv, NEW d \in Dispatchers, NEW S \in SUBSET PendingEvents, ClaimEvents(d, S)
  PROVE  /\ ClaimsCurrent' /\ ClaimsDisjoint'
         /\ Held(d)' = S
         /\ \A c \in Dispatchers \ {d} : Held(c)' = Held(c)
<1>1. AllOK
  BY HoldParts
<1>2. /\ pc'[d] \notin Busy
      /\ rows'[d] = {[event |-> k, retry |-> outbox[k].retry] : k \in S}
      /\ \A c \in Dispatchers \ {d} : pc'[c] = pc[c] /\ rows'[c] = rows[c] /\ job'[c] = job[c]
  BY <1>1 DEF ClaimEvents, GoTo, AllOK, DispatchersOK, Busy, Marking
<1>3. Held(d)' = S
  <2>1. \A k : k \in Held(d)' <=> \E r \in rows'[d] : r.event = k
    BY <1>2, HeldIs
  <2>2. ASSUME NEW k \in S PROVE \E r \in rows'[d] : r.event = k
    <3>1. [event |-> k, retry |-> outbox[k].retry] \in rows'[d]
      BY <1>2
    <3> QED
      BY <3>1
  <2>3. \A r \in rows'[d] : r.event \in S
    BY <1>2
  <2> QED
    BY <2>1, <2>2, <2>3
<1>4. \A c \in Dispatchers \ {d} : Held(c)' = Held(c)
  BY <1>2 DEF Held
<1>5. ClaimsDisjoint'
  BY <1>3, <1>4, ClaimFree DEF ClaimsDisjoint, HoldInv
<1>6. ASSUME NEW r \in rows'[d]
      PROVE  Current(r)'
  <2>1. PICK k \in S : r = [event |-> k, retry |-> outbox[k].retry]
    BY <1>2
  <2>2. k \in DOMAIN outbox /\ outbox'[k] = [outbox[k] EXCEPT !.status = "processing"]
        /\ outbox[k] \in Event /\ DOMAIN outbox' = DOMAIN outbox
    BY <1>1, ClaimedRows DEF ClaimEvents, AllOK, TablesOK, OutboxTypeOK
  <2> QED
    BY <2>1, <2>2 DEF Current, Event
<1>7. ASSUME NEW e, Current(e), e.event \notin S
      PROVE  Current(e)'
  BY <1>1, <1>7, ClaimedRows DEF ClaimEvents, Current, AllOK, TablesOK
<1>8. ASSUME NEW c \in Dispatchers \ {d}
      PROVE  /\ \A r \in rows'[c] : Current(r)'
             /\ pc'[c] \in Busy =>
                  Current(job[c])' /\ \A r \in rows'[c] : r.event # job'[c].event
  <2>1. /\ \A r \in rows[c] : Current(r)
        /\ pc[c] \in Busy => Current(job[c]) /\ \A r \in rows[c] : r.event # job[c].event
    BY DEF HoldInv, ClaimsCurrent
  <2>2. /\ \A r \in rows[c] : r.event \notin S
        /\ pc[c] \in Busy => job[c].event \notin S
    <3>1. c \in Dispatchers /\ Held(c) \cap S = {}
      BY ClaimFree
    <3>2. /\ \A r \in rows[c] : r.event \in Held(c)
          /\ pc[c] \in Busy => job[c].event \in Held(c)
      BY <3>1, HeldIs
    <3> QED
      BY <3>1, <3>2
  <2>3. \A r \in rows[c] : Current(r)'
    BY <1>7, <2>1, <2>2
  <2>4. ASSUME pc[c] \in Busy PROVE Current(job[c])'
    <3>1. job'[c] = job[c]
      BY <1>2
    <3> QED
      BY <1>7, <2>1, <2>2, <2>4, <3>1 DEF Current
  <2> QED
    BY <1>2, <2>1, <2>3, <2>4
<1>9. ClaimsCurrent'
  BY <1>2, <1>6, <1>8 DEF ClaimsCurrent
<1> QED
  BY <1>3, <1>4, <1>5, <1>9

(* A step that is no claim leaves the rows of the held events alone.       *)
LEMMA HeldLeftAlone ==
  ASSUME HoldInv, [Next]_vars, TakesNothing,
         ~\E d \in Dispatchers, S \in SUBSET PendingEvents : ClaimEvents(d, S)
  PROVE  HeldUntouched
<1> SUFFICES ASSUME NEW c \in Dispatchers, NEW k \in Held(c)'
             PROVE  /\ k \in DOMAIN outbox'
                    /\ outbox'[k].status = outbox[k].status
                    /\ outbox'[k].retry = outbox[k].retry
  BY DEF HeldUntouched
<1>1. k \in Held(c) /\ k \in DOMAIN outbox /\ k \in DOMAIN outbox' /\ OutboxTypeOK
  BY HeldShrinks, HeldProcessing, OutboxGrows, HoldParts DEF AllOK, TablesOK
<1>2. CASE \E b \in Batches : Announce(b)
  <2>1. PICK b \in Batches : Announce(b)
    BY <1>2
  <2>2. outbox'[k] = outbox[k]
    BY <1>1, <2>1, WrittenRow DEF Announce
  <2> QED
    BY <1>1, <2>2
<1>3. ASSUME NEW S \in SUBSET PendingEvents, GetPendingEvents(S)
      PROVE  outbox'[k] = outbox[k]
  <2>1. k \notin S
    BY <1>1, ClaimFree
  <2> QED
    BY <1>1, <1>3, <2>1, ClaimedRows
<1>4. ASSUME NEW d \in Dispatchers, Marks(d)
      PROVE  outbox'[k] = outbox[k]
  <2>1. job[d].event \in DOMAIN outbox /\ job[d].retry + 1 \in Nat
    BY <1>4, HoldParts DEF Marks, Busy, Marking, Current, Job
  <2>2. k # job[d].event
    BY <1>4, Released DEF Marks, Busy, Marking
  <2> QED
    BY <1>1, <1>4, <2>1, <2>2, FailedRow DEF Marks
<1> QED
  BY <1>1, <1>2, <1>3, <1>4, OutboxSteps DEF OutboxStep

LEMMA NotAClaim ==
  ASSUME [Next]_vars, AllOK,
         ~\E d \in Dispatchers, S \in SUBSET PendingEvents : ClaimEvents(d, S)
  PROVE  TakesNothing
BY StepTakesNothing DEF Next

LEMMA HoldStep ==
  ASSUME HoldInv, [Next]_vars
  PROVE  HoldInv'
<1>1. AllOK /\ AllOK' /\ EventsCompleted'
  BY HoldParts, TypeStep, CompletedStep
<1>2. TypeOK' /\ RowsOfBusy'
  BY <1>1
  DEF AllOK, DispatchersOK, ReceiversOK, TablesOK, CountersOK, TypeOK
<1>3. ClaimsCurrent' /\ ClaimsDisjoint'
  <2>1. CASE \E d \in Dispatchers, S \in SUBSET PendingEvents : ClaimEvents(d, S)
    BY <2>1, ClaimStep
  <2>2. CASE ~\E d \in Dispatchers, S \in SUBSET PendingEvents : ClaimEvents(d, S)
    BY <1>1, <2>2, NotAClaim, HeldLeftAlone, ClaimsKept
  <2> QED
    BY <2>1, <2>2
<1> QED
  BY <1>1, <1>2, <1>3 DEF HoldInv

(* The rows of all tables keep their columns' types and the dispatchers    *)
(* their variables', whatever interleaves and fails.                       *)
THEOREM TypeCorrect == Spec => []TypeOK
<1>1. HoldInv => TypeOK
  BY DEF HoldInv
<1> QED
  BY <1>1, HoldInit, HoldStep, PTL DEF Spec

LEMMA HoldsSingly == HoldInv => SingleDispatcher
<1> SUFFICES ASSUME HoldInv PROVE SingleDispatcher
  OBVIOUS
<1>1. \A d \in Dispatchers : /\ \A k \in Held(d) : outbox[k].status = "processing"
                             /\ \A r \in rows[d] : outbox[r.event].retry = r.retry
  BY HeldProcessing, HoldParts DEF Current
<1> QED
  BY <1>1 DEF SingleDispatcher, HoldInv, ClaimsDisjoint

(* No event is in the hands of two dispatchers, and whoever has one goes   *)
(* by the retry count of its row.                                          *)
THEOREM DispatchersExclusive == Spec => []SingleDispatcher
BY HoldsSingly, HoldInit, HoldStep, PTL DEF Spec
-----------------------------------------------------------------------------
Answers == {"accepted", "rejected", "lost"}

(* A step from the point of view of one dispatcher: it ends up with no     *)
(* event at hand, or was not concerned, or moved on.                       *)
Progress(d) ==
  \/ pc'[d] \notin Busy
  \/ pc'[d] = pc[d] /\ job'[d] = job[d]
  \/ \E r \in rows[d] : FetchBatch(d, r) \/ FetchFails(d, r)
  \/ CountItems(d) \/ CountFails(d)
  \/ \E answer \in Answers : Post(d, answer)

LEMMA ProgressOf ==
  ASSUME AllOK, [Next]_vars, NEW d \in Dispatchers
  PROVE  Progress(d)
<1> USE DEF AllOK, DispatchersOK
<1>1. ASSUME UNCHANGED dispatchVars
      PROVE  Progress(d)
  BY <1>1 DEF dispatchVars, Progress
<1>2. ASSUME NEW c \in Dispatchers, NEW r \in rows[c], FetchBatch(c, r) \/ FetchFails(c, r)
      PROVE  Progress(d)
  <2>1. CASE c = d
    BY <1>2, <2>1 DEF Progress
  <2>2. CASE c # d
    BY <1>2, <2>2 DEF FetchBatch, FetchFails, Take, GoTo, Progress
  <2> QED
    BY <2>1, <2>2
<1>3. ASSUME NEW c \in Dispatchers, CountItems(c) \/ CountFails(c)
      PROVE  Progress(d)
  <2>1. CASE c = d
    BY <1>3, <2>1 DEF Progress
  <2>2. CASE c # d
    BY <1>3, <2>2 DEF CountItems, CountFails, GoTo, Progress
  <2> QED
    BY <2>1, <2>2
<1>4. ASSUME NEW c \in Dispatchers, NEW answer \in Answers, Post(c, answer)
      PROVE  Progress(d)
  <2>1. CASE c = d
    BY <1>4, <2>1 DEF Progress
  <2>2. CASE c # d
    BY <1>4, <2>2 DEF Post, GoTo, Progress
  <2> QED
    BY <2>1, <2>2
<1>5. ASSUME NEW c \in Dispatchers, NextEvent(c)
      PROVE  Progress(d)
  BY <1>5 DEF NextEvent, GoTo, Progress, Busy, Marking
<1>6. ASSUME NEW c \in Dispatchers, Crash(c) \/ Restart(c)
      PROVE  Progress(d)
  BY <1>6 DEF Crash, Restart, GoTo, Progress, Busy, Marking
<1>7. ASSUME NEW c \in Dispatchers, NEW S \in SUBSET PendingEvents, ClaimEvents(c, S)
      PROVE  Progress(d)
  BY <1>7 DEF ClaimEvents, GoTo, Progress, Busy, Marking
<1>8. ASSUME NEW c \in Dispatchers, Work(c)
      PROVE  Progress(d)
  BY <1>2, <1>3, <1>4, <1>5, <1>8 DEF Work, MarkProcessed, MarkFailed, Answers
<1>9. ASSUME Fault
      PROVE  Progress(d)
  BY <1>1, <1>2, <1>3, <1>5, <1>6, <1>9 DEF Fault, ClaimAnswerLost, MarkFails
<1>10. ASSUME NEW b \in Batches, Announce(b) \/ \E F \in SUBSET ItemsOf(b) : Finish(b, F)
       PROVE  Progress(d)
  BY <1>1, <1>10 DEF Announce, Finish
<1>11. ASSUME UNCHANGED vars
       PROVE  Progress(d)
  BY <1>1, <1>11 DEF vars, dispatchVars
<1> QED
  BY <1>7, <1>8, <1>9, <1>10, <1>11 DEF Next

(* What no step undoes, and what only a POST changes.                      *)
LEMMA Frame ==
  ASSUME AllOK, [Next]_vars
  PROVE  /\ webhook' = webhook
         /\ Troubled => Troubled'
         /\ \/ UNCHANGED <<posts, delivered, accepted>>
            \/ \E d \in Dispatchers, answer \in Answers : Post(d, answer)
<1>1. crashes \in Nat /\ dbErrors \in Nat
  BY DispatcherAssumption DEF AllOK, CountersOK
<1>2. ASSUME UNCHANGED receiverVars
      PROVE  webhook' = webhook /\ UNCHANGED <<posts, delivered, accepted>>
  BY <1>2 DEF receiverVars
<1>3. ASSUME UNCHANGED faultVars
      PROVE  Troubled => Troubled'
  BY <1>3 DEF faultVars, Troubled
<1>4. ASSUME DbError
      PROVE  UNCHANGED receiverVars /\ Troubled'
  BY <1>1, <1>4 DEF DbError, Troubled
<1>5. ASSUME NEW d \in Dispatchers, Work(d)
      PROVE  /\ webhook' = webhook
             /\ Troubled => Troubled'
             /\ \/ UNCHANGED <<posts, delivered, accepted>>
                \/ \E answer \in Answers : Post(d, answer)
  <2>1. CASE \E answer \in Answers : Post(d, answer)
    BY <1>3, <2>1 DEF Post
  <2>2. CASE UNCHANGED receiverVars /\ UNCHANGED faultVars
    BY <1>2, <1>3, <2>2
  <2> QED
    BY <1>5, <2>1, <2>2
    DEF Work, FetchBatch, CountItems, MarkProcessed, MarkFailed, Answers
<1>6. ASSUME Fault
      PROVE  UNCHANGED receiverVars /\ (Troubled => Troubled')
  <2>1. ASSUME NEW d \in Dispatchers, Crash(d)
        PROVE  UNCHANGED receiverVars /\ Troubled'
    BY <1>1, <2>1 DEF Crash, Troubled
  <2>2. ASSUME NEW d \in Dispatchers, Restart(d)
        PROVE  UNCHANGED receiverVars /\ UNCHANGED faultVars
    BY <2>2 DEF Restart
  <2> QED
    BY <1>3, <1>4, <1>6, <2>1, <2>2
    DEF Fault, ClaimAnswerLost, FetchFails, CountFails, MarkFails
<1>7. CASE UNCHANGED vars
  BY <1>7 DEF vars, Troubled
<1> QED
  BY <1>2, <1>3, <1>5, <1>6, <1>7 DEF Next, Announce, Finish, ClaimEvents

(* The events a step sends nothing of.                                     *)
NotSent(k) == \A d \in Dispatchers, answer \in Answers : Post(d, answer) => job[d].event # k

LEMMA NothingSent ==
  ASSUME AllOK, [Next]_vars, NEW k, NotSent(k)
  PROVE  /\ posts'[k] = posts[k]
         /\ k \in accepted' <=> k \in accepted
<1>1. CASE UNCHANGED <<posts, delivered, accepted>>
  BY <1>1
<1>2. ASSUME NEW d \in Dispatchers, NEW answer \in Answers, Post(d, answer)
      PROVE  posts'[k] = posts[k] /\ (k \in accepted' <=> k \in accepted)
  <2>1. job[d].event # k
    BY <1>2 DEF NotSent
  <2> QED
    BY <1>2, <2>1 DEF Post, AllOK, ReceiversOK
<1> QED
  BY <1>1, <1>2, Frame

(* Only the dispatcher that holds an event sends it, and only the event of *)
(* its job.                                                                *)
LEMMA OnlyHolderSends ==
  ASSUME HoldInv, NEW d \in Dispatchers, NEW k
  PROVE  /\ (\E r \in rows[d] : r.event = k) => NotSent(k)
         /\ (pc[d] \in Busy /\ job[d].event = k /\ pc[d] # "post") => NotSent(k)
         /\ (pc[d] = "post" /\ job[d].event = k /\ pc'[d] = "post") => NotSent(k)
         /\ (\A c \in Dispatchers : k \notin Held(c)) => NotSent(k)
<1>1. ASSUME NEW c \in Dispatchers, NEW answer \in Answers, Post(c, answer)
      PROVE  pc[c] = "post" /\ pc[c] \in Busy /\ pc'[c] # "post" /\ job[c].event \in Held(c)
  <2>1. pc[c] = "post" /\ pc[c] \in Busy
    BY <1>1 DEF Post, Busy
  <2>2. pc'[c] # "post"
    BY <1>1, HoldParts DEF Post, GoTo, AfterPost, AllOK, DispatchersOK
  <2> QED
    BY <2>1, <2>2, HeldIs
<1>2. ASSUME NEW c \in Dispatchers, k \in Held(d), k \in Held(c)
      PROVE  c = d
  BY <1>2 DEF HoldInv, ClaimsDisjoint
<1> QED
  BY <1>1, <1>2, HeldIs DEF NotSent, HoldInv, ClaimsCurrent
-----------------------------------------------------------------------------
(* What is known of an event a step does not send stays known.             *)
LEMMA AccountKept ==
  ASSUME HoldInv, [Next]_vars, NEW k \in DOMAIN outbox, NotSent(k), NEW n
  PROVE  /\ Sendable(k)' <=> Sendable(k)
         /\ PostsSoFar(k, n) => PostsSoFar(k, n)'
         /\ Settled(k) \/ Troubled => (Settled(k) \/ Troubled)'
<1>1. /\ webhook' = webhook
      /\ Troubled => Troubled'
      /\ posts'[k] = posts[k]
      /\ k \in accepted' <=> k \in accepted
      /\ outbox'[k].batch = outbox[k].batch
  BY HoldParts, Frame, NothingSent, OutboxGrows
<1>2. Sendable(k)' <=> Sendable(k)
  BY <1>1 DEF Sendable
<1> QED
  BY <1>1, <1>2 DEF PostsSoFar, Settled

LEMMA BatchKept ==
  ASSUME HoldInv, [Next]_vars, NEW d \in Dispatchers
  PROVE  /\ pc[d] \in Busy /\ job'[d].event = job[d].event => Batch(d)' = Batch(d)
         /\ \A r \in rows[d] : job'[d].event = r.event => Batch(d)' = outbox[r.event].batch
BY HoldParts, OutboxGrows DEF Batch, Current

(* A batch without a webhook is never sent of, nor one whose URL cannot be *)
(* used.                                                                   *)
LEMMA WebhookStep ==
  ASSUME HoldInv, WebhookOfJob, [Next]_vars
  PROVE  WebhookOfJob'
<1> SUFFICES ASSUME NEW d \in Dispatchers
             PROVE  /\ pc'[d] = "count" => webhook'[Batch(d)'] # "none"
                    /\ pc'[d] = "post" => webhook'[Batch(d)'] = "valid"
  BY DEF WebhookOfJob, Sendable, Batch
<1>1. AllOK /\ Progress(d) /\ webhook' = webhook
  BY HoldParts, ProgressOf, Frame
<1> USE DEF AllOK, DispatchersOK
<1>2. CASE pc'[d] \notin Busy
  BY <1>2 DEF Busy
<1>3. CASE pc'[d] = pc[d] /\ job'[d] = job[d] /\ pc[d] \in Busy
  BY <1>1, <1>3, BatchKept DEF WebhookOfJob, Sendable, Batch
<1>4. ASSUME NEW r \in rows[d], FetchBatch(d, r) \/ FetchFails(d, r)
      PROVE  pc'[d] # "post" /\ (pc'[d] = "count" => webhook'[Batch(d)'] # "none")
  <2>1. job'[d].event = r.event
    BY <1>1, <1>4 DEF FetchBatch, FetchFails, Take
  <2>2. Batch(d)' = outbox[r.event].batch
    BY <2>1, BatchKept
  <2> QED
    BY <1>1, <1>4, <2>2 DEF FetchBatch, FetchFails, GoTo
<1>5. ASSUME CountItems(d) \/ CountFails(d)
      PROVE  pc'[d] # "count" /\ (pc'[d] = "post" => webhook'[Batch(d)'] = "valid")
  <2>1. pc[d] = "count" /\ pc[d] \in Busy /\ job[d] \in Job /\ Batch(d) \in Batches
    BY <1>5, HoldParts DEF CountItems, CountFails, Busy
  <2>2. job'[d].event = job[d].event
    BY <1>1, <1>5, <2>1 DEF CountItems, CountFails, Job
  <2>3. webhook[Batch(d)] \in {"malformed", "valid"}
    BY <1>1, <2>1 DEF WebhookOfJob, ReceiversOK, WebhookUrl
  <2>4. pc'[d] = IF webhook[Batch(d)] = "malformed" THEN "markFailed" ELSE "post"
    BY <1>1, <1>5 DEF CountItems, CountFails, GoTo
  <2> QED
    BY <1>1, <2>1, <2>2, <2>3, <2>4, BatchKept
<1>6. ASSUME NEW answer \in Answers, Post(d, answer)
      PROVE  pc'[d] \notin {"count", "post"}
  BY <1>1, <1>6 DEF Post, GoTo, AfterPost
<1> QED
  BY <1>1, <1>2, <1>3, <1>4, <1>5, <1>6 DEF Progress

(* Nobody comes back to a confirmed event: its row is neither due nor      *)
(* stale enough for anyone to pick up.                                     *)
LEMMA ConfirmedStep ==
  ASSUME HoldInv, HoldInv', ConfirmedIsDone, [Next]_vars
  PROVE  ConfirmedIsDone'
<1>1. AllOK
  BY HoldParts
<1>2. ASSUME NEW d \in Dispatchers, NEW answer \in Answers, Post(d, answer)
      PROVE  /\ pc[d] = "post" /\ pc[d] \in Busy
             /\ job[d].event \in DOMAIN outbox /\ job[d].event \in Held(d)
             /\ outbox' = outbox /\ job' = job
             /\ \A c \in Dispatchers : Held(c)' = Held(c)
  <2>1. pc[d] = "post" /\ pc[d] \in Busy /\ outbox' = outbox /\ job' = job /\ rows' = rows
    BY <1>2 DEF Post, Busy
  <2>2. pc'[d] \in Busy /\ \A c \in Dispatchers \ {d} : pc'[c] = pc[c]
    BY <1>1, <1>2 DEF Post, GoTo, AfterPost, Busy, Marking, AllOK, DispatchersOK
  <2>3. ASSUME NEW c \in Dispatchers PROVE Held(c)' = Held(c)
    BY <2>1, <2>2, HeldIs
  <2> QED
    BY <2>1, <2>3, HeldIs, HoldParts DEF Current
<1>3. ASSUME NEW k \in EventIds \ DOMAIN outbox'
      PROVE  posts'[k] = 0 /\ k \notin accepted'
  <2>1. k \in EventIds \ DOMAIN outbox
    BY OutboxGrows
  <2>2. NotSent(k)
    BY <1>2, <2>1 DEF NotSent
  <2> QED
    BY <1>1, <2>1, <2>2, NothingSent DEF ConfirmedIsDone
<1>4. ASSUME NEW k \in accepted, NEW d \in Dispatchers, k \in Held(d)'
      PROVE  pc'[d] = "markProcessed" /\ job'[d].event = k
  <2>1. outbox[k].status = "processing"
    BY DEF ConfirmedIsDone
  <2>2. ~\E c \in Dispatchers, S \in SUBSET PendingEvents : ClaimEvents(c, S) /\ k \in S
    BY <2>1 DEF PendingEvents
  <2>3. k \in Held(d)
    <3>1. CASE \E c \in Dispatchers, S \in SUBSET PendingEvents : ClaimEvents(c, S)
      <4>1. PICK c \in Dispatchers, S \in SUBSET PendingEvents : ClaimEvents(c, S)
        BY <3>1
      <4>2. /\ Held(c)' = S
            /\ \A e \in Dispatchers \ {c} : Held(e)' = Held(e)
        BY <4>1, ClaimStep
      <4> QED
        BY <1>4, <2>2, <4>1, <4>2
    <3>2. CASE ~\E c \in Dispatchers, S \in SUBSET PendingEvents : ClaimEvents(c, S)
      BY <1>1, <1>4, <3>2, NotAClaim, HeldShrinks
    <3> QED
      BY <3>1, <3>2
  <2>4. pc[d] = "markProcessed" /\ job[d].event = k
    BY <2>3 DEF ConfirmedIsDone
  <2>5. CASE pc'[d] \notin Busy
    <3>1. ~(\E r \in rows[d] : r.event = k)
      BY <2>4 DEF HoldInv, ClaimsCurrent, Busy, Marking
    <3>2. rows'[d] \subseteq rows[d]
      <4>1. CASE \E c \in Dispatchers, S \in SUBSET PendingEvents : ClaimEvents(c, S)
        BY <1>1, <2>4, <4>1 DEF ClaimEvents, AllOK, DispatchersOK
      <4>2. CASE ~\E c \in Dispatchers, S \in SUBSET PendingEvents : ClaimEvents(c, S)
        BY <1>1, <4>2, NotAClaim DEF TakesNothing
      <4> QED
        BY <4>1, <4>2
    <3> QED
      BY <1>4, <2>5, <3>1, <3>2, HeldIs
  <2>6. CASE pc'[d] = pc[d] /\ job'[d] = job[d]
    BY <2>4, <2>6
  <2>7. Progress(d)
    BY <1>1, ProgressOf
  <2> QED
    BY <2>4, <2>5, <2>6, <2>7
    DEF Progress, FetchBatch, FetchFails, Take, CountItems, CountFails, Post
<1>5. ASSUME NEW k \in accepted
      PROVE  outbox'[k].status = "processing"
  <2>1. /\ outbox[k].status = "processing" /\ k \in DOMAIN outbox
        /\ \A d \in Dispatchers : k \in Held(d) => pc[d] = "markProcessed"
    BY <1>1 DEF ConfirmedIsDone, AllOK, ReceiversOK
  <2>2. OutboxTypeOK
    BY <1>1 DEF AllOK, TablesOK
  <2>3. ASSUME NEW b \in Batches, Announce(b)
        PROVE  outbox'[k] = outbox[k]
    BY <2>1, <2>2, <2>3, WrittenRow DEF Announce
  <2>4. ASSUME NEW S \in SUBSET PendingEvents, GetPendingEvents(S)
        PROVE  outbox'[k] = outbox[k]
    <3>1. k \notin S
      BY <2>1 DEF PendingEvents
    <3> QED
      BY <2>1, <2>2, <2>4, <3>1, ClaimedRows
  <2>5. ASSUME NEW d \in Dispatchers, Marks(d)
        PROVE  outbox'[k] = outbox[k]
    <3>1. pc[d] = "markFailed" /\ pc[d] \in Busy
      BY <2>5 DEF Marks, Busy, Marking
    <3>2. job[d].event \in DOMAIN outbox /\ job[d].retry + 1 \in Nat
      BY <3>1, HoldParts DEF Current, Job
    <3>3. job[d].event # k
      BY <2>1, <3>1, HeldIs
    <3> QED
      BY <2>1, <2>2, <2>5, <3>2, <3>3, FailedRow DEF Marks
  <2> QED
    BY <2>1, <2>3, <2>4, <2>5, OutboxSteps DEF OutboxStep, ClaimEvents
<1>6. ASSUME NEW k \in accepted' \ accepted
      PROVE  /\ outbox'[k].status = "processing"
             /\ \A d \in Dispatchers : k \in Held(d)' => pc'[d] = "markProcessed" /\ job'[d].event = k
  <2>1. PICK d \in Dispatchers, answer \in Answers : Post(d, answer)
    BY <1>1, <1>6, Frame
  <2>2. answer = "accepted" /\ k = job[d].event
    BY <1>6, <2>1 DEF Post
  <2>3. pc'[d] = "markProcessed" /\ job' = job /\ outbox' = outbox
    BY <1>1, <2>1, <2>2 DEF Post, GoTo, AfterPost, AllOK, DispatchersOK
  <2>4. k \in Held(d) /\ outbox[k].status = "processing"
    BY <1>2, <2>1, <2>2, HeldProcessing
  <2>5. ASSUME NEW c \in Dispatchers, k \in Held(c)'
        PROVE  c = d
    BY <1>2, <2>1, <2>4, <2>5 DEF HoldInv, ClaimsDisjoint
  <2> QED
    BY <2>2, <2>3, <2>4, <2>5
<1> QED
  BY <1>3, <1>4, <1>5, <1>6 DEF ConfirmedIsDone

LEMMA DueNotSent ==
  ASSUME HoldInv, NEW k \in PendingEvents
  PROVE  NotSent(k)
<1>1. ASSUME NEW d \in Dispatchers, pc[d] \in Busy
      PROVE  job[d].event # k
  BY <1>1, HoldParts DEF Current, PendingEvents
<1> QED
  BY <1>1 DEF NotSent, Post, Busy

(* The number of an event's tries bounds how often it was sent, and is     *)
(* that number while nothing fails.                                        *)
LEMMA PostsStep ==
  ASSUME HoldInv, HoldInv', ConfirmedIsDone, WebhookOfJob, PostsCounted, [Next]_vars
  PROVE  PostsCounted'
<1>1. AllOK /\ AllOK'
  BY HoldParts, TypeStep
<1>2. ASSUME NEW k \in PendingEvents'
      PROVE  PostsSoFar(k, outbox[k].retry)'
  <2>1. k \in DOMAIN outbox' /\ outbox'[k].status \in {"pending", "failed"}
    BY DEF PendingEvents
  <2>2. CASE k \notin DOMAIN outbox
    <3>1. outbox'[k].retry = 0 /\ UNCHANGED receiverVars /\ k \in EventIds
      BY <1>1, <2>1, <2>2, OutboxGrows DEF AllOK, TablesOK
    <3>2. posts'[k] = 0
      BY <2>2, <3>1 DEF ConfirmedIsDone, receiverVars
    <3> QED
      BY <3>1, <3>2, DispatcherAssumption DEF PostsSoFar
  <2>3. CASE k \in DOMAIN outbox /\ outbox'[k] = outbox[k]
    <3>1. k \in PendingEvents
      BY <2>1, <2>3 DEF PendingEvents
    <3>2. NotSent(k)
      BY <3>1, DueNotSent
    <3>3. PostsSoFar(k, outbox[k].retry)
      BY <3>1 DEF PostsCounted
    <3> QED
      BY <2>3, <3>2, <3>3, AccountKept DEF PostsSoFar, Sendable, Troubled
  <2>4. ASSUME NEW d \in Dispatchers, Marks(d), k = job[d].event
        PROVE  PostsSoFar(k, outbox[k].retry)'
    <3>1. pc[d] = "markFailed" /\ pc[d] \in Busy
      BY <2>4 DEF Marks, Busy, Marking
    <3>2. k \in DOMAIN outbox /\ job[d].retry + 1 \in Nat /\ outbox[k].status = "processing"
      BY <2>4, <3>1, HoldParts DEF Current, Job
    <3>3. outbox'[k].retry = job[d].retry + 1
      BY <1>1, <2>1, <2>4, <3>2, FailedRow DEF Marks, AllOK, TablesOK
    <3>4. PostsSoFar(k, job[d].retry + 1) /\ NotSent(k)
      BY <2>4, <3>1, OnlyHolderSends DEF PostsCounted
    <3> QED
      BY <3>2, <3>3, <3>4, AccountKept DEF PostsSoFar, Sendable, Troubled
  <2>5. ASSUME k \in DOMAIN outbox
        PROVE  \/ outbox'[k] = outbox[k]
               \/ \E d \in Dispatchers : Marks(d) /\ k = job[d].event
    <3>1. OutboxTypeOK
      BY <1>1 DEF AllOK, TablesOK
    <3>2. ASSUME NEW b \in Batches, Announce(b) PROVE outbox'[k] = outbox[k]
      BY <2>5, <3>1, <3>2, WrittenRow DEF Announce
    <3>3. ASSUME NEW S \in SUBSET PendingEvents, GetPendingEvents(S) PROVE outbox'[k] = outbox[k]
      <4>1. outbox[k] \in Event
        BY <2>5, <3>1 DEF OutboxTypeOK
      <4>2. ASSUME k \in S PROVE outbox'[k].status = "processing"
        <5>1. outbox'[k] = [outbox[k] EXCEPT !.status = "processing"]
          BY <3>1, <3>3, <4>2, ClaimedRows
        <5> QED
          BY <4>1, <5>1 DEF Event
      <4> QED
        BY <2>1, <2>5, <3>1, <3>3, <4>2, ClaimedRows
    <3>4. ASSUME NEW d \in Dispatchers, Marks(d), k # job[d].event PROVE outbox'[k] = outbox[k]
      <4>1. job[d].event \in DOMAIN outbox /\ job[d].retry + 1 \in Nat
        BY <3>4, HoldParts DEF Marks, Busy, Marking, Current, Job
      <4> QED
        BY <2>5, <3>1, <3>4, <4>1, FailedRow DEF Marks
    <3> QED
      BY <3>2, <3>3, <3>4, OutboxSteps DEF OutboxStep, ClaimEvents
  <2> QED
    BY <2>2, <2>3, <2>4, <2>5
<1>3. ASSUME NEW d \in Dispatchers, NEW r \in rows'[d]
      PROVE  PostsSoFar(r.event, r.retry)'
  <2>1. CASE r \in rows[d]
    <3>1. r.event \in DOMAIN outbox /\ NotSent(r.event) /\ PostsSoFar(r.event, r.retry)
      BY <2>1, HoldParts, OnlyHolderSends DEF Current, PostsCounted
    <3> QED
      BY <3>1, AccountKept DEF PostsSoFar, Sendable, Troubled
  <2>2. CASE r \notin rows[d]
    <3>1. PICK c \in Dispatchers, S \in SUBSET PendingEvents : ClaimEvents(c, S)
      BY <1>1, <1>3, <2>2, NotAClaim DEF TakesNothing
    <3>2. r \in {[event |-> k, retry |-> outbox[k].retry] : k \in S}
      BY <1>1, <1>3, <2>2, <3>1 DEF ClaimEvents, AllOK, DispatchersOK
    <3>3. PICK k \in S : r = [event |-> k, retry |-> outbox[k].retry]
      BY <3>2
    <3>4. k \in PendingEvents /\ PostsSoFar(r.event, r.retry) /\ r.event = k
      BY <3>3 DEF PostsCounted
    <3>5. k \in DOMAIN outbox
      BY <3>4 DEF PendingEvents
    <3>6. NotSent(r.event)
      BY <3>4, DueNotSent
    <3> QED
      BY <3>4, <3>5, <3>6, AccountKept DEF PostsSoFar, Sendable, Troubled
  <2> QED
    BY <2>1, <2>2
<1>4. ASSUME NEW d \in Dispatchers
      PROVE  /\ pc'[d] \in {"count", "post"} => PostsSoFar(job[d].event, job[d].retry)'
             /\ pc'[d] = "markFailed" => PostsSoFar(job[d].event, job[d].retry + 1)'
             /\ pc'[d] = "markProcessed" => (Settled(job[d].event) \/ Troubled)'
  <2> USE DEF AllOK, DispatchersOK
  <2>1. CASE pc'[d] \notin Busy
    BY <2>1 DEF Busy, Marking
  <2>2. CASE pc'[d] = pc[d] /\ job'[d] = job[d] /\ pc[d] \in Busy
    <3>1. job[d].event \in DOMAIN outbox /\ NotSent(job[d].event)
      BY <2>2, HoldParts, OnlyHolderSends DEF Current
    <3> QED
      BY <2>2, <3>1, AccountKept DEF PostsCounted, PostsSoFar, Settled, Sendable, Troubled
  <2>3. ASSUME NEW r \in rows[d], FetchBatch(d, r) \/ FetchFails(d, r)
        PROVE  /\ pc'[d] = "count" => PostsSoFar(job[d].event, job[d].retry)'
               /\ pc'[d] # "post"
               /\ pc'[d] = "markFailed" => PostsSoFar(job[d].event, job[d].retry + 1)'
               /\ pc'[d] = "markProcessed" => (Settled(job[d].event) \/ Troubled)'
    <3>1. /\ r.event \in DOMAIN outbox /\ NotSent(r.event)
          /\ PostsSoFar(r.event, r.retry) /\ r \in Row
      BY HoldParts, OnlyHolderSends DEF Current, PostsCounted
    <3>2. job'[d].event = r.event /\ job'[d].retry = r.retry
      BY <1>1, <2>3 DEF FetchBatch, FetchFails, Take
    <3>3. PostsSoFar(r.event, r.retry)' /\ r.event \in EventIds
      BY <1>1, <3>1, AccountKept DEF TablesOK
    <3>4. CASE FetchBatch(d, r)
      <4>1. pc'[d] = IF webhook[outbox[r.event].batch] # "none" THEN "count" ELSE "markProcessed"
        BY <1>1, <3>4 DEF FetchBatch, GoTo
      <4>2. (webhook[outbox[r.event].batch] = "none") => ~Sendable(r.event)'
        BY <3>1, AccountKept DEF Sendable
      <4> QED
        BY <3>2, <3>3, <4>1, <4>2 DEF PostsSoFar, Settled, Sendable, Troubled
    <3>5. CASE FetchFails(d, r)
      <4>1. pc'[d] = "markFailed" /\ Troubled'
        BY <1>1, <3>5, DispatcherAssumption DEF FetchFails, DbError, GoTo, Troubled, CountersOK
      <4>2. posts'[r.event] \in Nat
        BY <1>1, <3>3 DEF ReceiversOK
      <4> QED
        BY <3>1, <3>2, <3>3, <4>1, <4>2 DEF PostsSoFar, Sendable, Troubled, Row
    <3> QED
      BY <2>3, <3>4, <3>5
  <2>4. ASSUME CountItems(d) \/ CountFails(d)
        PROVE  /\ pc'[d] = "post" => PostsSoFar(job[d].event, job[d].retry)'
               /\ pc'[d] \notin {"count", "markProcessed"}
               /\ pc'[d] = "markFailed" => PostsSoFar(job[d].event, job[d].retry + 1)'
    <3> DEFINE k == job[d].event
               n == job[d].retry
    <3>1. pc[d] = "count" /\ pc[d] \in Busy /\ job[d] \in Job
      BY <2>4, HoldParts DEF CountItems, CountFails, Busy
    <3>2. k \in DOMAIN outbox /\ NotSent(k) /\ PostsSoFar(k, n)
      BY <3>1, HoldParts, OnlyHolderSends DEF Current, PostsCounted
    <3>3. job'[d].event = k /\ job'[d].retry = n /\ n \in Nat /\ k \in EventIds
          /\ k' = k /\ n' = n
      BY <1>1, <2>4, <3>1 DEF CountItems, CountFails, Job
    <3>4. /\ posts'[k] <= n /\ posts'[k] <= WebhookMaxRetries /\ posts'[k] \in Nat
          /\ Sendable(k)' => posts'[k] = n \/ Troubled'
          /\ Sendable(k)' <=> Sendable(k)
      BY <1>1, <3>2, <3>3, AccountKept DEF PostsSoFar, ReceiversOK
    <3>5. /\ pc'[d] \in {"markFailed", "post"}
          /\ pc'[d] = "markFailed" => ~Sendable(k)
      BY <1>1, <2>4 DEF CountItems, CountFails, GoTo, Sendable, Batch
    <3> HIDE DEF k, n
    <3>6. pc'[d] = "markFailed" => posts'[k] <= n + 1 /\ ~Sendable(k)'
      BY <3>3, <3>4, <3>5
    <3>7. PostsSoFar(k, n)' /\ (pc'[d] = "markFailed" => PostsSoFar(k, n + 1)')
      BY <3>3, <3>4, <3>6 DEF PostsSoFar
    <3> QED
      BY <3>3, <3>5, <3>7 DEF PostsSoFar, Sendable, Troubled
  <2>5. ASSUME NEW answer \in Answers, Post(d, answer)
        PROVE  /\ pc'[d] \notin {"count", "post"}
               /\ pc'[d] = "markFailed" => PostsSoFar(job[d].event, job[d].retry + 1)'
               /\ pc'[d] = "markProcessed" => (Settled(job[d].event) \/ Troubled)'
    <3> DEFINE k == job[d].event
               n == job[d].retry
    <3>1. pc[d] = "post" /\ pc[d] \in Busy /\ job[d] \in Job
      BY <2>5, HoldParts DEF Post, Busy
    <3>2. k \in EventIds /\ n \in Nat /\ PostsSoFar(k, n) /\ Sendable(k)
      BY <3>1 DEF Job, PostsCounted, WebhookOfJob
    <3>3. /\ job' = job /\ posts'[k] = posts[k] + 1 /\ posts[k] \in Nat
          /\ answer = "accepted" => k \in accepted'
          /\ pc'[d] = AfterPost(answer, n)
          /\ Troubled' <=> Troubled
      BY <1>1, <2>5, <3>2 DEF Post, GoTo, ReceiversOK, faultVars, Troubled
    <3>4. posts[k] <= n /\ posts[k] <= WebhookMaxRetries /\ (posts[k] = n \/ Troubled)
      BY <3>2 DEF PostsSoFar
    <3>5. job'[d].event = k /\ job'[d].retry = n
      BY <3>3
    <3> HIDE DEF k, n
    <3>6. CASE pc'[d] = "markFailed"
      <4>1. n < WebhookMaxRetries
        BY <3>3, <3>6 DEF AfterPost
      <4>2. /\ posts'[k] <= n + 1 /\ posts'[k] <= WebhookMaxRetries
            /\ posts'[k] = n + 1 \/ Troubled'
        BY <3>2, <3>3, <3>4, <4>1, DispatcherAssumption
      <4> QED
        BY <3>5, <3>6, <4>2 DEF PostsSoFar, Sendable, Troubled
    <3>7. CASE pc'[d] = "markProcessed"
      <4>1. answer = "accepted" \/ ~(n < WebhookMaxRetries)
        BY <3>3, <3>7 DEF AfterPost
      <4>2. k \in accepted' \/ posts'[k] = WebhookMaxRetries + 1 \/ Troubled'
        BY <3>2, <3>3, <3>4, <4>1, DispatcherAssumption
      <4> QED
        BY <3>5, <3>7, <4>2 DEF Settled, Sendable, Troubled
    <3>8. pc'[d] \in Marking
      BY <3>3 DEF AfterPost, Marking
    <3> QED
      BY <3>6, <3>7, <3>8 DEF Marking
  <2>6. Progress(d)
    BY <1>1, ProgressOf
  <2> QED
    BY <2>1, <2>2, <2>3, <2>4, <2>5, <2>6 DEF Progress
<1> QED
  BY <1>2, <1>3, <1>4 DEF PostsCounted
-----------------------------------------------------------------------------
DeliveredKnown == \A p \in delivered : p.event \in DOMAIN outbox

LEMMA NoErrorBefore ==
  ASSUME AllOK, [Next]_vars, dbErrors' = 0
  PROVE  dbErrors = 0 /\ ~DbError
<1>1. dbErrors \in Nat
  BY DispatcherAssumption DEF AllOK, CountersOK
<1>2. ~DbError
  BY <1>1 DEF DbError
<1>3. CASE Fault
  BY <1>2, <1>3
  DEF Fault, ClaimAnswerLost, FetchFails, CountFails, MarkFails, Crash, Restart, faultVars
<1> QED
  BY <1>2, <1>3
  DEF Next, Finish, Announce, ClaimEvents, Work, FetchBatch, CountItems, Post, MarkProcessed,
      MarkFailed, faultVars, vars

(* The status a dispatcher holds for its receiver is the verdict.          *)
LEMMA StatusStep ==
  ASSUME HoldInv, HoldInv', PayloadsTruthful, [Next]_vars, NEW d \in Dispatchers,
         pc'[d] \in {"count", "post"}
  PROVE  job'[d].payload.status = batches'[Batch(d)'].status
<1> USE DEF AllOK, DispatchersOK
<1>1. AllOK /\ Progress(d)
  BY HoldParts, ProgressOf
<1>2. ASSUME NEW e, e \in DOMAIN outbox, batches[outbox[e].batch].status \in Verdicts,
             outbox[e] \in Event, Batch(d)' = outbox[e].batch,
             job'[d].payload.status = batches[outbox[e].batch].status
      PROVE  job'[d].payload.status = batches'[Batch(d)'].status
  <2>1. PICK b \in Batches : b = outbox[e].batch
    BY <1>2 DEF Event
  <2>2. Summary(b)' = Summary(b)
    BY <1>2, <2>1, CompletedStays
  <2>3. batches'[b].status = batches[b].status
    BY <2>2 DEF Summary
  <2> QED
    BY <1>2, <2>1, <2>3
<1>3. ASSUME pc[d] \in {"count", "post"}, job'[d].event = job[d].event,
             job'[d].payload.status = job[d].payload.status
      PROVE  job'[d].payload.status = batches'[Batch(d)'].status
  <2>1. job[d].payload.status = batches[Batch(d)].status
    BY <1>3 DEF PayloadsTruthful
  <2>2. Batch(d)' = Batch(d)
    BY <1>3, BatchKept DEF Busy
  <2>3. /\ job[d].event \in DOMAIN outbox /\ outbox[job[d].event] \in Event
        /\ batches[outbox[job[d].event].batch].status \in Verdicts
    BY <1>3, HoldParts DEF Busy, Current, Batch
  <2> QED
    BY <1>2, <1>3, <2>1, <2>2, <2>3 DEF Batch
<1>4. CASE pc'[d] = pc[d] /\ job'[d] = job[d]
  BY <1>3, <1>4
<1>5. CASE CountItems(d) \/ CountFails(d)
  <2>1. pc[d] = "count" /\ job[d] \in Job
    BY <1>5, HoldParts DEF CountItems, CountFails, Busy
  <2>2. job'[d].event = job[d].event /\ job'[d].payload.status = job[d].payload.status
    BY <1>1, <1>5, <2>1 DEF CountItems, CountFails, Job, Summary
  <2> QED
    BY <1>3, <2>1, <2>2
<1>6. ASSUME NEW r \in rows[d], FetchBatch(d, r) \/ FetchFails(d, r)
      PROVE  job'[d].payload.status = batches'[Batch(d)'].status
  <2>1. /\ job'[d].event = r.event
        /\ job'[d].payload.status = batches[outbox[r.event].batch].status
    BY <1>1, <1>6 DEF FetchBatch, FetchFails, Take, NoSummary
  <2>2. Batch(d)' = outbox[r.event].batch
    BY <2>1, BatchKept
  <2>3. /\ r.event \in DOMAIN outbox /\ outbox[r.event] \in Event
        /\ batches[outbox[r.event].batch].status \in Verdicts
    BY HoldParts DEF Current
  <2> QED
    BY <1>2, <2>1, <2>2, <2>3
<1>7. ASSUME NEW answer \in Answers, Post(d, answer)
      PROVE  FALSE
  BY <1>1, <1>7 DEF Post, GoTo, AfterPost
<1> QED
  BY <1>1, <1>4, <1>5, <1>6, <1>7 DEF Progress, Busy

(* As long as no query failed, what is about to be sent is true.           *)
LEMMA CountsStep ==
  ASSUME HoldInv, HoldInv', PayloadsTruthful, [Next]_vars, NEW d \in Dispatchers,
         pc'[d] = "post", dbErrors' = 0
  PROVE  job'[d].payload = Summary(Batch(d))'
<1>1. AllOK /\ Progress(d) /\ dbErrors = 0 /\ ~DbError
  BY HoldParts, ProgressOf, NoErrorBefore
<1>2. pc[d] \in Busy /\ job'[d].event = job[d].event /\ job'[d].payload = Summary(Batch(d))
  <2> USE DEF AllOK, DispatchersOK
  <2>1. CASE pc'[d] = pc[d] /\ job'[d] = job[d]
    BY <1>1, <2>1 DEF PayloadsTruthful, Busy
  <2>2. CASE CountItems(d)
    <3>1. pc[d] = "count" /\ pc[d] \in Busy /\ job[d] \in Job
      BY <2>2, HoldParts DEF CountItems, Busy
    <3>2. job[d].payload.status = batches[Batch(d)].status
      BY <3>1 DEF PayloadsTruthful
    <3>3. [Summary(Batch(d)) EXCEPT !.status = job[d].payload.status] = Summary(Batch(d))
      BY <3>2 DEF Summary
    <3> QED
      BY <1>1, <2>2, <3>1, <3>3 DEF CountItems, Job
  <2>3. ASSUME NEW r \in rows[d], FetchBatch(d, r)
        PROVE  FALSE
    BY <1>1, <2>3 DEF FetchBatch, GoTo
  <2>4. ASSUME NEW answer \in Answers, Post(d, answer)
        PROVE  FALSE
    BY <1>1, <2>4 DEF Post, GoTo, AfterPost
  <2> QED
    BY <1>1, <2>1, <2>2, <2>3, <2>4 DEF Progress, Busy, FetchFails, CountFails
<1>3. Batch(d) \in Batches /\ batches[Batch(d)].status \in Verdicts /\ Batch(d)' = Batch(d)
  BY <1>2, HoldParts, BatchKept
<1>4. PICK b \in Batches : b = Batch(d)
  BY <1>3
<1>5. Summary(b)' = Summary(b)
  BY <1>3, <1>4, CompletedStays
<1>6. Summary(Batch(d))' = Summary(b)'
  BY <1>3, <1>4 DEF Summary, TotalItems, DoneCount, WithStatus, ItemsOf
<1> QED
  BY <1>2, <1>4, <1>5, <1>6

LEMMA PayloadStep ==
  ASSUME HoldInv, HoldInv', PayloadsTruthful, [Next]_vars
  PROVE  PayloadsTruthful'
<1> SUFFICES ASSUME NEW d \in Dispatchers
             PROVE  /\ pc'[d] \in {"count", "post"} =>
                         job'[d].payload.status = batches'[Batch(d)'].status
                    /\ pc'[d] = "post" /\ dbErrors' = 0 =>
                         job'[d].payload = Summary(Batch(d))'
  BY DEF PayloadsTruthful
<1> QED
  BY StatusStep, CountsStep

LEMMA DeliveredStep ==
  ASSUME HoldInv, HoldInv', PayloadsTruthful, DeliveredKnown, DeliveredTruthful, [Next]_vars
  PROVE  DeliveredKnown' /\ DeliveredTruthful'
<1>1. AllOK
  BY HoldParts
<1>2. ASSUME NEW p \in delivered
      PROVE  /\ p.event \in DOMAIN outbox'
             /\ p.payload.status = batches'[outbox'[p.event].batch].status
             /\ dbErrors' = 0 => p.payload = Summary(outbox[p.event].batch)'
  <2>1. p.event \in DOMAIN outbox /\ p.event \in DOMAIN outbox'
        /\ outbox'[p.event].batch = outbox[p.event].batch
    BY OutboxGrows DEF DeliveredKnown
  <2>2. outbox[p.event] \in Event
    BY <1>1, <2>1 DEF AllOK, TablesOK, OutboxTypeOK
  <2>3. PICK b \in Batches : b = outbox[p.event].batch
    BY <2>2 DEF Event
  <2>4. batches[b].status \in Verdicts
    BY <2>1, <2>3 DEF HoldInv, EventsCompleted
  <2>5. Summary(b)' = Summary(b)
    BY <2>4, CompletedStays
  <2>6. Summary(outbox[p.event].batch)' = Summary(b)'
    BY <2>1, <2>3 DEF Summary, TotalItems, DoneCount, WithStatus, ItemsOf
  <2>7. dbErrors' = 0 => p.payload = Summary(b)
    BY <1>1, <2>3, NoErrorBefore DEF DeliveredTruthful
  <2>8. batches'[b].status = batches[b].status
    BY <2>5 DEF Summary
  <2>9. p.payload.status = batches'[outbox'[p.event].batch].status
    BY <2>1, <2>3, <2>8 DEF DeliveredTruthful
  <2> QED
    BY <2>1, <2>5, <2>6, <2>7, <2>9
<1>3. ASSUME NEW p \in delivered' \ delivered
      PROVE  /\ p.event \in DOMAIN outbox'
             /\ p.payload.status = batches'[outbox'[p.event].batch].status
             /\ dbErrors' = 0 => p.payload = Summary(outbox[p.event].batch)'
  <2>1. PICK d \in Dispatchers, answer \in Answers : Post(d, answer)
    BY <1>1, <1>3, Frame
  <2>2. p.event = job[d].event /\ p.payload = job[d].payload
    BY <1>3, <2>1 DEF Post
  <2>3. pc[d] = "post" /\ pc[d] \in Busy /\ outbox' = outbox
        /\ dbErrors' = dbErrors /\ batches' = batches /\ items' = items
    BY <2>1 DEF Post, Busy, faultVars, storeVars
  <2>4. p.event \in DOMAIN outbox
    BY <2>2, <2>3, HoldParts DEF Current
  <2>5. /\ p.payload.status = batches[Batch(d)].status
        /\ dbErrors = 0 => p.payload = Summary(Batch(d))
    BY <2>2, <2>3 DEF PayloadsTruthful
  <2>6. Summary(outbox[p.event].batch)' = Summary(Batch(d))
    BY <2>2, <2>3 DEF Batch, Summary, TotalItems, DoneCount, WithStatus, ItemsOf
  <2>7. p.payload.status = batches'[outbox'[p.event].batch].status
    BY <2>2, <2>3, <2>5 DEF Batch
  <2> QED
    BY <2>3, <2>4, <2>5, <2>6, <2>7
<1> QED
  BY <1>2, <1>3 DEF DeliveredKnown, DeliveredTruthful

LEMMA DispatcherParts ==
  DispatcherInv <=> /\ HoldInv
                    /\ ConfirmedIsDone /\ WebhookOfJob /\ PostsCounted
                    /\ DeliveredKnown /\ PayloadsTruthful /\ DeliveredTruthful
BY DEF DispatcherInv, HoldInv, DeliveredKnown

LEMMA DispatcherInit == Init => DispatcherInv
<1> SUFFICES ASSUME Init PROVE DispatcherInv
  OBVIOUS
<1>1. HoldInv
  BY HoldInit
<1>2. outbox = <<>> /\ DOMAIN outbox = {}
  BY DEF Init, OutboxInit
<1>3. ConfirmedIsDone /\ WebhookOfJob /\ PostsCounted
  BY <1>2 DEF Init, ConfirmedIsDone, WebhookOfJob, PostsCounted, PendingEvents
<1>4. DeliveredKnown /\ PayloadsTruthful /\ DeliveredTruthful
  BY DEF Init, DeliveredKnown, PayloadsTruthful, DeliveredTruthful
<1> QED
  BY <1>1, <1>3, <1>4, DispatcherParts

LEMMA DispatcherStep == DispatcherInv /\ [Next]_vars => DispatcherInv'
<1> SUFFICES ASSUME DispatcherInv, [Next]_vars PROVE DispatcherInv'
  OBVIOUS
<1>1. /\ HoldInv /\ ConfirmedIsDone /\ WebhookOfJob /\ PostsCounted
      /\ DeliveredKnown /\ PayloadsTruthful /\ DeliveredTruthful
  BY DispatcherParts
<1>2. HoldInv'
  BY <1>1, HoldStep
<1>3. ConfirmedIsDone' /\ WebhookOfJob' /\ PostsCounted'
  BY <1>1, <1>2, ConfirmedStep, WebhookStep, PostsStep
<1>4. DeliveredKnown' /\ PayloadsTruthful' /\ DeliveredTruthful'
  BY <1>1, <1>2, PayloadStep, DeliveredStep
<1> QED
  BY <1>2, <1>3, <1>4 DEF DispatcherInv, HoldInv, DeliveredKnown

(* Unless a query failed, no receiver is ever told anything but the        *)
(* verdict, the counts and the failed items its batch really has.          *)
THEOREM TellsTheTruth == Spec => []DeliveredTruthful
<1>1. DispatcherInv => DeliveredTruthful
  BY DEF DispatcherInv
<1> QED
  BY <1>1, DispatcherInit, DispatcherStep, PTL DEF Spec
-----------------------------------------------------------------------------
LEMMA FaultTroubles ==
  ASSUME AllOK, Fault
  PROVE  Troubled' \/ \E d \in Dispatchers : Restart(d)
<1>1. crashes \in Nat /\ dbErrors \in Nat
  BY DispatcherAssumption DEF AllOK, CountersOK
<1>2. DbError => Troubled'
  BY <1>1 DEF DbError, Troubled
<1>3. \A d : Crash(d) => Troubled'
  BY <1>1 DEF Crash, Troubled
<1> QED
  BY <1>2, <1>3 DEF Fault, ClaimAnswerLost, FetchFails, CountFails, MarkFails

(* How a dispatcher comes to lose an event: it is done with it, or puts it *)
(* back, or a fault gets in the way.                                       *)
LEMMA LosesHold ==
  ASSUME HoldInv, [Next]_vars, NEW d \in Dispatchers, NEW k \in Held(d), k \notin Held(d)'
  PROVE  \/ Troubled'
         \/ pc[d] = "markProcessed" /\ job[d].event = k
         \/ Marks(d) /\ job[d].event = k
<1>1. AllOK
  BY HoldParts
<1> USE DEF AllOK, DispatchersOK
<1>2. \/ \E r \in rows[d] : r.event = k
      \/ pc[d] \in Busy /\ job[d].event = k
  BY HeldIs
<1>3. ~(/\ rows[d] \subseteq rows'[d]
        /\ pc[d] \in Busy => pc'[d] \in Busy /\ job'[d].event = job[d].event)
  BY <1>2, HeldIs
<1>4. ASSUME NEW c \in Dispatchers, Work(c), c # d
      PROVE  FALSE
  <2>1. rows'[d] = rows[d] /\ pc'[d] = pc[d] /\ job'[d] = job[d]
    BY <1>1, <1>4
    DEF Work, FetchBatch, Take, CountItems, Post, MarkProcessed, MarkFailed, NextEvent, GoTo
  <2> QED
    BY <1>3, <2>1
<1>5. ASSUME NEW r \in rows[d], FetchBatch(d, r)
      PROVE  FALSE
  <2>1. /\ pc[d] \notin Busy /\ pc'[d] \in Busy
        /\ rows'[d] = rows[d] \ {r}
        /\ job'[d].event = r.event
    BY <1>1, <1>5 DEF FetchBatch, Take, GoTo, Busy, Marking
  <2> QED
    BY <1>2, <2>1, HeldIs
<1>6. ASSUME CountItems(d) \/ \E answer \in Answers : Post(d, answer)
      PROVE  FALSE
  <2>1. pc[d] \in Busy /\ pc'[d] \in Busy /\ rows' = rows
    BY <1>1, <1>6 DEF CountItems, Post, GoTo, AfterPost, Busy, Marking
  <2>2. job[d] \in Job
    BY <2>1, HoldParts
  <2>3. job'[d].event = job[d].event
    BY <1>1, <1>6, <2>2 DEF CountItems, Post, Job
  <2> QED
    BY <1>3, <2>1, <2>3
<1>7. ASSUME NextEvent(d)
      PROVE  job[d].event = k
  BY <1>2, <1>7, HeldIs DEF NextEvent
<1>8. ASSUME NEW c \in Dispatchers, Restart(c)
      PROVE  FALSE
  <2>1. rows' = rows /\ job' = job /\ (pc[d] \in Busy => pc'[d] = pc[d])
    BY <1>1, <1>8 DEF Restart, GoTo, Busy, Marking
  <2> QED
    BY <1>3, <2>1
<1>9. ASSUME NEW c \in Dispatchers, NEW S \in SUBSET PendingEvents, ClaimEvents(c, S)
      PROVE  FALSE
  <2>1. CASE c = d
    <3>1. pc[d] = "poll"
      BY <1>9, <2>1 DEF ClaimEvents
    <3>2. rows[d] = {}
      BY <1>1, <3>1 DEF RowsOfBusy
    <3> QED
      BY <1>2, <3>1, <3>2 DEF Busy, Marking
  <2>2. CASE c # d
    BY <1>1, <1>3, <1>9, <2>2 DEF ClaimEvents, GoTo
  <2> QED
    BY <2>1, <2>2
<1>10. ASSUME UNCHANGED dispatchVars
       PROVE  FALSE
  BY <1>3, <1>10 DEF dispatchVars
<1>11. ASSUME Work(d)
       PROVE  \/ pc[d] = "markProcessed" /\ job[d].event = k
              \/ Marks(d) /\ job[d].event = k
  BY <1>5, <1>6, <1>7, <1>11 DEF Work, MarkProcessed, MarkFailed, Marks, Answers
<1>12. CASE UNCHANGED vars
  BY <1>10, <1>12 DEF vars, dispatchVars
<1> QED
  BY <1>1, <1>4, <1>8, <1>9, <1>10, <1>11, <1>12, FaultTroubles DEF Next, Announce, Finish

(* The stage of an event, by who holds it.                                 *)
IsHeld(k) == \E d \in Dispatchers : k \in Held(d)

LEMMA StageIs ==
  ASSUME HoldInv, HoldInv', NEW k
  PROVE  /\ Stage(k) \in {"due", "taken", "settled"} /\ Stage(k)' \in {"due", "taken", "settled"}
         /\ Stage(k) = "due" <=> outbox[k].status \in {"pending", "failed"}
         /\ Stage(k)' = "due" <=> outbox'[k].status \in {"pending", "failed"}
         /\ Stage(k) = "taken" <=> IsHeld(k)
         /\ Stage(k)' = "taken" <=> IsHeld(k)'
<1>1. IsHeld(k) => outbox[k].status = "processing"
  BY HeldProcessing DEF IsHeld
<1>2. IsHeld(k)' => outbox'[k].status = "processing"
  <2>1. ASSUME NEW d \in Dispatchers, k \in Held(d)'
        PROVE  outbox'[k].status = "processing"
    BY <2>1, HeldIs DEF HoldInv, ClaimsCurrent, Current
  <2> QED
    BY <2>1 DEF IsHeld
<1> QED
  BY <1>1, <1>2 DEF Stage, IsHeld

(* Where the row of an event that is not about to be sent may go.          *)
LEMMA RowStep ==
  ASSUME HoldInv, [Next]_vars, NEW k \in DOMAIN outbox
  PROVE  \/ outbox'[k] = outbox[k]
         \/ /\ outbox[k].status \in {"pending", "failed"}
            /\ outbox'[k].status = "processing"
            /\ IsHeld(k)' \/ Troubled'
         \/ \E d \in Dispatchers : Marks(d) /\ job[d].event = k
<1>1. AllOK /\ OutboxTypeOK /\ outbox[k] \in Event
  BY HoldParts DEF AllOK, TablesOK, OutboxTypeOK
<1>2. ASSUME NEW b \in Batches, Announce(b) PROVE outbox'[k] = outbox[k]
  BY <1>1, <1>2, WrittenRow DEF Announce
<1>3. ASSUME NEW S \in SUBSET PendingEvents, GetPendingEvents(S)
      PROVE  \/ outbox'[k] = outbox[k]
             \/ k \in S /\ outbox[k].status \in {"pending", "failed"}
                       /\ outbox'[k].status = "processing"
  <2>1. CASE k \in S
    <3>1. outbox'[k] = [outbox[k] EXCEPT !.status = "processing"]
          /\ outbox[k].status \in {"pending", "failed"}
      BY <1>1, <1>3, <2>1, ClaimedRows
    <3> QED
      BY <1>1, <2>1, <3>1 DEF Event
  <2>2. CASE k \notin S
    BY <1>1, <1>3, <2>2, ClaimedRows
  <2> QED
    BY <2>1, <2>2
<1>4. ASSUME NEW d \in Dispatchers, NEW S \in SUBSET PendingEvents, ClaimEvents(d, S), k \in S
      PROVE  IsHeld(k)'
  BY <1>4, ClaimStep DEF IsHeld
<1>5. DbError => Troubled'
  BY <1>1, DispatcherAssumption DEF DbError, Troubled, AllOK, CountersOK
<1>6. ASSUME NEW d \in Dispatchers, Marks(d), job[d].event # k
      PROVE  outbox'[k] = outbox[k]
  <2>1. job[d].event \in DOMAIN outbox /\ job[d].retry + 1 \in Nat
    BY <1>6, HoldParts DEF Marks, Busy, Marking, Current, Job
  <2> QED
    BY <1>1, <1>6, <2>1, FailedRow DEF Marks
<1> QED
  BY <1>2, <1>3, <1>4, <1>5, <1>6, OutboxSteps DEF OutboxStep, ClaimEvents

View == [k \in EventIds |-> EventView(k)]

(* An event nobody sends in this step moves between the stages, or stays.  *)
LEMMA StageStep ==
  ASSUME HoldInv, HoldInv', ConfirmedIsDone, ConfirmedIsDone', PostsCounted, [Next]_vars,
         NEW k \in DOMAIN outbox
  PROVE  \/ Stage(k)' = Stage(k)
         \/ Stage(k) = "due" /\ Stage(k)' = "taken"
         \/ Stage(k) = "taken" /\ Stage(k)' = "due" /\ k \notin accepted'
         \/ Stage(k) = "taken" /\ Stage(k)' = "settled" /\ (Settled(k) \/ Troubled')
         \/ Stage(k) = "due" /\ Stage(k)' = "settled" /\ Troubled'
<1>1. AllOK /\ outbox[k] \in Event /\ (Troubled => Troubled')
  BY HoldParts, Frame DEF AllOK, TablesOK, OutboxTypeOK
<1>2. ASSUME NEW d \in Dispatchers, Marks(d), job[d].event = k
      PROVE  /\ Stage(k) = "taken"
             /\ outbox'[k].status = "failed" \/ (outbox' = outbox /\ (Settled(k) \/ Troubled'))
  <2>1. pc[d] = "markFailed" /\ pc[d] \in Busy
    BY <1>2 DEF Marks, Busy, Marking
  <2>2. job[d] \in Job /\ job[d].retry + 1 \in Nat /\ OutboxTypeOK
    BY <1>1, <2>1, HoldParts DEF Job, AllOK, TablesOK
  <2>3. IsHeld(k)
    BY <1>2, <2>1, HeldIs DEF IsHeld
  <2>4. \/ outbox'[k].status = "failed"
        \/ outbox' = outbox /\ job[d].retry + 1 > SmallIntMax
    BY <1>2, <2>2, FailedRow DEF Marks
  <2>5. PostsSoFar(k, job[d].retry + 1)
    BY <1>2, <2>1 DEF PostsCounted
  <2>6. posts[k] <= WebhookMaxRetries /\ (Sendable(k) => posts[k] = job[d].retry + 1 \/ Troubled)
    BY <2>5 DEF PostsSoFar
  <2>7. k \in EventIds /\ posts[k] \in Nat
    BY <1>1 DEF AllOK, TablesOK, ReceiversOK
  <2>8. job[d].retry + 1 > SmallIntMax => ~Sendable(k) \/ Troubled
    BY <2>2, <2>6, <2>7, StoreAssumption, DispatcherAssumption
  <2> QED
    BY <1>1, <2>3, <2>4, <2>8, StageIs DEF Settled
<1>3. k \in accepted' => Stage(k)' # "due"
  BY StageIs DEF ConfirmedIsDone
<1>4. CASE outbox'[k] = outbox[k]
  <2>1. CASE Stage(k) = "due"
    BY <1>4, <2>1, StageIs
  <2>2. CASE Stage(k) = "taken" /\ Stage(k)' # "taken"
    <3>1. PICK d \in Dispatchers : k \in Held(d)
      BY <2>2, StageIs DEF IsHeld
    <3>2. k \notin Held(d)'
      BY <2>2, StageIs DEF IsHeld
    <3>3. Stage(k)' = "settled"
      BY <1>4, <2>2, StageIs
    <3>4. pc[d] = "markProcessed" /\ job[d].event = k => Settled(k) \/ Troubled'
      BY <1>1 DEF PostsCounted
    <3>5. Marks(d) /\ job[d].event = k => Settled(k) \/ Troubled'
      BY <1>2, <1>4, <3>3, StageIs
    <3> QED
      BY <2>2, <3>1, <3>2, <3>3, <3>4, <3>5, LosesHold
  <2>3. CASE Stage(k) = "settled"
    <3>1. Stage(k)' # "due"
      BY <1>4, <2>3, StageIs
    <3>2. ASSUME NEW d \in Dispatchers, k \in Held(d)'
          PROVE  FALSE
      <4>1. CASE \E c \in Dispatchers, S \in SUBSET PendingEvents : ClaimEvents(c, S)
        <5>1. PICK c \in Dispatchers, S \in SUBSET PendingEvents : ClaimEvents(c, S)
          BY <4>1
        <5>2. k \notin S
          BY <2>3, StageIs DEF PendingEvents
        <5>3. Held(d)' = IF d = c THEN S ELSE Held(d)
          BY <5>1, ClaimStep
        <5> QED
          BY <2>3, <3>2, <5>2, <5>3, StageIs DEF IsHeld
      <4>2. CASE ~\E c \in Dispatchers, S \in SUBSET PendingEvents : ClaimEvents(c, S)
        BY <1>1, <2>3, <3>2, <4>2, NotAClaim, HeldShrinks, StageIs DEF IsHeld
      <4> QED
        BY <4>1, <4>2
    <3>3. ~IsHeld(k)'
      BY <3>2 DEF IsHeld
    <3> QED
      BY <2>3, <3>1, <3>3, StageIs
  <2> QED
    BY <2>1, <2>2, <2>3, StageIs
<1>5. CASE /\ outbox[k].status \in {"pending", "failed"}
           /\ outbox'[k].status = "processing"
           /\ IsHeld(k)' \/ Troubled'
  BY <1>5, StageIs
<1>6. CASE \E d \in Dispatchers : Marks(d) /\ job[d].event = k
  <2>1. CASE outbox' = outbox
    BY <1>4, <2>1
  <2>2. CASE outbox' # outbox
    BY <1>2, <1>3, <1>6, <2>2, StageIs
  <2> QED
    BY <2>1, <2>2
<1> QED
  BY <1>4, <1>5, <1>6, RowStep

(* A step seen by one event, from outside.                                 *)
EventMoves(k) ==
  \/ View'[k] = View[k]
  \/ Promise!Written(k) \/ Promise!Taken(k) \/ Promise!Sent(k)
  \/ Promise!PutBack(k) \/ Promise!GivenUp(k) \/ Promise!Dropped(k)

LEMMA ViewOf ==
  ASSUME NEW k \in EventIds
  PROVE  /\ k \in DOMAIN outbox =>
              View[k] = [stage |-> Stage(k), posts |-> posts[k], sendable |-> Sendable(k),
                         confirmed |-> k \in accepted]
         /\ k \in DOMAIN outbox' =>
              View'[k] = [stage |-> Stage(k)', posts |-> posts'[k], sendable |-> Sendable(k)',
                          confirmed |-> k \in accepted']
         /\ k \notin DOMAIN outbox => View[k] = Promise!Unwritten
         /\ k \notin DOMAIN outbox' => View'[k] = Promise!Unwritten
<1>1. View[k] = EventView(k) /\ View'[k] = EventView(k)'
  BY DEF View, EventIds
<1> QED
  BY <1>1, Zenon DEF EventView, Promise!Unwritten

LEMMA SentMoves ==
  ASSUME DispatcherInv, DispatcherInv', [Next]_vars, NEW k \in EventIds,
         NEW d \in Dispatchers, NEW answer \in Answers, Post(d, answer), job[d].event = k
  PROVE  EventMoves(k)
<1>1. /\ HoldInv /\ HoldInv' /\ ConfirmedIsDone /\ WebhookOfJob /\ PostsCounted /\ AllOK
  BY HoldParts, DispatcherParts DEF DispatcherInv, HoldInv
<1>2. pc[d] = "post" /\ pc[d] \in Busy /\ outbox' = outbox /\ webhook' = webhook
      /\ job' = job /\ rows' = rows
  BY DEF Post, Busy
<1>3. k \in DOMAIN outbox /\ k \in Held(d)
  BY <1>1, <1>2, HoldParts, HeldIs DEF Current
<1>4. k \in Held(d)'
  <2>1. pc'[d] \in Busy
    BY <1>1 DEF Post, GoTo, AfterPost, Busy, Marking, AllOK, DispatchersOK
  <2> QED
    BY <1>2, <2>1, HeldIs
<1>5. Stage(k) = "taken" /\ Stage(k)' = "taken"
  BY <1>1, <1>3, <1>4, StageIs DEF IsHeld
<1>6. Sendable(k) /\ Sendable(k)' /\ k \notin accepted
  BY <1>1, <1>2, <1>3 DEF WebhookOfJob, Sendable, ConfirmedIsDone
<1>7. posts'[k] = posts[k] + 1 /\ posts[k] \in Nat /\ posts[k] < WebhookMaxRetries + 1
  <2>1. posts[k] <= WebhookMaxRetries
    BY <1>1, <1>2 DEF PostsCounted, PostsSoFar
  <2>2. posts[k] \in Nat /\ posts'[k] = posts[k] + 1
    BY <1>1 DEF Post, AllOK, ReceiversOK
  <2> QED
    BY <2>1, <2>2, DispatcherAssumption
<1>8. PICK c \in BOOLEAN : c = (k \in accepted')
  <2>1. (k \in accepted') \in BOOLEAN
    OBVIOUS
  <2> QED
    BY <2>1
<1>9. View[k] = [stage |-> "taken", posts |-> posts[k], sendable |-> TRUE, confirmed |-> FALSE]
  <2>1. Sendable(k) = TRUE /\ (k \in accepted) = FALSE
    BY <1>6 DEF Sendable
  <2> QED
    BY <1>3, <1>5, <2>1, ViewOf, Zenon
<1>10. View'[k] = [stage |-> "taken", posts |-> posts[k] + 1, sendable |-> TRUE, confirmed |-> c]
  <2>1. Sendable(k)' = TRUE
    BY <1>6 DEF Sendable
  <2> QED
    BY <1>2, <1>3, <1>5, <1>7, <1>8, <2>1, ViewOf, Zenon
<1>11. /\ View[k].stage = "taken" /\ View[k].posts = posts[k]
       /\ View[k].sendable = TRUE /\ View[k].confirmed = FALSE
  BY <1>9
<1>12. Promise!Sent(k)
  BY <1>7, <1>10, <1>11 DEF Promise!Sent, View
<1> QED
  BY <1>12 DEF EventMoves

LEMMA UnsentMoves ==
  ASSUME DispatcherInv, DispatcherInv', [Next]_vars, NEW k \in EventIds, NotSent(k)
  PROVE  EventMoves(k)
<1>1. /\ HoldInv /\ HoldInv' /\ ConfirmedIsDone /\ ConfirmedIsDone' /\ PostsCounted /\ AllOK
  BY HoldParts, DispatcherParts DEF DispatcherInv, HoldInv
<1>2. posts'[k] = posts[k] /\ (k \in accepted' <=> k \in accepted)
  BY <1>1, NothingSent
<1>3. CASE k \notin DOMAIN outbox'
  <2>1. k \notin DOMAIN outbox
    BY <1>1, <1>3, OutboxGrows
  <2>2. View'[k] = View[k]
    BY <1>3, <2>1 DEF View, EventView
  <2> QED
    BY <2>2 DEF EventMoves
<1>4. CASE k \notin DOMAIN outbox /\ k \in DOMAIN outbox'
  <2>1. View[k] = Promise!Unwritten
    BY <1>4 DEF View, EventView, Promise!Unwritten
  <2>2. posts'[k] = 0 /\ k \notin accepted'
    BY <1>1, <1>2, <1>4 DEF ConfirmedIsDone
  <2>3. Stage(k)' = "due"
    BY <1>1, <1>4, OutboxGrows, StageIs
  <2>4. PICK c \in BOOLEAN : c = Sendable(k)'
    BY DEF Sendable
  <2>5. View'[k] = [stage |-> "due", posts |-> 0, sendable |-> c, confirmed |-> FALSE]
    <3>1. (k \in accepted') = FALSE
      BY <2>2
    <3> QED
      BY <1>4, <2>2, <2>3, <2>4, <3>1, ViewOf, Zenon
  <2>7. Promise!Written(k)
    BY <2>1, <2>5 DEF Promise!Written, View
  <2> QED
    BY <2>7 DEF EventMoves
<1>5. CASE k \in DOMAIN outbox
  <2>1. k \in DOMAIN outbox' /\ (Sendable(k)' <=> Sendable(k)) /\ (Troubled => Troubled')
    BY <1>1, <1>5, OutboxGrows, AccountKept, Frame
  <2>2. View[k] = [stage |-> Stage(k), posts |-> posts[k], sendable |-> Sendable(k),
                   confirmed |-> k \in accepted]
    BY <1>5 DEF View, EventView
  <2>3. View'[k] = [stage |-> Stage(k)', posts |-> posts[k], sendable |-> Sendable(k),
                    confirmed |-> k \in accepted]
    <3>1. Sendable(k)' = Sendable(k)
      BY <2>1 DEF Sendable
    <3>2. (k \in accepted') = (k \in accepted)
      BY <1>2
    <3> QED
      BY <1>2, <2>1, <3>1, <3>2 DEF View, EventView
  <2>4. \A stage : Stage(k)' = stage => View'[k] = [View[k] EXCEPT !.stage = stage]
    BY <2>2, <2>3
  <2>5. CASE Stage(k)' = Stage(k)
    BY <2>2, <2>3, <2>5 DEF EventMoves
  <2>6. CASE Stage(k) = "due" /\ Stage(k)' = "taken"
    BY <2>2, <2>4, <2>6 DEF EventMoves, Promise!Taken, Promise!Moves, View
  <2>7. CASE Stage(k) = "taken" /\ Stage(k)' = "due" /\ k \notin accepted'
    <3>1. (k \in accepted) = FALSE
      BY <1>2, <2>7
    <3>2. View[k].confirmed = FALSE /\ View[k].stage = "taken"
      <4>1. View[k].confirmed = (k \in accepted)
        BY <2>2
      <4>2. View[k].confirmed = FALSE
        BY <3>1, <4>1, Zenon
      <4>3. View[k].stage = "taken"
        BY <2>2, <2>7
      <4> QED
        BY <4>2, <4>3
    <3>3. View'[k] = [View[k] EXCEPT !.stage = "due"]
      BY <2>4, <2>7
    <3>4. Promise!PutBack(k)
      BY <3>2, <3>3 DEF Promise!PutBack, Promise!Moves, View
    <3> QED
      BY <3>4 DEF EventMoves
  <2>8. CASE Stage(k) = "taken" /\ Stage(k)' = "settled" /\ Settled(k)
    <3>1. Promise!Settled(View[k])
      <4>1. View[k].confirmed = (k \in accepted) /\ View[k].sendable = Sendable(k)
            /\ View[k].posts = posts[k]
        BY <2>2
      <4> QED
        BY <2>8, <4>1 DEF Settled, Promise!Settled
    <3> QED
      BY <2>2, <2>4, <2>8, <3>1 DEF EventMoves, Promise!GivenUp, Promise!Moves, View
  <2>9. CASE Stage(k) \in {"taken", "due"} /\ Stage(k)' = "settled" /\ Troubled'
    BY <2>2, <2>4, <2>9 DEF EventMoves, Promise!Dropped, Promise!Moves, View
  <2> QED
    BY <1>1, <1>5, <2>5, <2>6, <2>7, <2>8, <2>9, StageStep
<1> QED
  BY <1>3, <1>4, <1>5

(* Every step of the dispatchers moves every event as promised, or leaves  *)
(* it alone.                                                               *)
LEMMA PromiseStep ==
  ASSUME DispatcherInv, [Next]_vars
  PROVE  Promise!Next
<1>1. DispatcherInv' /\ AllOK
  BY DispatcherStep, DispatcherParts, HoldParts
<1>2. ASSUME NEW k \in EventIds
      PROVE  EventMoves(k)
  <2>1. CASE NotSent(k)
    BY <1>1, <2>1, UnsentMoves
  <2>2. CASE ~NotSent(k)
    BY <1>1, <2>2, SentMoves DEF NotSent
  <2> QED
    BY <2>1, <2>2
<1>3. Troubled => Troubled'
  BY <1>1, Frame
<1>4. DOMAIN View' = EventIds
  BY DEF View, EventIds
<1> QED
  BY <1>2, <1>3, <1>4 DEF Promise!Next, EventMoves, View

LEMMA PromiseInit == Init => Promise!Init
<1> SUFFICES ASSUME Init PROVE Promise!Init
  OBVIOUS
<1>1. DOMAIN outbox = {} /\ crashes = 0 /\ dbErrors = 0
  BY DEF Init, OutboxInit
<1>2. \A k \in EventIds : EventView(k) = Promise!Unwritten
  BY <1>1 DEF EventView, Promise!Unwritten
<1>3. ~Troubled
  BY <1>1 DEF Troubled
<1> QED
  BY <1>2, <1>3 DEF Promise!Init

(* The dispatchers implement what Delivery promises of each event.         *)
THEOREM DeliveryImplemented == Spec => ImplementsDelivery
<1>1. DispatcherInv /\ [Next]_vars => DispatcherInv'
  BY DispatcherStep
<1>2. DispatcherInv /\ [Next]_vars => [Promise!Next]_(Promise!vars)
  BY PromiseStep
<1> QED
  BY <1>1, <1>2, DispatcherInit, PromiseInit, PTL DEF Spec, ImplementsDelivery, Promise!Spec
=============================================================================
