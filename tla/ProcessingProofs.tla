-------------------------- MODULE ProcessingProofs ---------------------------
(***************************************************************************)
(* Theorems about Processing, for every number of workers and items and    *)
(* whatever the breaker's settings and the bounds on faults.  What the     *)
(* workers' claims are worth is taken from the proofs about WorkerPool, of *)
(* which the pool of Processing is an instance.                            *)
(***************************************************************************)
EXTENDS Processing, TLAPS

Proved == INSTANCE WorkerPoolProofs WITH
  Nodes <- {Node}, Host <- [w \in Workers |-> Node],
  Replies <- [ok : BOOLEAN, fits : {TRUE}],
  SlowClaims <- FALSE, MaxDbErrors <- 0, dbErrors <- 0

(* What the proofs about WorkerPool assume of its constants holds of this   *)
(* instance.                                                               *)
LEMMA PoolIsConfigured ==
  /\ Proved!IsFiniteSet(Items) /\ BatchOf \in [Items -> Batches]
  /\ MaxRetries \in Nat /\ SmallIntMax \in Nat
  /\ [w \in Workers |-> Node] \in [Workers -> {Node}]
  /\ ItemsPerPoll \in Nat \ {0}
  /\ [ok : BOOLEAN, fits : {TRUE}] \subseteq Proved!Reply
  /\ FALSE \in BOOLEAN
  /\ MaxCrashes \in Nat
  /\ 0 \in Nat
  /\ NoJob \notin Proved!Job
<1>1. [ok : BOOLEAN, fits : {TRUE}] \subseteq Proved!Reply
  BY DEF Proved!Reply
<1>2. NoJob \notin Proved!Job
  BY ProcessingAssumption DEF Pool!Job, Proved!Job
<1>3. Proved!IsFiniteSet(Items)
  BY StoreAssumption DEF IsFiniteSet, Proved!IsFiniteSet
<1> QED
  BY <1>1, <1>2, <1>3, StoreAssumption, ProcessingAssumption

(* Both instances of WorkerPool are the same.                              *)
LEMMA SameInit == Pool!Init => Proved!Init
BY DEF Pool!Init, Proved!Init, Pool!StoreInit, Proved!StoreInit, Pool!OutboxInit, Proved!OutboxInit

LEMMA SameCardinality == \A S : Pool!Cardinality(S) = Proved!Cardinality(S)
BY DEF Pool!Cardinality, Proved!Cardinality

LEMMA SameCounts ==
  /\ \A S : Pool!Rows(S) = Proved!Rows(S)
  /\ Pool!PendingRows = Proved!PendingRows
  /\ \A b : /\ Pool!DoneCount(b) = Proved!DoneCount(b)
            /\ Pool!FailedCount(b) = Proved!FailedCount(b)
            /\ Pool!TotalItems(b) = Proved!TotalItems(b)
<1>1. \A b, s : Pool!WithStatus(b, s) = Proved!WithStatus(b, s)
  BY DEF Pool!WithStatus, Proved!WithStatus, Pool!ItemsOf, Proved!ItemsOf
<1>2. \A b : Pool!ItemsOf(b) = Proved!ItemsOf(b)
  BY DEF Pool!ItemsOf, Proved!ItemsOf
<1>3. \A S : Pool!Rows(S) = Proved!Rows(S)
  BY DEF Pool!Rows, Proved!Rows
<1>4. Pool!PendingRows = Proved!PendingRows
  BY DEF Pool!PendingRows, Proved!PendingRows
<1>5. ASSUME NEW b
      PROVE  /\ Pool!DoneCount(b) = Proved!DoneCount(b)
             /\ Pool!FailedCount(b) = Proved!FailedCount(b)
             /\ Pool!TotalItems(b) = Proved!TotalItems(b)
  <2>1. /\ Pool!WithStatus(b, "done") = Proved!WithStatus(b, "done")
        /\ Pool!WithStatus(b, "failed") = Proved!WithStatus(b, "failed")
        /\ Pool!ItemsOf(b) = Proved!ItemsOf(b)
    BY <1>1, <1>2
  <2> QED
    BY <2>1, SameCardinality
    DEF Pool!DoneCount, Proved!DoneCount, Pool!FailedCount, Proved!FailedCount,
        Pool!TotalItems, Proved!TotalItems
<1> QED
  BY <1>3, <1>4, <1>5

LEMMA SameWork ==
  ASSUME NEW w \in Workers
  PROVE  /\ \A S : Pool!Claim(w, S) => Proved!Claim(w, S)
         /\ \A r, reply : Pool!SendItem(w, r, reply) => Proved!SendItem(w, r, reply)
         /\ Pool!DeadLetter(w) => Proved!DeadLetter(w)
         /\ Pool!RecordResult(w) => Proved!RecordResult(w)
         /\ Pool!RecordRefused(w) => Proved!RecordRefused(w)
         /\ Pool!CountDone(w) => Proved!CountDone(w)
         /\ Pool!CountFailed(w) => Proved!CountFailed(w)
         /\ Pool!Complete(w) => Proved!Complete(w)
         /\ Pool!Enqueue(w) => Proved!Enqueue(w)
<1>1. ASSUME NEW S, Pool!Claim(w, S) PROVE Proved!Claim(w, S)
  <2>1. Pool!GetPendingItems(S) => Proved!GetPendingItems(S)
    BY SameCounts DEF Pool!GetPendingItems, Proved!GetPendingItems
  <2>2. Pool!Rows(S) = Proved!Rows(S)
    BY SameCounts
  <2> QED
    BY <1>1, <2>1, <2>2, SameCardinality
    DEF Pool!Claim, Proved!Claim, Pool!GoTo, Proved!GoTo, Pool!faultVars, Proved!faultVars
<1>2. \A r, reply : Pool!SendItem(w, r, reply) => Proved!SendItem(w, r, reply)
  BY DEF Pool!SendItem, Proved!SendItem, Pool!StatusAfter, Proved!StatusAfter, Pool!GoTo,
         Proved!GoTo, Pool!storeVars, Proved!storeVars, Pool!faultVars, Proved!faultVars
<1>3. Pool!DeadLetter(w) => Proved!DeadLetter(w)
  BY DEF Pool!DeadLetter, Proved!DeadLetter, Pool!Storable, Proved!Storable,
         Pool!InsertDeadLetter, Proved!InsertDeadLetter, Pool!GoTo, Proved!GoTo,
         Pool!storeVars, Proved!storeVars, Pool!faultVars, Proved!faultVars
<1>4. Pool!RecordResult(w) => Proved!RecordResult(w)
  BY DEF Pool!RecordResult, Proved!RecordResult, Pool!Storable, Proved!Storable,
         Pool!UpdateItemStatus, Proved!UpdateItemStatus, Pool!NextItem, Proved!NextItem,
         Pool!GoTo, Proved!GoTo, Pool!faultVars, Proved!faultVars
<1>5. Pool!RecordRefused(w) => Proved!RecordRefused(w)
  BY DEF Pool!RecordRefused, Proved!RecordRefused, Pool!Storable, Proved!Storable,
         Pool!NextItem, Proved!NextItem, Pool!storeVars, Proved!storeVars, Pool!faultVars,
         Proved!faultVars
<1>6. Pool!CountDone(w) => Proved!CountDone(w)
  BY SameCounts
  DEF Pool!CountDone, Proved!CountDone, Pool!GoTo, Proved!GoTo, Pool!storeVars,
      Proved!storeVars, Pool!faultVars, Proved!faultVars
<1>7. Pool!CountFailed(w) => Proved!CountFailed(w)
  BY SameCounts
  DEF Pool!CountFailed, Proved!CountFailed, Pool!IsComplete, Proved!IsComplete,
      Pool!NextItem, Proved!NextItem, Pool!GoTo, Proved!GoTo, Pool!storeVars,
      Proved!storeVars, Pool!faultVars, Proved!faultVars
<1>8. Pool!Complete(w) => Proved!Complete(w)
  BY SameCounts
  DEF Pool!Complete, Proved!Complete, Pool!CompleteBatch, Proved!CompleteBatch,
      Pool!Verdict, Proved!Verdict, Pool!GoTo, Proved!GoTo, Pool!faultVars, Proved!faultVars
<1>9. Pool!Enqueue(w) => Proved!Enqueue(w)
  BY DEF Pool!Enqueue, Proved!Enqueue, Pool!CreateEvent, Proved!CreateEvent, Pool!Verdict,
         Proved!Verdict, Pool!NextItem, Proved!NextItem, Pool!storeVars, Proved!storeVars,
         Pool!faultVars, Proved!faultVars
<1> QED
  BY <1>1, <1>2, <1>3, <1>4, <1>5, <1>6, <1>7, <1>8, <1>9

LEMMA SameOthers ==
  /\ Pool!Client => Proved!Client
  /\ \A S : Pool!CleanStaleLocks(S) => Proved!CleanStaleLocks(S)
  /\ Pool!StaleRows = Proved!StaleRows
  /\ Pool!Crash(Node) => Proved!Crash(Node)
  /\ Pool!Restart(Node) => Proved!Restart(Node)
<1>1. Pool!Client => Proved!Client
  BY DEF Pool!Client, Proved!Client, Pool!Submit, Proved!Submit, Pool!SubmitItems,
         Proved!SubmitItems, Pool!Cancel, Proved!Cancel, Pool!CreateBatch, Proved!CreateBatch,
         Pool!BulkInsertItems, Proved!BulkInsertItems, Pool!CancelBatch, Proved!CancelBatch,
         Pool!WithStatus, Proved!WithStatus, Pool!ItemsOf, Proved!ItemsOf,
         Pool!workerVars, Proved!workerVars, Pool!faultVars, Proved!faultVars
<1>2. Pool!StaleRows = Proved!StaleRows
  BY DEF Pool!StaleRows, Proved!StaleRows, Pool!HeldItems, Proved!HeldItems, Pool!Held,
         Proved!Held, Pool!Recording, Proved!Recording
<1>3. \A S : Pool!CleanStaleLocks(S) => Proved!CleanStaleLocks(S)
  BY <1>2
  DEF Pool!CleanStaleLocks, Proved!CleanStaleLocks, Pool!ResetStaleLocks,
      Proved!ResetStaleLocks, Pool!workerVars, Proved!workerVars, Pool!faultVars,
      Proved!faultVars
<1>4. /\ Pool!Crash(Node) => Proved!Crash(Node)
      /\ Pool!Restart(Node) => Proved!Restart(Node)
  BY DEF Pool!Crash, Proved!Crash, Pool!Restart, Proved!Restart, Pool!storeVars,
         Proved!storeVars, Pool!faultVars, Proved!faultVars
<1> QED
  BY <1>1, <1>2, <1>3, <1>4

(* A step of Processing is a step of its pool, or leaves the pool alone.   *)
LEMMA PoolSteps ==
  ASSUME [Next]_vars
  PROVE  [Proved!Next]_(Proved!vars)
<1>1. ASSUME UNCHANGED poolVars PROVE UNCHANGED Proved!vars
  BY <1>1 DEF poolVars, Proved!vars
<1>2. ASSUME NEW w \in Workers, Proved!Work(w) PROVE Proved!Next
  BY <1>2 DEF Proved!Next
<1>3. ASSUME NEW w \in Workers, NEW r, NEW reply \in [ok : BOOLEAN, fits : {TRUE}],
             Pool!SendItem(w, r, reply)
      PROVE  Proved!Next
  <2>1. r \in rows[w] /\ Proved!SendItem(w, r, reply)
    BY <1>3, SameWork DEF Pool!SendItem
  <2> QED
    BY <1>2, <2>1 DEF Proved!Work
<1>4. ASSUME NEW w \in Workers, Record(w) PROVE Proved!Next
  <2>1. /\ pc[w] # "send"
        /\ \/ Pool!DeadLetter(w) \/ Pool!RecordResult(w) \/ Pool!RecordRefused(w)
           \/ Pool!CountDone(w) \/ Pool!CountFailed(w) \/ Pool!Complete(w) \/ Pool!Enqueue(w)
    BY <1>4 DEF Record, Pool!Work, Pool!SendItem
  <2>2. \/ Proved!DeadLetter(w) \/ Proved!RecordResult(w) \/ Proved!RecordRefused(w)
        \/ Proved!CountDone(w) \/ Proved!CountFailed(w) \/ Proved!Complete(w) \/ Proved!Enqueue(w)
    BY <2>1, SameWork
  <2> QED
    BY <1>2, <2>2 DEF Proved!Work
<1>5. ASSUME NEW w \in Workers, NEW S \in SUBSET PendingRows, Claim(w, S) PROVE Proved!Next
  <2>1. Proved!Claim(w, S) /\ S \in SUBSET Proved!PendingRows
    BY <1>5, SameWork DEF Claim, PendingRows, Proved!PendingRows
  <2> QED
    BY <2>1 DEF Proved!Next
<1>6. ASSUME NEW S \in SUBSET Pool!StaleRows, CleanStaleLocks(S) PROVE Proved!Next
  <2>1. Proved!CleanStaleLocks(S) /\ S \in SUBSET Proved!StaleRows
    BY <1>6, SameOthers DEF CleanStaleLocks
  <2> QED
    BY <2>1 DEF Proved!Next
<1>7. CASE Submit
  BY <1>7, SameOthers DEF Submit, Proved!Next
<1>8. CASE Crash \/ Restart
  BY <1>8, SameOthers DEF Crash, Restart, Proved!Next, Proved!Fault
<1>9. ASSUME NEW w \in Workers, WaitFailed(w) \/ Refused(w) PROVE Proved!Next
  BY <1>3, <1>9 DEF WaitFailed, Refused
<1>10. ASSUME NEW w \in Workers, NEW answer, Answered(w, answer) PROVE Proved!Next
  <2>1. [ok |-> answer = "ok", fits |-> TRUE] \in [ok : BOOLEAN, fits : {TRUE}]
    OBVIOUS
  <2> QED
    BY <1>3, <1>10, <2>1 DEF Answered
<1>11. ASSUME NEW w \in Workers, Ask(w) \/ \E r \in rows[w] : Send(w, r)
       PROVE  UNCHANGED Proved!vars
  BY <1>1, <1>11 DEF Ask, Send
<1>12. CASE Breaker \/ UNCHANGED vars
  BY <1>1, <1>12 DEF Breaker, vars
<1> QED
  BY <1>4, <1>5, <1>6, <1>7, <1>8, <1>9, <1>10, <1>11, <1>12 DEF Next

LEMMA PoolInvStep ==
  ASSUME Proved!ClaimInv, [Next]_vars
  PROVE  Proved!ClaimInv' /\ \A i \in Items : Proved!ItemLives(i)
BY PoolIsConfigured, PoolSteps, Proved!ClaimsFollow

LEMMA PoolInvInit == Init => Proved!ClaimInv
BY PoolIsConfigured, SameInit, Proved!ClaimInvInit DEF Init
-----------------------------------------------------------------------------
(* A worker with an outcome it has yet to record.                          *)
Recording(w) == pc[w] \in {"deadletter", "update"}

(* A call of SendItem is about a row that its worker still has.            *)
CallsAboutRows ==
  /\ callerPc \in [Workers -> {"idle", "waiting", "inFlight"}]
  /\ sending \in [Workers -> Proved!Row \cup {NoJob}]
  /\ \A w \in Workers :
       callerPc[w] # "idle" => pc[w] = "send" /\ sending[w] \in rows[w]

(* System C is up, and no request in flight has met it otherwise.          *)
Well == up /\ \A w \in Workers : FALSE \notin met[w]

(* System C is well until its first outage.                                *)
SystemCOK ==
  /\ asked \in [Items -> Nat]
  /\ processed \in [Items -> Nat]
  /\ outages \in Nat
  /\ up \in BOOLEAN
  /\ met \in [Workers -> SUBSET BOOLEAN]
  /\ outages = 0 => Well

(* A row that is not on its way to System C has cost no try more than its  *)
(* counter says.                                                           *)
RowsUnasked ==
  \A w \in Workers : \A r \in rows[w] :
    ~(callerPc[w] = "inFlight" /\ sending[w] = r) => asked[r.item] <= r.retry

(* A worker that is about to record a success has had System C's answer.   *)
SuccessesProcessed ==
  \A w \in Workers : Recording(w) =>
    /\ job[w].fits
    /\ job[w].status = "done" => processed[job[w].item] > 0

(* An item that no worker holds and whose counter can count no further     *)
(* try: recording its outcome was refused, and so will be resetting it.    *)
OutOfTries(i) ==
  /\ items[i].status = "processing"
  /\ items[i].retry = SmallIntMax
  /\ \A w \in Workers : i \notin Proved!Held(w)

(* An item that will not be sent again, as long as no node goes down.      *)
Settled(i) ==
  \/ items[i].status = "done"
  \/ \E w \in Workers : Recording(w) /\ job[w].item = i /\ job[w].status = "done"
  \/ OutOfTries(i)

ProcessedSettled ==
  outages = 0 /\ crashes = 0 =>
    \A i \in Items : processed[i] <= 1 /\ (processed[i] > 0 => Settled(i))

ProcessingInv ==
  /\ Proved!ClaimInv
  /\ CallsAboutRows
  /\ SystemCOK
  /\ RowsUnasked
  /\ AskedWithinTries
  /\ SuccessesProcessed
  /\ DoneWasProcessed
  /\ ProcessedSettled

LEMMA ProcessingInvInit == Init => ProcessingInv
<1> SUFFICES ASSUME Init PROVE ProcessingInv
  OBVIOUS
<1>1. Proved!ClaimInv
  BY PoolInvInit
<1>2. /\ items = [i \in Items |-> [status |-> "absent", retry |-> 0]]
      /\ pc = [w \in Workers |-> "poll"]
      /\ rows = [w \in Workers |-> {}]
      /\ callerPc = [w \in Workers |-> "idle"]
      /\ outages = 0 /\ up = TRUE
      /\ met = [w \in Workers |-> {}]
      /\ sending = [w \in Workers |-> NoJob]
      /\ asked = [i \in Items |-> 0]
      /\ processed = [i \in Items |-> 0]
  BY DEF Init, Pool!Init, Pool!StoreInit, Client!Init
<1>3. CallsAboutRows /\ SystemCOK
  BY <1>2 DEF CallsAboutRows, SystemCOK, Well
<1>4. RowsUnasked /\ AskedWithinTries
  BY <1>2 DEF RowsUnasked, AskedWithinTries
<1>5. SuccessesProcessed /\ DoneWasProcessed /\ ProcessedSettled
  BY <1>2 DEF SuccessesProcessed, DoneWasProcessed, ProcessedSettled, Recording
<1> QED
  BY <1>1, <1>3, <1>4, <1>5 DEF ProcessingInv

(* What the pool's invariant says of a worker's rows and job.              *)
LEMMA PoolTypes ==
  ASSUME Proved!ClaimInv
  PROVE  /\ items \in [Items -> [status : Proved!ItemStatus \cup {"absent"}, retry : 0..SmallIntMax]]
         /\ pc \in [Workers -> Proved!PC]
         /\ rows \in [Workers -> SUBSET Proved!Row]
         /\ job \in [Workers -> Proved!Job \cup {NoJob}]
         /\ crashes \in Nat
         /\ SmallIntMax \in Nat
BY StoreAssumption, ProcessingAssumption
DEF Proved!ClaimInv, Proved!TypeOK, Proved!StoreTypeOK, Proved!ItemRow

LEMMA RowFacts ==
  ASSUME Proved!ClaimInv, NEW w \in Workers, NEW r \in rows[w]
  PROVE  /\ r \in Proved!Row
         /\ r.item \in Items /\ r.retry \in Nat
         /\ r.item \in Proved!Held(w)
         /\ items[r.item].status = "processing"
         /\ items[r.item].retry = r.retry
<1>1. r \in Proved!Row
  BY PoolTypes
<1>2. r.item \in Items /\ r.retry \in Nat
  BY <1>1, PoolTypes DEF Proved!Row
<1>3. items[r.item] = [status |-> "processing", retry |-> r.retry]
  BY DEF Proved!ClaimInv, Proved!ClaimsCurrent
<1> QED
  BY <1>1, <1>2, <1>3 DEF Proved!Held

LEMMA JobFacts ==
  ASSUME Proved!ClaimInv, NEW w \in Workers, Recording(w)
  PROVE  /\ job[w] \in Proved!Job
         /\ job[w].item \in Items /\ job[w].retry \in 0..SmallIntMax
         /\ job[w].item \in Proved!Held(w)
         /\ items[job[w].item].status = "processing"
         /\ items[job[w].item].retry = job[w].retry
         /\ \A r \in rows[w] : r.item # job[w].item
<1>1. pc[w] \in Proved!Recording
  BY DEF Recording, Proved!Recording
<1>2. job[w] \in Proved!Job
  BY <1>1 DEF Proved!ClaimInv, Proved!RowsOfBusy
<1>3. job[w].item \in Items /\ job[w].retry \in 0..SmallIntMax
  BY <1>2 DEF Proved!Job
<1>4. /\ items[job[w].item] = [status |-> "processing", retry |-> job[w].retry]
      /\ \A r \in rows[w] : r.item # job[w].item
  BY <1>1 DEF Proved!ClaimInv, Proved!ClaimsCurrent
<1> QED
  BY <1>1, <1>2, <1>3, <1>4 DEF Proved!Held

(* Rows of one item are one row of one worker.                             *)
LEMMA OneRowPerItem ==
  ASSUME Proved!ClaimInv, NEW v \in Workers, NEW w \in Workers,
         NEW q \in rows[v], NEW r \in rows[w], q.item = r.item
  PROVE  v = w /\ q = r
<1>1. v = w
  BY RowFacts DEF Proved!ClaimInv, Proved!ClaimsDisjoint
<1>2. q \in Proved!Row /\ r \in Proved!Row /\ q.retry = r.retry
  BY RowFacts
<1> QED
  BY <1>1, <1>2 DEF Proved!Row
-----------------------------------------------------------------------------
(* What the steps of a worker do to the pool.                              *)

(* The answer of SendItem becomes the worker's job.                        *)
TakesAnswer(w, r, ok) ==
  /\ pc[w] = "send" /\ r \in rows[w]
  /\ rows' = [rows EXCEPT ![w] = @ \ {r}]
  /\ Recording(w)'
  /\ job'[w].item = r.item
  /\ job'[w].fits = TRUE
  /\ job'[w].status = "done" <=> ok
  /\ \A v \in Workers \ {w} : pc'[v] = pc[v] /\ job'[v] = job[v]
  /\ items' = items /\ crashes' = crashes

LEMMA SendItemEffect ==
  ASSUME Proved!ClaimInv, NEW w \in Workers, NEW r, NEW ok \in BOOLEAN,
         Pool!SendItem(w, r, [ok |-> ok, fits |-> TRUE])
  PROVE  TakesAnswer(w, r, ok)
<1> DEFINE status == Pool!StatusAfter(ok, r.retry)
<1>1. /\ pc[w] = "send" /\ r \in rows[w]
      /\ rows' = [rows EXCEPT ![w] = @ \ {r}]
      /\ job' = [job EXCEPT ![w] = [item |-> r.item, retry |-> r.retry, status |-> status,
                                    fits |-> TRUE, success |-> 0, failed |-> 0]]
      /\ pc' = [pc EXCEPT ![w] = IF status = "failed" THEN "deadletter" ELSE "update"]
      /\ items' = items /\ crashes' = crashes
  BY DEF Pool!SendItem, Pool!GoTo, Pool!storeVars, Pool!faultVars
<1>2. status = "done" <=> ok
  BY DEF Pool!StatusAfter
<1> HIDE DEF status
<1>3. /\ job'[w].item = r.item /\ job'[w].fits = TRUE /\ job'[w].status = status
      /\ pc'[w] \in {"deadletter", "update"}
      /\ \A v \in Workers \ {w} : pc'[v] = pc[v] /\ job'[v] = job[v]
  BY <1>1, PoolTypes
<1> QED
  BY <1>1, <1>2, <1>3 DEF TakesAnswer, Recording

(* A worker that records moves on with its job, records it, or is refused; *)
(* afterwards it has nothing to record.                                    *)
Records(w) ==
  /\ pc[w] # "send"
  /\ rows' = rows /\ crashes' = crashes
  /\ \A v \in Workers \ {w} : pc'[v] = pc[v] /\ job'[v] = job[v]
  /\ \/ Recording(w) /\ Recording(w)' /\ job'[w] = job[w] /\ items' = items
     \/ /\ Recording(w) /\ ~Recording(w)'
        /\ items' = [items EXCEPT ![job[w].item] = [status |-> job[w].status,
                                                    retry |-> job[w].retry + 1]]
     \/ /\ Recording(w) /\ ~Recording(w)' /\ items' = items
        /\ job[w].fits => job[w].retry + 1 > SmallIntMax
     \/ ~Recording(w) /\ ~Recording(w)' /\ items' = items

LEMMA RecordEffect ==
  ASSUME Proved!ClaimInv, NEW w \in Workers, Record(w)
  PROVE  Records(w)
<1>0. /\ pc \in [Workers -> Proved!PC]
      /\ job \in [Workers -> Proved!Job \cup {NoJob}]
      /\ SmallIntMax \in Nat
  BY PoolTypes
<1>1. pc[w] # "send"
  BY DEF Record
<1>2. CASE Pool!DeadLetter(w)
  BY <1>0, <1>2
  DEF Pool!DeadLetter, Pool!GoTo, Pool!storeVars, Pool!faultVars, Records, Recording
<1>3. CASE Pool!RecordResult(w)
  <2>1. /\ pc[w] = "update" /\ rows' = rows /\ crashes' = crashes
        /\ items' = [items EXCEPT ![job[w].item] = [status |-> job[w].status,
                                                    retry |-> job[w].retry + 1]]
    BY <1>3 DEF Pool!RecordResult, Pool!UpdateItemStatus, Pool!NextItem, Pool!GoTo, Pool!faultVars
  <2>2. /\ pc'[w] \in {"poll", "send", "countDone"}
        /\ \A v \in Workers \ {w} : pc'[v] = pc[v] /\ job'[v] = job[v]
    BY <1>0, <1>3 DEF Pool!RecordResult, Pool!NextItem, Pool!GoTo
  <2> QED
    BY <2>1, <2>2 DEF Records, Recording
<1>4. CASE Pool!RecordRefused(w)
  <2>1. /\ pc[w] = "update" /\ rows' = rows /\ crashes' = crashes /\ items' = items
        /\ ~(job[w].fits /\ job[w].retry + 1 <= SmallIntMax)
    BY <1>4 DEF Pool!RecordRefused, Pool!Storable, Pool!NextItem, Pool!storeVars, Pool!faultVars
  <2>2. /\ pc'[w] \in {"poll", "send"}
        /\ \A v \in Workers \ {w} : pc'[v] = pc[v] /\ job'[v] = job[v]
    BY <1>0, <1>4 DEF Pool!RecordRefused, Pool!NextItem
  <2>3. job[w].retry \in Nat
    BY <2>1, JobFacts DEF Recording
  <2>4. job[w].fits => job[w].retry + 1 > SmallIntMax
    <3>1. CASE ~job[w].fits
      BY <3>1
    <3>2. CASE ~(job[w].retry + 1 <= SmallIntMax)
      BY <1>0, <2>3, <3>2
    <3> QED
      BY <2>1, <3>1, <3>2
  <2> QED
    BY <2>1, <2>2, <2>4 DEF Records, Recording
<1>5. CASE Pool!CountDone(w)
  BY <1>0, <1>5
  DEF Pool!CountDone, Pool!GoTo, Pool!storeVars, Pool!faultVars, Records, Recording
<1>6. CASE Pool!CountFailed(w)
  <2>1. /\ pc[w] = "countFailed" /\ rows' = rows /\ crashes' = crashes /\ items' = items
    BY <1>6 DEF Pool!CountFailed, Pool!NextItem, Pool!storeVars, Pool!faultVars
  <2>2. /\ pc'[w] \in {"poll", "send", "complete"}
        /\ \A v \in Workers \ {w} : pc'[v] = pc[v] /\ job'[v] = job[v]
    BY <1>0, <1>6 DEF Pool!CountFailed, Pool!NextItem, Pool!GoTo
  <2> QED
    BY <2>1, <2>2 DEF Records, Recording
<1>7. CASE Pool!Complete(w)
  BY <1>0, <1>7
  DEF Pool!Complete, Pool!CompleteBatch, Pool!GoTo, Pool!faultVars, Records, Recording
<1>8. CASE Pool!Enqueue(w)
  BY <1>0, <1>8
  DEF Pool!Enqueue, Pool!NextItem, Pool!storeVars, Pool!faultVars, Records, Recording
<1> QED
  BY <1>1, <1>2, <1>3, <1>4, <1>5, <1>6, <1>7, <1>8
  DEF Record, Pool!Work, Pool!SendItem

(* A worker that claims rows was idle.                                     *)
Claims(w, S) ==
  /\ pc[w] = "poll" /\ pc' = [pc EXCEPT ![w] = "send"]
  /\ rows' = [rows EXCEPT ![w] = {[item |-> i, retry |-> items[i].retry] : i \in S}]
  /\ job' = job /\ crashes' = crashes
  /\ S \subseteq Items
  /\ \A i \in S : items[i].status = "pending"
  /\ \A i \in Items : items'[i].status = "done" => items[i].status = "done"

LEMMA ClaimEffect ==
  ASSUME NEW w \in Workers, NEW S, Claim(w, S)
  PROVE  Claims(w, S)
BY DEF Claim, Pool!Claim, Pool!GetPendingItems, Pool!PendingRows, Pool!Rows, Pool!GoTo,
       Pool!faultVars, Claims

(* Clients and cleaners leave the workers alone.                           *)
LeavesWorkers ==
  /\ pc' = pc /\ rows' = rows /\ job' = job /\ crashes' = crashes
  /\ \A i \in Items : items'[i].status = "done" => items[i].status = "done"

LEMMA SubmitEffect ==
  ASSUME Proved!ClaimInv, Submit
  PROVE  LeavesWorkers
<1>1. pc' = pc /\ rows' = rows /\ job' = job /\ crashes' = crashes
  BY DEF Submit, Pool!Client, Pool!Submit, Pool!SubmitItems, Pool!Cancel, Pool!workerVars,
         Pool!faultVars
<1>2. \/ items' = items
      \/ \E b \in Batches : Pool!BulkInsertItems(b) \/ Pool!CancelBatch(b)
  BY DEF Submit, Pool!Client, Pool!Submit, Pool!SubmitItems, Pool!Cancel, Pool!CreateBatch
<1>3. ASSUME NEW i \in Items, items'[i].status = "done" PROVE items[i].status = "done"
  <2>1. items[i] \in [status : Proved!ItemStatus \cup {"absent"}, retry : 0..SmallIntMax]
    BY PoolTypes
  <2>2. [items[i] EXCEPT !.status = "cancelled"].status = "cancelled"
    BY <2>1
  <2>3. ASSUME NEW b \in Batches, Pool!BulkInsertItems(b)
        PROVE  items'[i] = items[i] \/ items'[i].status = "pending"
    BY <2>3 DEF Pool!BulkInsertItems
  <2>4. ASSUME NEW b \in Batches, Pool!CancelBatch(b)
        PROVE  items'[i] = items[i] \/ items'[i].status = "cancelled"
    <3>1. \/ items'[i] = [items[i] EXCEPT !.status = "cancelled"]
          \/ items'[i] = items[i]
      BY <2>4 DEF Pool!CancelBatch
    <3> QED
      BY <2>2, <3>1
  <2>5. items' = items \/ items'[i] = items[i] \/ items'[i].status \in {"pending", "cancelled"}
    BY <1>2, <2>3, <2>4
  <2> QED
    BY <1>3, <2>5
<1> QED
  BY <1>1, <1>3 DEF LeavesWorkers

LEMMA CleanEffect == \A S : CleanStaleLocks(S) => LeavesWorkers
BY DEF CleanStaleLocks, Pool!CleanStaleLocks, Pool!ResetStaleLocks, Pool!workerVars,
       Pool!faultVars, LeavesWorkers

LEMMA CrashEffect ==
  ASSUME Proved!ClaimInv, Crash
  PROVE  /\ pc' = [w \in Workers |-> "down"]
         /\ rows' = [w \in Workers |-> {}]
         /\ items' = items /\ crashes' = crashes + 1
         /\ callerPc' = [w \in Workers |-> "idle"]
         /\ sending' = [w \in Workers |-> NoJob]
         /\ met' = [w \in Workers |-> {}]
         /\ UNCHANGED <<asked, up, outages>>
         /\ \E S : processed' = [i \in Items |-> IF i \in S THEN processed[i] + 1 ELSE processed[i]]
<1>1. Pool!Crash(Node) /\ \A w \in Workers : [v \in Workers |-> Node][w] = Node
  BY DEF Crash
<1> QED
  BY <1>1 DEF Crash, Pool!Crash, Pool!storeVars, systemCVars
-----------------------------------------------------------------------------
(* The kinds of steps, by what they do to the pool and to System C.        *)
CallsNobody == UNCHANGED <<callerPc, sending, asked, processed, met, up, outages>>

(* What the requests in flight have met of System C.                       *)
Meets ==
  /\ up' \in BOOLEAN
  /\ met' \in [Workers -> SUBSET BOOLEAN]
  /\ outages' = outages /\ Well => Well'

LeavesPool == UNCHANGED <<items, pc, rows, job, crashes>>

Starts(w, r) ==
  /\ pc[w] = "send" /\ r \in rows[w]
  /\ callerPc[w] = "idle" /\ callerPc' = [callerPc EXCEPT ![w] = "waiting"]
  /\ sending' = [sending EXCEPT ![w] = r]
  /\ LeavesPool /\ UNCHANGED <<asked, processed, outages>> /\ Meets

Asks(w) ==
  /\ callerPc[w] = "waiting" /\ callerPc' = [callerPc EXCEPT ![w] = "inFlight"]
  /\ asked' = [asked EXCEPT ![sending[w].item] = @ + 1]
  /\ LeavesPool /\ UNCHANGED <<sending, processed, outages>> /\ Meets

(* While System C has had no outage, no success is lost on the way.        *)
AnswerIn(w, ok, n) ==
  /\ callerPc[w] # "idle" /\ callerPc' = [callerPc EXCEPT ![w] = "idle"]
  /\ TakesAnswer(w, sending[w], ok)
  /\ sending' = [sending EXCEPT ![w] = NoJob]
  /\ processed' = [processed EXCEPT ![sending[w].item] = @ + n]
  /\ ok => n = 1
  /\ outages = 0 /\ n = 1 => ok
  /\ UNCHANGED <<asked, outages>> /\ Meets

(* The node goes down with everything it was at.                           *)
GoesDown ==
  /\ pc' = [w \in Workers |-> "down"]
  /\ rows' = [w \in Workers |-> {}]
  /\ items' = items /\ crashes' = crashes + 1
  /\ callerPc' = [w \in Workers |-> "idle"]
  /\ sending' = [w \in Workers |-> NoJob]
  /\ UNCHANGED <<asked, outages>> /\ Meets
  /\ \E S : processed' = [i \in Items |-> IF i \in S THEN processed[i] + 1 ELSE processed[i]]

ComesBack ==
  /\ pc' = [w \in Workers |-> IF pc[w] = "down" THEN "poll" ELSE pc[w]]
  /\ UNCHANGED <<items, rows, job, crashes>>

(* The breaker moves by itself, or System C goes down or comes back.       *)
Elsewhere ==
  /\ LeavesPool /\ UNCHANGED <<callerPc, sending, asked, processed>>
  /\ outages' \in {outages, outages + 1}
  /\ Meets

StepKind ==
  \/ \E w \in Workers : \E r \in rows[w] : Starts(w, r)
  \/ \E w \in Workers : Asks(w)
  \/ \E w \in Workers, ok \in BOOLEAN, n \in {0, 1} : AnswerIn(w, ok, n)
  \/ \E w \in Workers : Records(w) /\ CallsNobody
  \/ \E w \in Workers, S \in SUBSET Items : Claims(w, S) /\ CallsNobody
  \/ LeavesWorkers /\ CallsNobody
  \/ GoesDown
  \/ ComesBack /\ CallsNobody
  \/ Elsewhere

LEMMA CallKinds ==
  ASSUME ProcessingInv, NEW w \in Workers
  PROVE  /\ \A r \in rows[w] : Send(w, r) => StepKind
         /\ Ask(w) => StepKind
         /\ WaitFailed(w) \/ Refused(w) => StepKind
         /\ \A answer \in Client!Answer : Answered(w, answer) => StepKind
<1>0. up \in BOOLEAN /\ met \in [Workers -> SUBSET BOOLEAN] /\ (outages = 0 => Well)
  BY DEF ProcessingInv, SystemCOK
<1>1. ASSUME NEW r \in rows[w], Send(w, r) PROVE Starts(w, r)
  <2>1. Meets
    BY <1>0, <1>1 DEF Send, Client!Wait, systemCVars, Meets, Well
  <2> QED
    BY <1>1, <2>1
    DEF Send, Client!Wait, poolVars, systemCVars, Client!systemCVars, Starts, LeavesPool
<1>2. ASSUME Ask(w) PROVE Asks(w)
  <2>1. met' = [met EXCEPT ![w] = {up}] /\ up' = up /\ outages' = outages
    BY <1>2 DEF Ask, Client!Admit, Client!systemCVars
  <2>2. Meets
    BY <1>0, <2>1 DEF Meets, Well
  <2> QED
    BY <1>2, <2>2
    DEF Ask, Client!Admit, poolVars, systemCVars, Client!systemCVars, Asks, LeavesPool
<1>3. ASSUME WaitFailed(w) \/ Refused(w) PROVE AnswerIn(w, FALSE, 0)
  <2>1. TakesAnswer(w, sending[w], FALSE)
    BY <1>3, SendItemEffect DEF WaitFailed, Refused, ProcessingInv
  <2>2. sending[w].item \in Items
    BY <2>1, RowFacts DEF TakesAnswer, ProcessingInv
  <2>3. processed = [processed EXCEPT ![sending[w].item] = @ + 0]
    BY <2>2 DEF ProcessingInv, SystemCOK
  <2>4. /\ callerPc[w] # "idle" /\ callerPc' = [callerPc EXCEPT ![w] = "idle"]
        /\ sending' = [sending EXCEPT ![w] = NoJob]
        /\ processed' = processed
        /\ UNCHANGED <<asked, met, up, outages>>
    BY <1>3 DEF WaitFailed, Client!WaitFails, Refused, Client!Refuse, Client!systemCVars
  <2>5. processed' = [processed EXCEPT ![sending[w].item] = @ + 0]
    BY <2>3, <2>4, Zenon
  <2>6. 0 # 1
    OBVIOUS
  <2>7. Meets
    BY <1>0, <2>4 DEF Meets, Well
  <2> QED
    BY <2>1, <2>4, <2>5, <2>6, <2>7, Zenon DEF AnswerIn
<1>4. ASSUME NEW answer \in Client!Answer, Answered(w, answer)
      PROVE  \E ok \in BOOLEAN, n \in {0, 1} : AnswerIn(w, ok, n)
  <2>1. PICK n \in Effect(answer) : processed' = [processed EXCEPT ![sending[w].item] = @ + n]
    BY <1>4 DEF Answered
  <2>2. n \in {0, 1} /\ (answer = "ok" => n = 1)
        /\ (n = 1 => answer \in {"ok", "noAnswer"})
    BY <2>1 DEF Effect
  <2>3. answer = "noAnswer" => FALSE \in met[w]
    BY <1>4 DEF Answered, Client!Return, Client!Possible, Client!ItemFault
  <2>4. outages = 0 /\ n = 1 => answer = "ok"
    BY <1>0, <2>2, <2>3 DEF Well
  <2>5. (answer = "ok") \in BOOLEAN
    OBVIOUS
  <2>6. TakesAnswer(w, sending[w], answer = "ok")
    BY <1>4, <2>5, SendItemEffect DEF Answered, ProcessingInv
  <2>7. met' = [met EXCEPT ![w] = {}] /\ up' = up /\ outages' = outages
    BY <1>4 DEF Answered, Client!Return, Client!systemCVars
  <2>8. Meets
    BY <1>0, <2>7 DEF Meets, Well
  <2>9. AnswerIn(w, answer = "ok", n)
    BY <1>4, <2>1, <2>2, <2>4, <2>6, <2>8
    DEF Answered, Client!Return, Client!systemCVars, AnswerIn
  <2> QED
    BY <2>2, <2>5, <2>9
<1> QED
  BY <1>1, <1>2, <1>3, <1>4 DEF StepKind

LEMMA OtherKinds ==
  ASSUME ProcessingInv
  PROVE  /\ \A w \in Workers : Record(w) => StepKind
         /\ \A w \in Workers, S \in SUBSET PendingRows : Claim(w, S) => StepKind
         /\ Submit \/ (\E S : CleanStaleLocks(S)) \/ UNCHANGED vars => StepKind
         /\ Breaker \/ Crash \/ Restart => StepKind
<1> USE DEF ProcessingInv
<1>0. UNCHANGED <<breakerVars, systemCVars, effectVars>> => CallsNobody
  BY DEF breakerVars, systemCVars, effectVars, CallsNobody
<1>1. ASSUME NEW w \in Workers, Record(w) PROVE StepKind
  BY <1>0, <1>1, RecordEffect DEF Record, StepKind
<1>2. ASSUME NEW w \in Workers, NEW S \in SUBSET PendingRows, Claim(w, S) PROVE StepKind
  <2>1. S \in SUBSET Items
    BY DEF PendingRows
  <2> QED
    BY <1>0, <1>2, <2>1, ClaimEffect DEF Claim, StepKind
<1>3. CASE Submit
  BY <1>0, <1>3, SubmitEffect DEF Submit, StepKind
<1>4. CASE \E S : CleanStaleLocks(S)
  BY <1>0, <1>4, CleanEffect DEF CleanStaleLocks, StepKind
<1>5. CASE UNCHANGED vars
  BY <1>0, <1>5 DEF vars, poolVars, LeavesWorkers, StepKind
<1>6. CASE Breaker
  <2>1. UNCHANGED <<poolVars, effectVars>> /\ callerPc' = callerPc
    BY <1>6 DEF Breaker, Client!WindowEnds, Client!OpenTimeout, Client!Outage, Client!Recovery
  <2>2. ASSUME outages' = outages + 1 /\ Client!MeetsItNow /\ up' = FALSE PROVE Meets
    <3>1. outages' # outages
      BY <2>2 DEF SystemCOK
    <3>2. met' \in [Workers -> SUBSET BOOLEAN]
      BY <2>2 DEF SystemCOK, Client!MeetsItNow
    <3>3. up' \in BOOLEAN
      BY <2>2
    <3> QED
      BY <3>1, <3>2, <3>3, Zenon DEF Meets
  <2>3. ASSUME outages' = outages /\ Client!MeetsItNow /\ up' = TRUE PROVE Meets
    <3>1. met' = [w \in Workers |-> IF w \in Client!InFlight THEN met[w] \cup {TRUE} ELSE met[w]]
      BY <2>3, Zenon DEF Client!MeetsItNow
    <3>2. met' \in [Workers -> SUBSET BOOLEAN]
      BY <3>1 DEF SystemCOK
    <3>3. ASSUME NEW w \in Workers, FALSE \notin met[w] PROVE FALSE \notin met'[w]
      BY <3>1, <3>3
    <3>4. up' \in BOOLEAN /\ up'
      BY <2>3
    <3> QED
      BY <3>2, <3>3, <3>4 DEF Meets, Well
  <2>4. ASSUME UNCHANGED <<met, up, outages>> PROVE Meets
    BY <2>4 DEF SystemCOK, Meets, Well
  <2>5. \/ outages' = outages + 1 /\ Client!MeetsItNow /\ up' = FALSE
        \/ outages' = outages /\ Client!MeetsItNow /\ up' = TRUE
        \/ UNCHANGED <<met, up, outages>>
    BY <1>6
    DEF Breaker, Client!WindowEnds, Client!OpenTimeout, Client!Outage, Client!Recovery,
        Client!systemCVars
  <2>6. outages' \in {outages, outages + 1}
    BY <2>5
  <2>7. Meets
    BY <2>2, <2>3, <2>4, <2>5, Zenon
  <2> QED
    BY <2>1, <2>6, <2>7 DEF poolVars, effectVars, Elsewhere, LeavesPool, StepKind
<1>7. CASE Crash
  <2>1. met' = [w \in Workers |-> {}] /\ up' = up /\ outages' = outages
    BY <1>7, CrashEffect
  <2>2. Meets
    BY <2>1 DEF Meets, Well, SystemCOK
  <2> QED
    BY <1>7, <2>2, CrashEffect DEF GoesDown, StepKind
<1>8. CASE Restart
  BY <1>0, <1>8
  DEF Restart, Pool!Restart, Pool!storeVars, Pool!faultVars, ComesBack, StepKind
<1> QED
  BY <1>1, <1>2, <1>3, <1>4, <1>5, <1>6, <1>7, <1>8

LEMMA StepKinds ==
  ASSUME ProcessingInv, [Next]_vars
  PROVE  StepKind
<1>1. CASE \E w \in Workers : \/ \E r \in rows[w] : Send(w, r)
                              \/ Ask(w)
                              \/ WaitFailed(w) \/ Refused(w)
                              \/ \E answer \in Client!Answer : Answered(w, answer)
  BY <1>1, CallKinds
<1>2. CASE \/ \E w \in Workers : Record(w)
           \/ \E w \in Workers, S \in SUBSET PendingRows : Claim(w, S)
           \/ Submit \/ (\E S : CleanStaleLocks(S)) \/ UNCHANGED vars
           \/ Breaker \/ Crash \/ Restart
  BY <1>2, OtherKinds
<1> QED
  BY <1>1, <1>2 DEF Next
-----------------------------------------------------------------------------
LEMMA CallsStep ==
  ASSUME ProcessingInv, [Next]_vars
  PROVE  CallsAboutRows'
<1>1. /\ callerPc \in [Workers -> {"idle", "waiting", "inFlight"}]
      /\ sending \in [Workers -> Proved!Row \cup {NoJob}]
      /\ \A w \in Workers : callerPc[w] # "idle" => pc[w] = "send" /\ sending[w] \in rows[w]
      /\ pc \in [Workers -> Proved!PC]
      /\ rows \in [Workers -> SUBSET Proved!Row]
  BY PoolTypes DEF ProcessingInv, CallsAboutRows
<1> USE <1>1 DEF CallsAboutRows
<1>2. ASSUME NEW w \in Workers, NEW r \in rows[w], Starts(w, r) PROVE CallsAboutRows'
  BY <1>2 DEF Starts, LeavesPool
<1>3. ASSUME NEW w \in Workers, Asks(w) PROVE CallsAboutRows'
  BY <1>3 DEF Asks, LeavesPool
<1>4. ASSUME NEW w \in Workers, NEW ok \in BOOLEAN, NEW n \in {0, 1}, AnswerIn(w, ok, n)
      PROVE  CallsAboutRows'
  <2>1. /\ callerPc' = [callerPc EXCEPT ![w] = "idle"]
        /\ sending' = [sending EXCEPT ![w] = NoJob]
        /\ \A v \in Workers \ {w} : pc'[v] = pc[v] /\ rows'[v] = rows[v]
    BY <1>4 DEF AnswerIn, TakesAnswer
  <2> QED
    BY <2>1
<1>5. ASSUME NEW w \in Workers, Records(w), CallsNobody PROVE CallsAboutRows'
  <2>1. /\ callerPc' = callerPc /\ sending' = sending /\ rows' = rows /\ pc[w] # "send"
        /\ \A v \in Workers \ {w} : pc'[v] = pc[v]
    BY <1>5 DEF Records, CallsNobody
  <2> QED
    BY <2>1
<1>6. ASSUME NEW w \in Workers, NEW S \in SUBSET Items, Claims(w, S), CallsNobody
      PROVE  CallsAboutRows'
  BY <1>6 DEF Claims, CallsNobody
<1>7. CASE LeavesWorkers /\ CallsNobody
  BY <1>7 DEF LeavesWorkers, CallsNobody
<1>8. CASE GoesDown
  BY <1>8 DEF GoesDown
<1>9. CASE ComesBack /\ CallsNobody
  BY <1>9 DEF ComesBack, CallsNobody
<1>10. CASE Elsewhere
  BY <1>10 DEF Elsewhere, LeavesPool
<1> QED
  BY StepKinds, <1>2, <1>3, <1>4, <1>5, <1>6, <1>7, <1>8, <1>9, <1>10 DEF StepKind

(* The row of a call that is under way.                                    *)
LEMMA CallFacts ==
  ASSUME ProcessingInv, NEW w \in Workers, callerPc[w] # "idle"
  PROVE  /\ pc[w] = "send" /\ sending[w] \in rows[w]
         /\ sending[w].item \in Items /\ sending[w].retry \in Nat
         /\ items[sending[w].item].status = "processing"
         /\ items[sending[w].item].retry = sending[w].retry
         /\ sending[w].item \in Proved!Held(w)
<1>1. pc[w] = "send" /\ sending[w] \in rows[w]
  BY DEF ProcessingInv, CallsAboutRows
<1> QED
  BY <1>1, RowFacts DEF ProcessingInv

LEMMA SystemCStep ==
  ASSUME ProcessingInv, [Next]_vars
  PROVE  SystemCOK'
<1> USE DEF SystemCOK
<1>1. SystemCOK
  BY DEF ProcessingInv
<1>8. ASSUME Meets, outages' = outages
      PROVE  /\ up' \in BOOLEAN /\ met' \in [Workers -> SUBSET BOOLEAN]
             /\ outages' = 0 => Well'
  BY <1>1, <1>8 DEF Meets
<1>2. CASE \E w \in Workers : \E r \in rows[w] : Starts(w, r)
  BY <1>1, <1>2, <1>8 DEF Starts
<1>3. ASSUME NEW w \in Workers, Asks(w) PROVE SystemCOK'
  <2>1. asked' = [asked EXCEPT ![sending[w].item] = asked[sending[w].item] + 1]
    BY <1>3 DEF Asks
  <2>2. sending[w].item \in Items
    BY <1>3, CallFacts DEF Asks
  <2>3. asked[sending[w].item] + 1 \in Nat
    BY <1>1, <2>2
  <2>4. asked' \in [Items -> Nat]
    BY <1>1, <2>1, <2>3
  <2> QED
    BY <1>1, <1>3, <1>8, <2>4 DEF Asks
<1>4. ASSUME NEW w \in Workers, NEW ok \in BOOLEAN, NEW n \in {0, 1}, AnswerIn(w, ok, n)
      PROVE  SystemCOK'
  <2>1. processed' = [processed EXCEPT ![sending[w].item] = processed[sending[w].item] + n]
    BY <1>4 DEF AnswerIn
  <2>2. sending[w].item \in Items
    BY <1>4, CallFacts DEF AnswerIn
  <2>3. processed[sending[w].item] + n \in Nat
    BY <1>1, <2>2
  <2>4. processed' \in [Items -> Nat]
    BY <1>1, <2>1, <2>3
  <2> QED
    BY <1>1, <1>4, <1>8, <2>4 DEF AnswerIn
<1>5. CASE CallsNobody
  BY <1>1, <1>5 DEF CallsNobody, Well
<1>6. CASE GoesDown
  <2>1. processed' \in [Items -> Nat]
    BY <1>1, <1>6 DEF GoesDown
  <2> QED
    BY <1>1, <1>6, <1>8, <2>1 DEF GoesDown
<1>7. CASE Elsewhere
  <2>1. outages' \in Nat /\ (outages' = 0 => outages' = outages /\ outages = 0)
    BY <1>1, <1>7 DEF Elsewhere
  <2> QED
    BY <1>1, <1>7, <2>1 DEF Elsewhere, Meets
<1> QED
  BY StepKinds, <1>2, <1>3, <1>4, <1>5, <1>6, <1>7 DEF StepKind

(* System C is asked about a row that has a try left for it.               *)
LEMMA AskedStep ==
  ASSUME ProcessingInv, [Next]_vars
  PROVE  AskedWithinTries'
<1> DEFINE Bound(i) ==
      items[i].retry + (IF items[i].status = "processing" THEN 1 ELSE 0)
<1>1. /\ \A i \in Items : asked[i] \in Nat /\ items[i].retry \in Nat /\ asked[i] <= Bound(i)
      /\ asked \in [Items -> Nat]
  BY PoolTypes DEF ProcessingInv, SystemCOK, AskedWithinTries
<1>2. \A i \in Items : items'[i].retry \in Nat
  BY PoolInvStep, StoreAssumption
  DEF ProcessingInv, Proved!ClaimInv, Proved!TypeOK, Proved!StoreTypeOK, Proved!ItemRow
<1>3. ASSUME asked' = asked PROVE AskedWithinTries'
  <2>1. ASSUME NEW i \in Items PROVE asked'[i] <= Bound(i)'
    <3>1. Proved!ItemLives(i)
      BY PoolInvStep DEF ProcessingInv
    <3> QED
      BY <1>1, <1>2, <1>3, <3>1 DEF Proved!ItemLives
  <2> QED
    BY <2>1 DEF AskedWithinTries
<1>4. ASSUME NEW w \in Workers, Asks(w) PROVE AskedWithinTries'
  <2> DEFINE r == sending[w]
  <2>1. /\ callerPc[w] = "waiting" /\ asked' = [asked EXCEPT ![r.item] = @ + 1]
        /\ items' = items
    BY <1>4 DEF Asks, LeavesPool
  <2>2. /\ r \in rows[w] /\ r.item \in Items
        /\ items[r.item].status = "processing" /\ items[r.item].retry = r.retry
    BY <2>1, CallFacts
  <2>3. asked[r.item] <= r.retry
    BY <2>1, <2>2 DEF ProcessingInv, RowsUnasked
  <2> HIDE DEF r
  <2>4. ASSUME NEW i \in Items PROVE asked'[i] <= Bound(i)'
    <3>1. CASE i = r.item
      BY <1>1, <2>1, <2>2, <2>3, <3>1
    <3>2. CASE i # r.item
      BY <1>1, <2>1, <3>2
    <3> QED
      BY <3>1, <3>2
  <2> QED
    BY <2>4 DEF AskedWithinTries
<1>5. asked' = asked \/ \E w \in Workers : Asks(w)
  BY StepKinds DEF StepKind, Starts, AnswerIn, CallsNobody, GoesDown, Elsewhere
<1> QED
  BY <1>3, <1>4, <1>5

LEMMA RowsStep ==
  ASSUME ProcessingInv, [Next]_vars
  PROVE  RowsUnasked'
<1>1. /\ \A w \in Workers : \A r \in rows[w] :
           ~(callerPc[w] = "inFlight" /\ sending[w] = r) => asked[r.item] <= r.retry
      /\ asked \in [Items -> Nat]
      /\ rows \in [Workers -> SUBSET Proved!Row]
      /\ callerPc \in [Workers -> {"idle", "waiting", "inFlight"}]
      /\ sending \in [Workers -> Proved!Row \cup {NoJob}]
  BY PoolTypes DEF ProcessingInv, RowsUnasked, SystemCOK, CallsAboutRows
<1>2. ASSUME NEW w \in Workers, NEW r \in rows[w], Starts(w, r) PROVE RowsUnasked'
  BY <1>1, <1>2 DEF Starts, LeavesPool, RowsUnasked
<1>3. ASSUME NEW w \in Workers, Asks(w) PROVE RowsUnasked'
  <2>1. /\ callerPc[w] = "waiting" /\ callerPc' = [callerPc EXCEPT ![w] = "inFlight"]
        /\ asked' = [asked EXCEPT ![sending[w].item] = @ + 1]
        /\ rows' = rows /\ sending' = sending
    BY <1>3 DEF Asks, LeavesPool
  <2>2. sending[w] \in rows[w] /\ sending[w].item \in Items
    BY <2>1, CallFacts
  <2>3. ASSUME NEW v \in Workers, NEW q \in rows[v],
               ~(callerPc'[v] = "inFlight" /\ sending'[v] = q)
        PROVE  asked'[q.item] <= q.retry
    <3>1. q.item # sending[w].item
      <4>1. SUFFICES ASSUME q.item = sending[w].item PROVE FALSE
        OBVIOUS
      <4>2. v = w /\ q = sending[w]
        BY <2>2, <4>1, OneRowPerItem DEF ProcessingInv
      <4> QED
        BY <1>1, <2>1, <2>3, <4>2
    <3>2. asked'[q.item] = asked[q.item]
      BY <1>1, <2>1, <3>1
    <3>3. ~(callerPc[v] = "inFlight" /\ sending[v] = q)
      BY <1>1, <2>1, <2>3
    <3> QED
      BY <1>1, <3>2, <3>3
  <2> QED
    BY <2>1, <2>3 DEF RowsUnasked
<1>4. ASSUME NEW w \in Workers, NEW ok \in BOOLEAN, NEW n \in {0, 1}, AnswerIn(w, ok, n)
      PROVE  RowsUnasked'
  <2>1. /\ callerPc' = [callerPc EXCEPT ![w] = "idle"]
        /\ rows' = [rows EXCEPT ![w] = @ \ {sending[w]}]
        /\ sending' = [sending EXCEPT ![w] = NoJob]
        /\ asked' = asked
    BY <1>4 DEF AnswerIn, TakesAnswer
  <2>2. ASSUME NEW v \in Workers, NEW q \in rows'[v],
               ~(callerPc'[v] = "inFlight" /\ sending'[v] = q)
        PROVE  asked'[q.item] <= q.retry
    <3>1. q \in rows[v] /\ ~(callerPc[v] = "inFlight" /\ sending[v] = q)
      BY <1>1, <2>1, <2>2
    <3> QED
      BY <1>1, <2>1, <3>1
  <2> QED
    BY <2>2 DEF RowsUnasked
<1>5. ASSUME NEW w \in Workers, NEW S \in SUBSET Items, Claims(w, S), CallsNobody
      PROVE  RowsUnasked'
  <2>1. /\ rows' = [rows EXCEPT ![w] = {[item |-> i, retry |-> items[i].retry] : i \in S}]
        /\ asked' = asked /\ callerPc' = callerPc /\ sending' = sending
        /\ \A i \in S : items[i].status = "pending"
    BY <1>5 DEF Claims, CallsNobody
  <2>2. \A i \in S : asked[i] <= items[i].retry
    <3>1. ASSUME NEW i \in S PROVE asked[i] <= items[i].retry
      <4>1. i \in Items /\ items[i].retry \in Nat /\ items[i].status # "processing"
        BY <2>1, PoolTypes DEF ProcessingInv
      <4> QED
        BY <4>1 DEF ProcessingInv, AskedWithinTries
    <3> QED
      BY <3>1
  <2>3. ASSUME NEW v \in Workers, NEW q \in rows'[v],
               ~(callerPc'[v] = "inFlight" /\ sending'[v] = q)
        PROVE  asked'[q.item] <= q.retry
    <3>1. CASE v = w
      <4>1. PICK i \in S : q = [item |-> i, retry |-> items[i].retry]
        BY <1>1, <2>1, <3>1
      <4> QED
        BY <2>1, <2>2, <4>1
    <3>2. CASE v # w
      BY <1>1, <2>1, <2>3, <3>2
    <3> QED
      BY <3>1, <3>2
  <2> QED
    BY <2>3 DEF RowsUnasked
<1>6. CASE CallsNobody /\ rows' = rows
  BY <1>1, <1>6 DEF CallsNobody, RowsUnasked
<1>7. CASE GoesDown
  BY <1>7 DEF GoesDown, RowsUnasked
<1>8. CASE Elsewhere
  BY <1>1, <1>8 DEF Elsewhere, LeavesPool, RowsUnasked
<1>9. CASE \/ \E w \in Workers : Records(w) /\ CallsNobody
           \/ LeavesWorkers /\ CallsNobody
           \/ ComesBack /\ CallsNobody
  BY <1>6, <1>9 DEF Records, LeavesWorkers, ComesBack
<1> QED
  BY StepKinds, <1>2, <1>3, <1>4, <1>5, <1>7, <1>8, <1>9 DEF StepKind
-----------------------------------------------------------------------------
LEMMA ProcessedGrows ==
  ASSUME ProcessingInv, [Next]_vars, NEW i \in Items
  PROVE  processed[i] \in Nat /\ processed'[i] >= processed[i]
<1>1. processed \in [Items -> Nat]
  BY DEF ProcessingInv, SystemCOK
<1>2. CASE \E w \in Workers, ok \in BOOLEAN, n \in {0, 1} : AnswerIn(w, ok, n)
  <2>1. PICK w \in Workers, n \in {0, 1} :
          processed' = [processed EXCEPT ![sending[w].item] = @ + n]
    BY <1>2 DEF AnswerIn
  <2> QED
    BY <1>1, <2>1
<1>3. CASE GoesDown
  <2>1. PICK S : processed' = [j \in Items |-> IF j \in S THEN processed[j] + 1 ELSE processed[j]]
    BY <1>3 DEF GoesDown
  <2> QED
    BY <1>1, <2>1
<1>4. CASE processed' = processed
  BY <1>1, <1>4
<1> QED
  BY StepKinds, <1>2, <1>3, <1>4 DEF StepKind, Starts, Asks, CallsNobody, Elsewhere

(* An outcome to record is an old one, or the answer that has just come.   *)
LEMMA OutcomeFromAnswer ==
  ASSUME ProcessingInv, [Next]_vars, NEW v \in Workers, Recording(v)'
  PROVE  \/ Recording(v) /\ job'[v] = job[v]
         \/ \E ok \in BOOLEAN, n \in {0, 1} : AnswerIn(v, ok, n)
<1>1. pc \in [Workers -> Proved!PC]
  BY PoolTypes DEF ProcessingInv
<1>2. CASE LeavesPool
  BY <1>2 DEF LeavesPool, Recording
<1>3. ASSUME NEW w \in Workers, NEW ok \in BOOLEAN, NEW n \in {0, 1}, AnswerIn(w, ok, n), v # w
      PROVE  Recording(v) /\ job'[v] = job[v]
  BY <1>3 DEF AnswerIn, TakesAnswer, Recording
<1>4. ASSUME NEW w \in Workers, Records(w) PROVE Recording(v) /\ job'[v] = job[v]
  BY <1>4 DEF Records, Recording
<1>5. ASSUME NEW w \in Workers, NEW S, Claims(w, S) PROVE Recording(v) /\ job'[v] = job[v]
  BY <1>1, <1>5 DEF Claims, Recording
<1>6. CASE LeavesWorkers
  BY <1>6 DEF LeavesWorkers, Recording
<1>7. CASE GoesDown
  BY <1>7 DEF GoesDown, Recording
<1>8. CASE ComesBack
  BY <1>8 DEF ComesBack, Recording
<1> QED
  BY StepKinds, <1>2, <1>3, <1>4, <1>5, <1>6, <1>7, <1>8
  DEF StepKind, Starts, Asks, Elsewhere

(* An item becomes done when a worker records its success.                 *)
LEMMA DoneByRecording ==
  ASSUME ProcessingInv, [Next]_vars, NEW i \in Items, items'[i].status = "done"
  PROVE  \/ items[i].status = "done"
         \/ \E w \in Workers : Recording(w) /\ job[w].item = i /\ job[w].status = "done"
<1>1. items \in [Items -> [status : Proved!ItemStatus \cup {"absent"}, retry : 0..SmallIntMax]]
  BY PoolTypes DEF ProcessingInv
<1>2. CASE items' = items
  BY <1>2
<1>3. ASSUME NEW w \in Workers, Recording(w),
             items' = [items EXCEPT ![job[w].item] = [status |-> job[w].status,
                                                      retry |-> job[w].retry + 1]]
      PROVE  items[i].status = "done" \/ (job[w].item = i /\ job[w].status = "done")
  BY <1>1, <1>3
<1>4. ASSUME NEW w \in Workers, NEW S, Claims(w, S) PROVE items[i].status = "done"
  BY <1>4 DEF Claims
<1>5. CASE LeavesWorkers
  BY <1>5 DEF LeavesWorkers
<1> QED
  BY StepKinds, <1>2, <1>3, <1>4, <1>5
  DEF StepKind, Starts, Asks, AnswerIn, TakesAnswer, Records, GoesDown, ComesBack,
      Elsewhere, LeavesPool

LEMMA SuccessStep ==
  ASSUME ProcessingInv, [Next]_vars
  PROVE  SuccessesProcessed' /\ DoneWasProcessed'
<1>1. /\ SuccessesProcessed /\ DoneWasProcessed
      /\ processed \in [Items -> Nat]
  BY DEF ProcessingInv, SystemCOK
<1>2. \A i \in Items : processed[i] \in Nat /\ processed'[i] \in Nat /\ processed'[i] >= processed[i]
  BY ProcessedGrows, SystemCStep DEF SystemCOK
<1>3. ASSUME NEW v \in Workers, Recording(v)'
      PROVE  job'[v].fits /\ (job'[v].status = "done" => processed'[job'[v].item] > 0)
  <2>1. CASE Recording(v) /\ job'[v] = job[v]
    <3>1. job[v].item \in Items
      BY <2>1, JobFacts DEF ProcessingInv
    <3>2. job[v].fits /\ (job[v].status = "done" => processed[job[v].item] > 0)
      BY <1>1, <2>1 DEF SuccessesProcessed
    <3>3. processed[job[v].item] > 0 => processed'[job[v].item] > 0
      BY <1>2, <3>1
    <3> QED
      BY <2>1, <3>2, <3>3, Zenon
  <2>2. ASSUME NEW ok \in BOOLEAN, NEW n \in {0, 1}, AnswerIn(v, ok, n)
        PROVE  job'[v].fits /\ (job'[v].status = "done" => processed'[job'[v].item] > 0)
    <3>1. /\ job'[v].item = sending[v].item
          /\ job'[v].fits = TRUE
          /\ job'[v].status = "done" => n = 1
          /\ processed' = [processed EXCEPT ![sending[v].item] = @ + n]
      BY <2>2 DEF AnswerIn, TakesAnswer
    <3>2. sending[v].item \in Items
      BY <2>2, CallFacts DEF AnswerIn
    <3>3. n = 1 => processed'[sending[v].item] > 0
      BY <1>1, <3>1, <3>2
    <3> QED
      BY <3>1, <3>3, Zenon
  <2> QED
    BY <1>3, <2>1, <2>2, OutcomeFromAnswer
<1>4. ASSUME NEW i \in Items, items'[i].status = "done" PROVE processed'[i] > 0
  <2>1. processed[i] > 0
    BY <1>1, <1>4, DoneByRecording DEF SuccessesProcessed, DoneWasProcessed
  <2> QED
    BY <1>2, <2>1
<1> QED
  BY <1>3, <1>4 DEF SuccessesProcessed, DoneWasProcessed
-----------------------------------------------------------------------------
(* What a worker holds is what it held, or pending rows it claims.         *)
LEMMA HeldFromPending ==
  ASSUME ProcessingInv, [Next]_vars, NEW v \in Workers, NEW i \in Proved!Held(v)'
  PROVE  i \in Proved!Held(v) \/ items[i].status = "pending"
<1>0. /\ pc \in [Workers -> Proved!PC]
      /\ rows \in [Workers -> SUBSET Proved!Row]
  BY PoolTypes DEF ProcessingInv
<1>1. (\E r \in rows'[v] : i = r.item) \/ (Recording(v)' /\ i = job'[v].item)
  BY DEF Proved!Held, Proved!Recording, Recording
<1>2. ASSUME Recording(v)', i = job'[v].item PROVE i \in Proved!Held(v)
  <2>1. CASE Recording(v) /\ job'[v] = job[v]
    BY <1>2, <2>1, JobFacts DEF ProcessingInv
  <2>2. CASE \E ok \in BOOLEAN, n \in {0, 1} : AnswerIn(v, ok, n)
    BY <1>2, <2>2, CallFacts DEF AnswerIn, TakesAnswer
  <2> QED
    BY <1>2, <2>1, <2>2, OutcomeFromAnswer
<1>3. ASSUME NEW r \in rows'[v], i = r.item
      PROVE  i \in Proved!Held(v) \/ items[i].status = "pending"
  <2>1. CASE r \in rows[v]
    BY <1>3, <2>1 DEF Proved!Held
  <2>2. ASSUME NEW w \in Workers, NEW S, Claims(w, S), r \notin rows[v]
        PROVE  items[i].status = "pending"
    <3>1. /\ rows' = [rows EXCEPT ![w] = {[item |-> j, retry |-> items[j].retry] : j \in S}]
          /\ \A j \in S : items[j].status = "pending"
      BY <2>2 DEF Claims
    <3>2. PICK j \in S : r = [item |-> j, retry |-> items[j].retry]
      BY <1>0, <2>2, <3>1
    <3> QED
      BY <1>3, <3>1, <3>2
  <2>3. r \in rows[v] \/ \E w \in Workers, S \in SUBSET Items : Claims(w, S)
    BY <1>0, <1>3, StepKinds
    DEF StepKind, Starts, Asks, AnswerIn, TakesAnswer, Records, LeavesWorkers, GoesDown,
        ComesBack, Elsewhere, LeavesPool
  <2> QED
    BY <2>1, <2>2, <2>3
<1> QED
  BY <1>1, <1>2, <1>3

LEMMA OutOfTriesStays ==
  ASSUME ProcessingInv, [Next]_vars, NEW i \in Items, OutOfTries(i)
  PROVE  OutOfTries(i)'
<1>1. Proved!ItemLives(i) /\ Proved!ClaimInv'
  BY PoolInvStep DEF ProcessingInv
<1>2. items'[i].retry \in 0..SmallIntMax /\ SmallIntMax \in Nat
  BY <1>1, StoreAssumption DEF Proved!ClaimInv, Proved!TypeOK, Proved!StoreTypeOK, Proved!ItemRow
<1>3. items'[i] = items[i]
  BY <1>1, <1>2 DEF OutOfTries, Proved!ItemLives
<1>4. \A v \in Workers : i \notin Proved!Held(v)'
  BY HeldFromPending DEF OutOfTries
<1> QED
  BY <1>3, <1>4 DEF OutOfTries

(* A success that is recorded leaves an item that is done; one that is     *)
(* refused leaves it out of tries.                                         *)
LEMMA SuccessSettles ==
  ASSUME ProcessingInv, [Next]_vars, NEW w \in Workers, Records(w), Recording(w),
         job[w].status = "done", NEW i \in Items, job[w].item = i
  PROVE  Settled(i)'
<1>1. /\ job[w].retry \in 0..SmallIntMax /\ i \in Proved!Held(w)
      /\ items[i].status = "processing" /\ items[i].retry = job[w].retry
      /\ \A r \in rows[w] : r.item # i
      /\ SmallIntMax \in Nat
      /\ items \in [Items -> [status : Proved!ItemStatus \cup {"absent"}, retry : 0..SmallIntMax]]
      /\ job[w].fits
  BY JobFacts, PoolTypes DEF ProcessingInv, SuccessesProcessed
<1>2. CASE Recording(w)' /\ job'[w] = job[w]
  BY <1>2 DEF Settled
<1>3. CASE items' = [items EXCEPT ![i] = [status |-> "done", retry |-> job[w].retry + 1]]
  <2>1. items'[i].status = "done"
    BY <1>1, <1>3
  <2> QED
    BY <2>1 DEF Settled
<1>4. CASE ~Recording(w)' /\ items' = items /\ job[w].retry + 1 > SmallIntMax
  <2>1. items'[i].status = "processing" /\ items'[i].retry = SmallIntMax
    BY <1>1, <1>4
  <2>2. i \notin Proved!Held(w)'
    <3>1. rows'[w] = rows[w]
      BY DEF Records
    <3> QED
      BY <1>1, <1>4, <3>1 DEF Proved!Held, Proved!Recording, Recording
  <2>3. ASSUME NEW v \in Workers, v # w PROVE i \notin Proved!Held(v)'
    <3>1. i \notin Proved!Held(v)
      BY <1>1, <2>3 DEF ProcessingInv, Proved!ClaimInv, Proved!ClaimsDisjoint
    <3> QED
      BY <1>1, <3>1, HeldFromPending
  <2>4. OutOfTries(i)'
    BY <2>1, <2>2, <2>3 DEF OutOfTries
  <2> QED
    BY <2>4 DEF Settled
<1> QED
  BY <1>1, <1>2, <1>3, <1>4 DEF Records

LEMMA SettledStays ==
  ASSUME ProcessingInv, [Next]_vars, NEW i \in Items, Settled(i), crashes' = 0
  PROVE  Settled(i)'
<1>1. CASE items[i].status = "done"
  <2>1. Proved!ItemLives(i)
    BY PoolInvStep DEF ProcessingInv
  <2> QED
    BY <1>1, <2>1 DEF Proved!ItemLives, Settled
<1>2. CASE OutOfTries(i)
  BY <1>2, OutOfTriesStays DEF Settled
<1>3. ASSUME NEW w \in Workers, Recording(w), job[w].item = i, job[w].status = "done"
      PROVE  Settled(i)'
  <2>1. CASE Records(w)
    BY <1>3, <2>1, SuccessSettles
  <2>2. CASE pc'[w] = pc[w] /\ job'[w] = job[w]
    BY <1>3, <2>2 DEF Recording, Settled
  <2>3. ASSUME NEW v \in Workers, v # w,
               \/ Records(v)
               \/ \E ok \in BOOLEAN, n \in {0, 1} : AnswerIn(v, ok, n)
        PROVE  pc'[w] = pc[w] /\ job'[w] = job[w]
    BY <2>3 DEF Records, AnswerIn, TakesAnswer
  <2>4. ASSUME NEW ok \in BOOLEAN, NEW n \in {0, 1}, AnswerIn(w, ok, n) PROVE FALSE
    BY <1>3, <2>4 DEF AnswerIn, TakesAnswer, Recording
  <2>5. ASSUME NEW v \in Workers, NEW S, Claims(v, S) PROVE pc'[w] = pc[w] /\ job'[w] = job[w]
    BY <1>3, <2>5, PoolTypes DEF Claims, Recording, ProcessingInv
  <2>6. ASSUME LeavesWorkers \/ LeavesPool \/ ComesBack
        PROVE  pc'[w] = pc[w] /\ job'[w] = job[w]
    BY <1>3, <2>6 DEF LeavesWorkers, LeavesPool, ComesBack, Recording
  <2>7. ~GoesDown
    <3>1. crashes \in Nat
      BY PoolTypes DEF ProcessingInv
    <3> QED
      BY <3>1 DEF GoesDown
  <2>8. \/ \E v \in Workers : Records(v) \/ (\E ok \in BOOLEAN, n \in {0, 1} : AnswerIn(v, ok, n))
        \/ \E v \in Workers, S \in SUBSET Items : Claims(v, S)
        \/ LeavesWorkers \/ LeavesPool \/ ComesBack
    BY <2>7, StepKinds DEF StepKind, Starts, Asks, Elsewhere
  <2> QED
    BY <2>1, <2>2, <2>3, <2>4, <2>5, <2>6, <2>8
<1> QED
  BY <1>1, <1>2, <1>3 DEF Settled

(* The item of a call that is under way is not settled.                    *)
LEMMA CallsUnsettled ==
  ASSUME ProcessingInv, NEW w \in Workers, callerPc[w] # "idle"
  PROVE  ~Settled(sending[w].item)
<1> DEFINE i == sending[w].item
<1>1. /\ pc[w] = "send" /\ i \in Proved!Held(w) /\ items[i].status = "processing"
  BY CallFacts
<1>2. ASSUME NEW v \in Workers, Recording(v), job[v].item = i PROVE FALSE
  <2>1. i \in Proved!Held(v) /\ v # w
    BY <1>1, <1>2, JobFacts DEF ProcessingInv, Recording
  <2> QED
    BY <1>1, <2>1 DEF ProcessingInv, Proved!ClaimInv, Proved!ClaimsDisjoint
<1> QED
  BY <1>1, <1>2 DEF Settled, OutOfTries

(* System C processes an item only once as long as it has no outage: the   *)
(* answer that says so arrives and is the last the item needs.             *)
LEMMA ProcessedStep ==
  ASSUME ProcessingInv, [Next]_vars
  PROVE  ProcessedSettled'
<1> SUFFICES ASSUME outages' = 0, crashes' = 0, NEW i \in Items
             PROVE  processed'[i] <= 1 /\ (processed'[i] > 0 => Settled(i)')
  BY DEF ProcessedSettled
<1>0. outages \in Nat /\ crashes \in Nat /\ processed \in [Items -> Nat]
  BY PoolTypes DEF ProcessingInv, SystemCOK
<1>1. outages = 0 /\ crashes = 0 /\ ~GoesDown
  <2>1. ~GoesDown
    BY <1>0 DEF GoesDown
  <2>2. outages' \in {outages, outages + 1}
    BY <2>1, StepKinds DEF StepKind, Starts, Asks, AnswerIn, CallsNobody, Elsewhere
  <2>3. crashes' = crashes
    BY <2>1, StepKinds
    DEF StepKind, Starts, Asks, AnswerIn, TakesAnswer, Records, Claims, LeavesWorkers,
        ComesBack, Elsewhere, LeavesPool
  <2> QED
    BY <1>0, <2>1, <2>2, <2>3
<1>2. processed[i] <= 1 /\ (processed[i] > 0 => Settled(i))
  BY <1>1 DEF ProcessingInv, ProcessedSettled
<1>3. CASE processed'[i] = processed[i]
  BY <1>2, <1>3, SettledStays
<1>4. ASSUME NEW w \in Workers, NEW ok \in BOOLEAN, NEW n \in {0, 1}, AnswerIn(w, ok, n),
             processed'[i] # processed[i]
      PROVE  processed'[i] = 1 /\ Settled(i)'
  <2>1. processed' = [processed EXCEPT ![sending[w].item] = @ + n] /\ (n = 1 => ok)
    BY <1>1, <1>4 DEF AnswerIn
  <2>2. i = sending[w].item /\ n = 1 /\ processed'[i] = processed[i] + 1
    BY <1>0, <1>4, <2>1
  <2>3. ~Settled(i)
    BY <1>4, <2>2, CallsUnsettled DEF AnswerIn
  <2>4. processed[i] = 0
    BY <1>0, <1>2, <2>3
  <2>5. Recording(w)' /\ job'[w].item = i /\ job'[w].status = "done"
    BY <1>4, <2>1, <2>2 DEF AnswerIn, TakesAnswer
  <2> QED
    BY <2>2, <2>4, <2>5 DEF Settled
<1>5. processed' = processed
      \/ \E w \in Workers, ok \in BOOLEAN, n \in {0, 1} : AnswerIn(w, ok, n)
  BY <1>1, StepKinds DEF StepKind, Starts, Asks, CallsNobody, Elsewhere
<1> QED
  BY <1>0, <1>3, <1>4, <1>5

LEMMA ProcessingInvStep ==
  ASSUME ProcessingInv, [Next]_vars
  PROVE  ProcessingInv'
<1>1. Proved!ClaimInv'
  BY PoolInvStep DEF ProcessingInv
<1> QED
  BY <1>1, CallsStep, SystemCStep, RowsStep, AskedStep, SuccessStep, ProcessedStep
  DEF ProcessingInv

LEMMA ProcessingInvAlways == Spec => []ProcessingInv
<1>1. ProcessingInv /\ [Next]_vars => ProcessingInv'
  BY ProcessingInvStep
<1> QED
  BY <1>1, ProcessingInvInit, PTL DEF Spec
-----------------------------------------------------------------------------
(* While System C has no outage and no node goes down, it processes no     *)
(* item twice, whatever the breaker refuses and however many workers share *)
(* it (processItem, SendItem).                                             *)
THEOREM ProcessedAtMostOnce == Spec => []ProcessedOnce
<1>1. ProcessingInv => ProcessedOnce
  BY DEF ProcessingInv, ProcessedSettled, ProcessedOnce
<1> QED
  BY <1>1, ProcessingInvAlways, PTL

(* Whatever fails, an item that counts as done was processed by System C:  *)
(* no refusal of the breaker passes for a success.                         *)
THEOREM DoneProcessed == Spec => []DoneWasProcessed
<1>1. ProcessingInv => DoneWasProcessed
  BY DEF ProcessingInv
<1> QED
  BY <1>1, ProcessingInvAlways, PTL

(* System C is never asked about an item more often than its tries count,  *)
(* whatever is refused, crashes or is taken back as stale.                 *)
THEOREM AskedWithinRetries == Spec => []AskedWithinTries
<1>1. ProcessingInv => AskedWithinTries
  BY DEF ProcessingInv
<1> QED
  BY <1>1, ProcessingInvAlways, PTL
=============================================================================
