---------------------------- MODULE ServiceProofs ----------------------------
(***************************************************************************)
(* Theorems about BatchService, for every number of requests, keys,        *)
(* batches and items and whatever the bound on failed calls.               *)
(***************************************************************************)
EXTENDS BatchService, FiniteSetTheorems, TLAPS

(* The life of a row, as far as every statement of every request and of    *)
(* the workers respects it.                                                *)
ItemMoves(i) ==
  \/ items'[i] = items[i]
  \/ items[i].status = "absent" /\ items'[i].status = "pending"
  \/ items[i].status = "pending" /\ items'[i].status \in {"processing", "cancelled"}
  \/ items[i].status = "processing" /\ items'[i].status \in {"pending", "done", "failed"}

BatchMoves(b) ==
  \/ batches'[b] = batches[b]
  \/ batches[b].status \in {"pending", "processing"} /\ batches'[b].status = "cancelled"
  \/ batches[b].status \in {"pending", "cancelled"} /\ batches'[b].status \in Verdicts

(* A batch is created alone, and only if no other one has its key.         *)
Created(b) ==
  /\ batches[b].status = "absent" /\ batches'[b].status = "pending"
  /\ ~KeyTaken(KeyOf[b])
  /\ \A c \in Batches \ {b} : batches'[c] = batches[c]

StoreMoves ==
  /\ StoreTypeOK'
  /\ \A i \in Items : ItemMoves(i)
  /\ \A b \in Batches : BatchMoves(b) \/ Created(b)

(* The batch is stored in full after the step, and what is counted of it.  *)
StoredNext(b) ==
  /\ batches'[b].status # "absent"
  /\ \A i \in ItemsOf(b) : items'[i].status # "absent"

DoneNext(b) == Cardinality({i \in ItemsOf(b) : items'[i].status = "done"})

FailedNext(b) == Cardinality({i \in ItemsOf(b) : items'[i].status = "failed"})

LEMMA NothingMoves ==
  ASSUME StoreTypeOK, UNCHANGED storeVars
  PROVE  StoreMoves
BY DEF StoreTypeOK, storeVars, StoreMoves, ItemMoves, BatchMoves

LEMMA CountsAreNat ==
  ASSUME NEW b \in Batches, NEW s
  PROVE  /\ IsFiniteSet(ItemsOf(b)) /\ TotalItems(b) \in Nat
         /\ IsFiniteSet(WithStatus(b, s)) /\ Cardinality(WithStatus(b, s)) \in Nat
<1>1. /\ IsFiniteSet(Items)
      /\ ItemsOf(b) \subseteq Items
      /\ WithStatus(b, s) \subseteq Items
  BY StoreAssumption DEF ItemsOf, WithStatus
<1> QED
  BY <1>1, FS_Subset, FS_CardinalityType DEF TotalItems

LEMMA CreateMoves ==
  ASSUME StoreTypeOK, NEW b \in Batches, CreateBatch(b), ~KeyTaken(KeyOf[b])
  PROVE  StoreMoves /\ batches'[b].status # "absent"
<1>1. batches' \in [Batches -> BatchRow]
  BY DEF CreateBatch, StoreTypeOK, BatchRow, BatchStatus
<1> QED
  BY <1>1 DEF CreateBatch, StoreTypeOK, StoreMoves, ItemMoves, BatchMoves, Created, BatchRow

LEMMA InsertMoves ==
  ASSUME StoreTypeOK, NEW b \in Batches, BulkInsertItems(b)
  PROVE  StoreMoves /\ StoredNext(b)
<1>1. /\ \A i \in Items : items'[i] = IF BatchOf[i] = b THEN [status |-> "pending", retry |-> 0]
                                                      ELSE items[i]
      /\ \A i \in ItemsOf(b) : items[i].status = "absent"
      /\ batches' = batches /\ batches[b].status # "absent"
  BY DEF BulkInsertItems
<1>2. items' \in [Items -> ItemRow]
  BY StoreAssumption DEF BulkInsertItems, StoreTypeOK, ItemRow, ItemStatus
<1> QED
  BY <1>1, <1>2 DEF StoreTypeOK, StoreMoves, ItemMoves, BatchMoves, ItemsOf,
                     StoredNext

LEMMA CancelMoves ==
  ASSUME StoreTypeOK, NEW b \in Batches, CancelBatch(b)
  PROVE  StoreMoves
<1>1. batches' \in [Batches -> BatchRow] /\ \A c \in Batches : BatchMoves(c)
  BY DEF CancelBatch, StoreTypeOK, BatchRow, BatchStatus, BatchMoves
<1>2. items' \in [Items -> ItemRow] /\ \A i \in Items : ItemMoves(i)
  BY DEF CancelBatch, StoreTypeOK, ItemRow, ItemStatus, ItemMoves, WithStatus
<1> QED
  BY <1>1, <1>2 DEF StoreTypeOK, StoreMoves

(* The workers as they are seen here.                                      *)
LEMMA WorkersMove ==
  ASSUME StoreTypeOK, WorkerStep
  PROVE  StoreMoves
<1>1. ASSUME NEW i \in PendingRows, WorkerClaims(i) PROVE StoreMoves
  <2>1. items' \in [Items -> ItemRow] /\ \A j \in Items : ItemMoves(j)
    BY <1>1 DEF WorkerClaims, GetPendingItems, PendingRows, StoreTypeOK, ItemRow, ItemStatus,
                ItemMoves
  <2> QED
    BY <1>1, <2>1 DEF WorkerClaims, GetPendingItems, StoreTypeOK, StoreMoves, BatchMoves
<1>2. ASSUME NEW i \in Items, NEW status \in {"pending", "done", "failed"},
             WorkerRecords(i, status)
      PROVE  StoreMoves
  <2>1. /\ items' = [items EXCEPT ![i] = [status |-> status, retry |-> items[i].retry + 1]]
        /\ batches' = batches
        /\ items[i].status = "processing"
    BY <1>2 DEF WorkerRecords, UpdateItemStatus
  <2>2. items[i].retry + 1 \in 0..SmallIntMax
    BY <1>2, StoreAssumption DEF WorkerRecords, StoreTypeOK, ItemRow
  <2>3. items' \in [Items -> ItemRow] /\ \A j \in Items : ItemMoves(j)
    BY <2>1, <2>2 DEF StoreTypeOK, ItemRow, ItemStatus, ItemMoves
  <2> QED
    BY <2>1, <2>3 DEF StoreTypeOK, StoreMoves, BatchMoves
<1>3. ASSUME NEW b \in Batches, WorkerCompletes(b) PROVE StoreMoves
  <2>1. PICK v : CompleteBatch(b, v) /\ v \in Verdicts
    <3>1. DoneCount(b) \in Nat /\ FailedCount(b) \in Nat
      BY CountsAreNat DEF DoneCount, FailedCount
    <3> QED
      BY <1>3, <3>1 DEF WorkerCompletes, Verdicts
  <2>2. DoneCount(b) \in Nat /\ FailedCount(b) \in Nat
    BY CountsAreNat DEF DoneCount, FailedCount
  <2>3. batches' \in [Batches -> BatchRow]
    BY <2>1, <2>2 DEF CompleteBatch, StoreTypeOK, BatchRow, BatchStatus, Verdicts
  <2>4. \A c \in Batches : BatchMoves(c)
    BY <1>3, <2>1 DEF CompleteBatch, WorkerCompletes, StoreTypeOK, BatchMoves
  <2> QED
    BY <2>1, <2>3, <2>4 DEF CompleteBatch, StoreTypeOK, StoreMoves, ItemMoves
<1> QED
  BY <1>1, <1>2, <1>3 DEF WorkerStep
-----------------------------------------------------------------------------
(* The inductive invariant.                                                *)

(* Two batches that are there have different keys, the absent key counting *)
(* as one.                                                                 *)
KeysUnique ==
  \A b, c \in Batches :
    /\ batches[b].status # "absent" /\ batches[c].status # "absent"
    /\ KeyOf[b] = KeyOf[c]
    => b = c

(* How far a submission got is what it has stored.                         *)
SubmissionsStored ==
  \A r \in Batches :
    /\ sub[r] = "insert" => batches[r].status # "absent"
    /\ sub[r] = "save" => Stored(r)

(* What a key or an answer stands for is a batch with that key, in full.   *)
KeysStored ==
  \A k \in Keys : idem[k] # None => Stored(idem[k]) /\ KeyOf[idem[k]] = k

AnswersStored ==
  \A r \in Batches : accepted[r] # None =>
    Stored(accepted[r]) /\ KeyOf[accepted[r]] = KeyOf[r]

(* Cancellations and queries are about batches that are there, once it was *)
(* found that they are about any.                                          *)
CancelsKnown ==
  \A c \in Cancels :
    /\ cancel[c].at \in {"update", "refused"} => cancel[c].batch # None
    /\ cancel[c].batch # None => batches[cancel[c].batch].status # "absent"

QueriesKnown ==
  \A q \in Queries :
    /\ query[q].at \in {"countFailed", "batch", "answered"} => query[q].batch # None
    /\ query[q].at \in {"idle", "countDone", "countFailed"} => query[q].status = "absent"
    /\ query[q].at = "countFailed" => query[q].success <= DoneCount(query[q].batch)

SubmitInv == KeysUnique /\ SubmissionsStored /\ KeysStored /\ AnswersStored

ServiceInv ==
  /\ TypeOK
  /\ SubmitInv
  /\ CancelsKnown
  /\ RefusalJustified
  /\ QueriesKnown
  /\ ReportsNeverAhead
-----------------------------------------------------------------------------
(* What every statement leaves behind.                                     *)
LEMMA StoredStays ==
  ASSUME StoreTypeOK, StoreMoves, NEW b \in Batches
  PROVE  /\ batches[b].status # "absent" => batches'[b].status # "absent"
         /\ Stored(b) => StoredNext(b)
<1>1. batches[b].status # "absent" => batches'[b].status # "absent"
  BY DEF StoreMoves, BatchMoves, Created, Verdicts
<1>2. \A i \in Items : items[i].status # "absent" => items'[i].status # "absent"
  BY DEF StoreMoves, ItemMoves
<1> QED
  BY <1>1, <1>2 DEF Stored, StoredNext, ItemsOf

LEMMA VerdictsStay ==
  ASSUME StoreTypeOK, StoreMoves, NEW b \in Batches
  PROVE  /\ batches[b].status \in Verdicts => batches'[b] = batches[b]
         /\ batches[b].status \in Verdicts \cup {"cancelled"} =>
              batches'[b].status \in Verdicts \cup {"cancelled"}
BY DEF StoreMoves, BatchMoves, Created, Verdicts

LEMMA CountsGrow ==
  ASSUME StoreTypeOK, StoreMoves, NEW b \in Batches
  PROVE  /\ DoneNext(b) \in Nat /\ FailedNext(b) \in Nat
         /\ DoneCount(b) <= DoneNext(b) /\ FailedCount(b) <= FailedNext(b)
<1>1. ASSUME NEW s \in {"done", "failed"}
      PROVE  /\ Cardinality({i \in ItemsOf(b) : items'[i].status = s}) \in Nat
             /\ Cardinality(WithStatus(b, s)) <=
                  Cardinality({i \in ItemsOf(b) : items'[i].status = s})
  <2> DEFINE N == {i \in ItemsOf(b) : items'[i].status = s}
  <2>1. WithStatus(b, s) \subseteq N
    BY DEF WithStatus, ItemsOf, StoreMoves, ItemMoves
  <2>2. IsFiniteSet(N)
    <3>1. N \subseteq ItemsOf(b)
      OBVIOUS
    <3> QED
      BY <3>1, CountsAreNat, FS_Subset
  <2> HIDE DEF N
  <2>3. Cardinality(N) \in Nat /\ Cardinality(WithStatus(b, s)) <= Cardinality(N)
    BY <2>1, <2>2, FS_Subset, FS_CardinalityType
  <2> QED
    BY <2>3 DEF N
<1> QED
  BY <1>1 DEF DoneCount, FailedCount, DoneNext, FailedNext

(* No item is counted as done and as failed.                               *)
LEMMA CountsWithinTotal ==
  ASSUME NEW b \in Batches
  PROVE  DoneCount(b) + FailedCount(b) <= TotalItems(b)
<1> DEFINE D == WithStatus(b, "done")
           F == WithStatus(b, "failed")
<1>1. IsFiniteSet(D) /\ IsFiniteSet(F) /\ Cardinality(D) \in Nat /\ Cardinality(F) \in Nat
  BY CountsAreNat
<1>2. D \cap F = {} /\ D \cup F \subseteq ItemsOf(b)
  BY DEF WithStatus
<1>3. Cardinality(D \cup F) = Cardinality(D) + Cardinality(F) - Cardinality(D \cap F)
  BY <1>1, FS_Union
<1>4. Cardinality(D \cup F) <= TotalItems(b)
  BY <1>2, CountsAreNat, FS_Subset DEF TotalItems
<1>5. Cardinality(D \cap F) = 0
  BY <1>2, FS_EmptySet
<1> QED
  BY <1>1, <1>3, <1>4, <1>5 DEF DoneCount, FailedCount

(* Every step of the system moves the tables as they may move.             *)
SubmitStep ==
  \E r \in Batches : \/ CheckKey(r) \/ Create(r) \/ Insert(r) \/ SaveKey(r)
                     \/ SubmitCallFails(r) \/ SubmitGone(r)

CancelStep ==
  \E c \in Cancels : \/ \E b \in Batches \cup {None} : RequestCancel(c, b)
                     \/ CheckCancel(c) \/ UpdateCancelled(c) \/ CancelCallFails(c)

QueryStep ==
  \E q \in Queries : \/ \E b \in Batches \cup {None} : AskStatus(q, b)
                     \/ QueryDone(q) \/ QueryFailed(q) \/ QueryBatch(q)

LEMMA NextSteps ==
  ASSUME Next
  PROVE  SubmitStep \/ CancelStep \/ QueryStep \/ WorkerStep
BY DEF Next, SubmitStep, CancelStep, QueryStep

LEMMA StepMoves ==
  ASSUME ServiceInv, [Next]_vars
  PROVE  StoreMoves
<1>1. StoreTypeOK
  BY DEF ServiceInv, TypeOK
<1>2. CASE SubmitStep
  <2>1. PICK r \in Batches : \/ CheckKey(r) \/ Create(r) \/ Insert(r) \/ SaveKey(r)
                            \/ SubmitCallFails(r) \/ SubmitGone(r)
    BY <1>2 DEF SubmitStep
  <2> QED
    BY <1>1, <2>1, NothingMoves, CreateMoves, InsertMoves
    DEF CheckKey, Create, Insert, SaveKey, SubmitCallFails, SubmitGone
<1>3. CASE CancelStep
  <2>1. ASSUME NEW c \in Cancels, UpdateCancelled(c) \/ CancelCallFails(c) PROVE StoreMoves
    <3>1. CASE UNCHANGED storeVars
      BY <1>1, <3>1, NothingMoves
    <3>2. CASE cancel[c].at = "update" /\ CancelBatch(cancel[c].batch)
      <4>1. cancel[c].batch \in Batches
        BY <3>2 DEF ServiceInv, CancelsKnown, TypeOK, Cancellation
      <4> QED
        BY <1>1, <3>2, <4>1, CancelMoves
    <3> QED
      BY <2>1, <3>1, <3>2 DEF UpdateCancelled, CancelCallFails
  <2> QED
    BY <1>1, <1>3, <2>1, NothingMoves DEF CancelStep, RequestCancel, CheckCancel
<1>4. CASE QueryStep
  BY <1>1, <1>4, NothingMoves DEF QueryStep, AskStatus, QueryDone, QueryFailed, QueryBatch
<1>5. CASE WorkerStep
  BY <1>1, <1>5, WorkersMove
<1>6. CASE UNCHANGED vars
  BY <1>1, <1>6, NothingMoves DEF vars, storeVars
<1> QED
  BY <1>2, <1>3, <1>4, <1>5, <1>6, NextSteps
-----------------------------------------------------------------------------
LEMMA ServiceInit == Init => ServiceInv
<1> SUFFICES ASSUME Init PROVE ServiceInv
  OBVIOUS
<1>1. TypeOK
  <2>1. StoreTypeOK
    BY StoreAssumption DEF Init, StoreInit, StoreTypeOK, BatchRow, ItemRow
  <2>2. /\ idem \in [Keys -> Batches \cup {None}]
        /\ sub \in [Batches -> SubmitPC]
        /\ accepted \in [Batches -> Batches \cup {None}]
        /\ failures \subseteq Batches
        /\ cancel \in [Cancels -> Cancellation]
    BY DEF Init, SubmitPC, Cancellation, CancelPC
  <2>3. query \in [Queries -> Report]
    BY DEF Init, Report, QueryPC
  <2>4. dbErrors \in 0..MaxDbErrors
    BY ServiceAssumption DEF Init
  <2> QED
    BY <2>1, <2>2, <2>3, <2>4 DEF TypeOK
<1>2. SubmitInv
  BY DEF Init, StoreInit, SubmitInv, KeysUnique, SubmissionsStored, KeysStored, AnswersStored
<1>3. CancelsKnown /\ RefusalJustified /\ QueriesKnown /\ ReportsNeverAhead
  BY DEF Init, CancelsKnown, RefusalJustified, QueriesKnown, ReportsNeverAhead
<1> QED
  BY <1>1, <1>2, <1>3 DEF ServiceInv

LEMMA ErrorsInRange ==
  ASSUME TypeOK, dbErrors < MaxDbErrors, dbErrors' = dbErrors + 1
  PROVE  dbErrors' \in 0..MaxDbErrors
BY ServiceAssumption DEF TypeOK

LEMMA TypeStep ==
  ASSUME ServiceInv, [Next]_vars
  PROVE  TypeOK'
<1> USE DEF submitVars
<1>1. TypeOK /\ StoreTypeOK'
  BY StepMoves DEF ServiceInv, StoreMoves
<1>2. CASE SubmitStep
  <2>1. PICK r \in Batches : \/ CheckKey(r) \/ Create(r) \/ Insert(r) \/ SaveKey(r)
                            \/ SubmitCallFails(r) \/ SubmitGone(r)
    BY <1>2 DEF SubmitStep
  <2>2. sub' \in [Batches -> SubmitPC]
    BY <1>1, <2>1 DEF CheckKey, Create, Insert, SaveKey, SubmitCallFails, SubmitGone, Accept,
                      Goes, TypeOK, SubmitPC
  <2>3. accepted' \in [Batches -> Batches \cup {None}]
    BY <1>1, <2>1 DEF CheckKey, Create, Insert, SaveKey, SubmitCallFails, SubmitGone, Accept,
                      IdempotencyGet, TypeOK
  <2>4. idem' \in [Keys -> Batches \cup {None}]
    BY <1>1, <2>1 DEF CheckKey, Create, Insert, SaveKey, SubmitCallFails, SubmitGone,
                      IdempotencyCreate, TypeOK
  <2>5. failures' \subseteq Batches /\ cancel' = cancel /\ query' = query
    BY <1>1, <2>1 DEF CheckKey, Create, Insert, SaveKey, SubmitCallFails, SubmitGone, TypeOK
  <2>6. dbErrors' \in 0..MaxDbErrors
    <3>1. CASE SubmitCallFails(r)
      BY <1>1, <3>1, ErrorsInRange DEF SubmitCallFails
    <3> QED
      BY <1>1, <2>1, <3>1 DEF CheckKey, Create, Insert, SaveKey, SubmitGone, TypeOK
  <2> QED
    BY <1>1, <2>2, <2>3, <2>4, <2>5, <2>6 DEF TypeOK
<1>3. CASE CancelStep
  <2>1. PICK c \in Cancels : \/ \E b \in Batches \cup {None} : RequestCancel(c, b)
                            \/ CheckCancel(c) \/ UpdateCancelled(c) \/ CancelCallFails(c)
    BY <1>3 DEF CancelStep
  <2>2. cancel' \in [Cancels -> Cancellation]
    BY <1>1, <2>1 DEF RequestCancel, CheckCancel, UpdateCancelled, CancelCallFails, TypeOK,
                      Cancellation, CancelPC
  <2>3. UNCHANGED <<submitVars, query>>
    BY <2>1 DEF RequestCancel, CheckCancel, UpdateCancelled, CancelCallFails
  <2>4. dbErrors' \in 0..MaxDbErrors
    <3>1. CASE CancelCallFails(c)
      BY <1>1, <3>1, ErrorsInRange DEF CancelCallFails
    <3> QED
      BY <1>1, <2>1, <3>1 DEF RequestCancel, CheckCancel, UpdateCancelled, TypeOK
  <2> QED
    BY <1>1, <2>2, <2>3, <2>4 DEF TypeOK
<1>4. CASE QueryStep
  <2>1. PICK q \in Queries : \/ \E b \in Batches \cup {None} : AskStatus(q, b)
                            \/ QueryDone(q) \/ QueryFailed(q) \/ QueryBatch(q)
    BY <1>4 DEF QueryStep
  <2>2. query[q] \in Report
    BY <1>1 DEF TypeOK
  <2>3. UNCHANGED <<submitVars, cancel, dbErrors>>
    BY <2>1 DEF AskStatus, QueryDone, QueryFailed, QueryBatch
  <2>4. PICK row \in Report : query' = [query EXCEPT ![q] = row]
    <3>1. CASE \E b \in Batches \cup {None} : AskStatus(q, b)
      <4>1. PICK b \in Batches \cup {None} : AskStatus(q, b)
        BY <3>1
      <4>2. [query[q] EXCEPT !.at = "countDone", !.batch = b] \in Report
        BY <2>2 DEF Report, QueryPC
      <4>3. query' = [query EXCEPT ![q] = [query[q] EXCEPT !.at = "countDone", !.batch = b]]
        BY <1>1, <4>1 DEF AskStatus, TypeOK, Report
      <4> QED
        BY <4>2, <4>3
    <3>2. CASE QueryDone(q) /\ query[q].batch = None
      <4>1. [query[q] EXCEPT !.at = "error"] \in Report
        BY <2>2 DEF Report, QueryPC
      <4>2. query' = [query EXCEPT ![q] = [query[q] EXCEPT !.at = "error"]]
        BY <1>1, <3>2 DEF QueryDone, TypeOK, Report
      <4> QED
        BY <4>1, <4>2
    <3>3. CASE QueryDone(q) /\ query[q].batch # None
      <4> DEFINE n == DoneCount(query[q].batch)
      <4>1. n \in Nat
        BY <2>2, <3>3, CountsAreNat DEF Report, DoneCount
      <4>2. query' = [query EXCEPT ![q] = [query[q] EXCEPT !.at = "countFailed", !.success = n]]
        BY <1>1, <3>3 DEF QueryDone, TypeOK, Report
      <4> HIDE DEF n
      <4>3. [query[q] EXCEPT !.at = "countFailed", !.success = n] \in Report
        BY <2>2, <4>1 DEF Report, QueryPC
      <4> QED
        BY <4>2, <4>3
    <3>4. CASE QueryFailed(q)
      <4> DEFINE n == FailedCount(query[q].batch)
      <4>1. n \in Nat
        BY <2>2, <3>4, CountsAreNat
        DEF QueryFailed, ServiceInv, QueriesKnown, Report, FailedCount
      <4>2. query' = [query EXCEPT ![q] = [query[q] EXCEPT !.at = "batch", !.failed = n]]
        BY <1>1, <3>4 DEF QueryFailed, TypeOK, Report
      <4> HIDE DEF n
      <4>3. [query[q] EXCEPT !.at = "batch", !.failed = n] \in Report
        BY <2>2, <4>1 DEF Report, QueryPC
      <4> QED
        BY <4>2, <4>3
    <3>5. CASE QueryBatch(q)
      <4> DEFINE s == batches[query[q].batch].status
      <4>1. s \in BatchStatus \cup {"absent"}
        <5>1. query[q].batch \in Batches
          BY <2>2, <3>5 DEF QueryBatch, ServiceInv, QueriesKnown, Report
        <5> QED
          BY <1>1, <5>1 DEF TypeOK, StoreTypeOK, BatchRow
      <4>2. query' = [query EXCEPT ![q] = [query[q] EXCEPT !.at = "answered", !.status = s]]
        BY <1>1, <3>5 DEF QueryBatch, TypeOK, Report
      <4> HIDE DEF s
      <4>3. [query[q] EXCEPT !.at = "answered", !.status = s] \in Report
        BY <2>2, <4>1 DEF Report, QueryPC
      <4> QED
        BY <4>2, <4>3
    <3> QED
      BY <2>1, <3>1, <3>2, <3>3, <3>4, <3>5
  <2> QED
    BY <1>1, <2>3, <2>4 DEF TypeOK
<1>5. CASE WorkerStep \/ UNCHANGED vars
  BY <1>1, <1>5 DEF WorkerStep, vars, TypeOK
<1> QED
  BY <1>2, <1>3, <1>4, <1>5, NextSteps

(* A batch id is given out, and a key saved, once all is stored.           *)
LEMMA SubmitInvStep ==
  ASSUME ServiceInv, [Next]_vars
  PROVE  SubmitInv'
<1>1. /\ TypeOK /\ StoreMoves
      /\ KeysUnique /\ SubmissionsStored /\ KeysStored /\ AnswersStored
  BY StepMoves DEF ServiceInv, SubmitInv
<1>2. ASSUME NEW b \in Batches
      PROVE  /\ batches[b].status # "absent" => batches'[b].status # "absent"
             /\ Stored(b) => StoredNext(b)
  BY <1>1, StoredStays DEF TypeOK
<1>3. KeysUnique'
  <2> SUFFICES ASSUME NEW b \in Batches, NEW c \in Batches, b # c,
                      batches'[b].status # "absent", batches'[c].status # "absent",
                      KeyOf[b] = KeyOf[c]
               PROVE  FALSE
    BY DEF KeysUnique
  <2>1. ASSUME NEW d \in Batches, Created(d) PROVE FALSE
    BY <1>1, <2>1 DEF Created, KeyTaken, KeysUnique
  <2> QED
    BY <1>1, <2>1 DEF StoreMoves, BatchMoves, KeysUnique, Verdicts
<1>4. CASE SubmitStep
  <2>1. PICK r \in Batches : \/ CheckKey(r) \/ Create(r) \/ Insert(r) \/ SaveKey(r)
                            \/ SubmitCallFails(r) \/ SubmitGone(r)
    BY <1>4 DEF SubmitStep
  <2>2. \A s \in Batches \ {r} : sub'[s] = sub[s] /\ accepted'[s] = accepted[s]
    BY <1>1, <2>1 DEF CheckKey, Create, Insert, SaveKey, SubmitCallFails, SubmitGone, Accept,
                      Goes, TypeOK
  <2>3. /\ sub'[r] = "insert" => batches'[r].status # "absent"
        /\ sub'[r] = "save" => StoredNext(r)
    <3>1. CASE Create(r)
      BY <1>1, <3>1, CreateMoves DEF Create, Goes, TypeOK
    <3>2. CASE Insert(r)
      BY <1>1, <3>2, InsertMoves DEF Insert, Goes, TypeOK
    <3>3. CASE CheckKey(r) \/ SaveKey(r) \/ SubmitCallFails(r) \/ SubmitGone(r)
      BY <1>1, <3>3 DEF CheckKey, SaveKey, SubmitCallFails, SubmitGone, Accept, Goes, TypeOK
    <3> QED
      BY <2>1, <3>1, <3>2, <3>3
  <2>4. SubmissionsStored'
    <3>1. ASSUME NEW s \in Batches \ {r}
          PROVE  /\ sub'[s] = "insert" => batches'[s].status # "absent"
                 /\ sub'[s] = "save" => StoredNext(s)
      BY <1>1, <1>2, <2>2 DEF SubmissionsStored
    <3> QED
      BY <2>3, <3>1 DEF SubmissionsStored, Stored, StoredNext
  <2>5. accepted'[r] # None => StoredNext(accepted'[r]) /\ KeyOf[accepted'[r]] = KeyOf[r]
    <3>1. CASE CheckKey(r) /\ KeyOf[r] \in Keys /\ idem[KeyOf[r]] # None
      <4>1. accepted'[r] = idem[KeyOf[r]] /\ idem[KeyOf[r]] \in Batches
        BY <1>1, <3>1 DEF CheckKey, IdempotencyGet, Accept, TypeOK
      <4>2. Stored(idem[KeyOf[r]]) /\ KeyOf[idem[KeyOf[r]]] = KeyOf[r]
        BY <3>1, <1>1 DEF KeysStored
      <4> QED
        BY <1>2, <4>1, <4>2
    <3>2. CASE sub[r] = "save" /\ Accept(r, r)
      <4>1. accepted'[r] = r /\ Stored(r)
        BY <1>1, <3>2 DEF Accept, SubmissionsStored, TypeOK
      <4> QED
        BY <1>2, <4>1
    <3>3. CASE accepted' = accepted
      <4>1. accepted[r] # None => Stored(accepted[r]) /\ KeyOf[accepted[r]] = KeyOf[r]
                                  /\ accepted[r] \in Batches
        BY <1>1 DEF AnswersStored, TypeOK
      <4> QED
        BY <1>2, <3>3, <4>1
    <3> QED
      BY <2>1, <3>1, <3>2, <3>3
      DEF CheckKey, Create, Insert, SaveKey, SubmitCallFails, SubmitGone, IdempotencyGet
  <2>6. AnswersStored'
    <3>1. ASSUME NEW s \in Batches \ {r}, accepted'[s] # None
          PROVE  StoredNext(accepted'[s]) /\ KeyOf[accepted'[s]] = KeyOf[s]
      <4>1. /\ accepted'[s] = accepted[s] /\ accepted[s] \in Batches
            /\ Stored(accepted[s]) /\ KeyOf[accepted[s]] = KeyOf[s]
        BY <1>1, <2>2, <3>1 DEF AnswersStored, TypeOK
      <4> QED
        BY <1>2, <4>1
    <3> QED
      BY <2>5, <3>1 DEF AnswersStored, Stored, StoredNext
  <2>7. KeysStored'
    <3> SUFFICES ASSUME NEW k \in Keys, idem'[k] # None
                 PROVE  StoredNext(idem'[k]) /\ KeyOf[idem'[k]] = k
      BY DEF KeysStored, Stored, StoredNext
    <3>1. CASE idem'[k] = idem[k]
      <4>1. idem[k] \in Batches /\ Stored(idem[k]) /\ KeyOf[idem[k]] = k
        BY <1>1, <3>1 DEF KeysStored, TypeOK
      <4> QED
        BY <1>2, <3>1, <4>1
    <3>2. CASE idem'[k] # idem[k]
      <4>1. SaveKey(r) /\ KeyOf[r] = k /\ idem'[k] = r
        BY <1>1, <2>1, <3>2 DEF CheckKey, Create, Insert, SaveKey, SubmitCallFails, SubmitGone,
                                IdempotencyCreate, TypeOK
      <4>2. Stored(r)
        BY <1>1, <4>1 DEF SaveKey, SubmissionsStored
      <4> QED
        BY <1>2, <4>1, <4>2
    <3> QED
      BY <3>1, <3>2
  <2> QED
    BY <1>3, <2>4, <2>6, <2>7 DEF SubmitInv
<1>5. CASE UNCHANGED submitVars
  <2>1. sub' = sub /\ accepted' = accepted /\ idem' = idem
    BY <1>5 DEF submitVars
  <2>2. SubmissionsStored'
    BY <1>1, <1>2, <2>1 DEF SubmissionsStored, Stored, StoredNext
  <2>3. AnswersStored'
    <3> SUFFICES ASSUME NEW r \in Batches, accepted[r] # None
                 PROVE  StoredNext(accepted[r]) /\ KeyOf[accepted[r]] = KeyOf[r]
      BY <2>1 DEF AnswersStored, Stored, StoredNext
    <3> QED
      BY <1>1, <1>2 DEF AnswersStored, TypeOK
  <2>4. KeysStored'
    <3> SUFFICES ASSUME NEW k \in Keys, idem[k] # None
                 PROVE  StoredNext(idem[k]) /\ KeyOf[idem[k]] = k
      BY <2>1 DEF KeysStored, Stored, StoredNext
    <3> QED
      BY <1>1, <1>2 DEF KeysStored, TypeOK
  <2> QED
    BY <1>3, <2>2, <2>3, <2>4 DEF SubmitInv
<1>6. UNCHANGED submitVars \/ SubmitStep
  BY NextSteps DEF CancelStep, QueryStep, WorkerStep, RequestCancel, CheckCancel,
                   UpdateCancelled, CancelCallFails, AskStatus, QueryDone, QueryFailed,
                   QueryBatch, vars, submitVars
<1> QED
  BY <1>4, <1>5, <1>6

(* A batch a client may ask about is there, and stays.                     *)
LEMMA KnownIsThere ==
  ASSUME ServiceInv, NEW b \in Batches, Known(b)
  PROVE  batches[b].status # "absent"
BY ServiceAssumption DEF Known, ServiceInv, SubmitInv, AnswersStored, Stored

LEMMA CancelInvStep ==
  ASSUME ServiceInv, [Next]_vars
  PROVE  CancelsKnown' /\ RefusalJustified'
<1>1. TypeOK /\ StoreTypeOK /\ StoreMoves /\ CancelsKnown /\ RefusalJustified
  BY StepMoves DEF ServiceInv, TypeOK
<1>2. ASSUME NEW b \in Batches
      PROVE  /\ batches[b].status # "absent" => batches'[b].status # "absent"
             /\ batches[b].status \in Verdicts \cup {"cancelled"} =>
                  batches'[b].status \in Verdicts \cup {"cancelled"}
  BY <1>1, StoredStays, VerdictsStay
<1>3. ASSUME NEW c \in Cancels
      PROVE  /\ cancel[c].batch \in Batches \cup {None}
             /\ cancel[c].at \in {"update", "refused"} => cancel[c].batch # None
             /\ cancel[c].batch # None => batches[cancel[c].batch].status # "absent"
             /\ cancel[c].at = "refused" =>
                  batches[cancel[c].batch].status \in Verdicts \cup {"cancelled"}
  BY <1>1 DEF TypeOK, Cancellation, CancelsKnown, RefusalJustified
<1>4. SUFFICES ASSUME NEW c \in Cancels
               PROVE  /\ cancel'[c].at \in {"update", "refused"} => cancel'[c].batch # None
                      /\ cancel'[c].batch # None => batches'[cancel'[c].batch].status # "absent"
                      /\ cancel'[c].at = "refused" =>
                           batches'[cancel'[c].batch].status \in Verdicts \cup {"cancelled"}
  BY DEF CancelsKnown, RefusalJustified
<1>5. CASE cancel'[c] = cancel[c]
  BY <1>2, <1>3, <1>5
<1>6. ASSUME NEW b \in Batches \cup {None}, RequestCancel(c, b)
      PROVE  /\ cancel'[c].at = "check" /\ cancel'[c].batch = b
             /\ b # None => batches'[b].status # "absent"
  <2>1. cancel'[c] = [at |-> "check", batch |-> b] /\ Known(b)
    BY <1>1, <1>6 DEF RequestCancel, TypeOK
  <2>2. b # None => batches[b].status # "absent"
    BY <2>1, KnownIsThere
  <2> QED
    BY <1>2, <2>1, <2>2
<1>7. ASSUME CheckCancel(c)
      PROVE  /\ cancel'[c].batch = cancel[c].batch
             /\ cancel'[c].at \in {"update", "refused"} => cancel[c].batch # None
             /\ cancel'[c].at = "refused" =>
                  batches[cancel[c].batch].status \in Verdicts \cup {"cancelled"}
  <2>1. CASE cancel[c].batch = None
    BY <1>1, <1>7, <2>1 DEF CheckCancel, TypeOK, Cancellation
  <2>2. CASE cancel[c].batch # None
    <3>1. batches[cancel[c].batch].status \in BatchStatus
      BY <1>1, <1>3, <2>2 DEF StoreTypeOK, BatchRow
    <3>2. /\ cancel'[c].batch = cancel[c].batch
          /\ cancel'[c].at = "refused" => batches[cancel[c].batch].status \notin Cancellable
      BY <1>1, <1>7, <2>2 DEF CheckCancel, TypeOK, Cancellation
    <3> QED
      BY <2>2, <3>1, <3>2 DEF BatchStatus, Cancellable, Verdicts
  <2> QED
    BY <2>1, <2>2
<1>8. ASSUME UpdateCancelled(c) \/ CancelCallFails(c)
      PROVE  cancel'[c].batch = cancel[c].batch /\ cancel'[c].at \in {"cancelled", "error"}
  BY <1>1, <1>8 DEF UpdateCancelled, CancelCallFails, TypeOK, Cancellation
<1>9. \/ cancel'[c] = cancel[c]
      \/ \E b \in Batches \cup {None} : RequestCancel(c, b)
      \/ CheckCancel(c) \/ UpdateCancelled(c) \/ CancelCallFails(c)
  <2>1. CASE CancelStep
    BY <1>1, <2>1 DEF CancelStep, RequestCancel, CheckCancel, UpdateCancelled, CancelCallFails,
                      TypeOK
  <2>2. CASE SubmitStep \/ QueryStep \/ WorkerStep \/ UNCHANGED vars
    BY <2>2 DEF SubmitStep, CheckKey, Create, Insert, SaveKey, SubmitCallFails, SubmitGone,
                QueryStep, AskStatus, QueryDone, QueryFailed, QueryBatch, WorkerStep, vars
  <2> QED
    BY <2>1, <2>2, NextSteps
<1> QED
  BY <1>2, <1>3, <1>5, <1>6, <1>7, <1>8, <1>9

(* What a report says, against the counts d and f of its batch and the     *)
(* batches table.                                                          *)
ReportSound(row, d, f, table) ==
  /\ row.at \in {"countFailed", "batch", "answered"} => row.batch # None
  /\ row.at \in {"idle", "countDone", "countFailed"} => row.status = "absent"
  /\ row.at = "countFailed" => row.success <= d
  /\ row.at \in {"batch", "answered"} =>
       /\ row.success <= d
       /\ row.failed <= f
       /\ row.success + row.failed <= TotalItems(row.batch)
       /\ row.status \in Verdicts => table[row.batch].status = row.status

(* The counts of a report were read before now, and its batch after them.  *)
LEMMA QueryInvStep ==
  ASSUME ServiceInv, [Next]_vars
  PROVE  QueriesKnown' /\ ReportsNeverAhead'
<1>1. TypeOK /\ StoreTypeOK /\ StoreMoves /\ QueriesKnown /\ ReportsNeverAhead
  BY StepMoves DEF ServiceInv, TypeOK
<1>2. ASSUME NEW b \in Batches
      PROVE  /\ DoneCount(b) \in Nat /\ FailedCount(b) \in Nat /\ TotalItems(b) \in Nat
             /\ DoneNext(b) \in Nat /\ FailedNext(b) \in Nat
             /\ DoneCount(b) <= DoneNext(b) /\ FailedCount(b) <= FailedNext(b)
             /\ DoneCount(b) + FailedCount(b) <= TotalItems(b)
             /\ batches[b].status \in Verdicts => batches'[b].status = batches[b].status
  BY <1>1, CountsAreNat, CountsGrow, CountsWithinTotal, VerdictsStay DEF DoneCount, FailedCount
<1>3. ASSUME NEW q \in Queries
      PROVE  /\ query[q].batch \in Batches \cup {None}
             /\ query[q].success \in Nat /\ query[q].failed \in Nat
  BY <1>1 DEF TypeOK, Report
<1>4. SUFFICES ASSUME NEW q \in Queries
               PROVE  ReportSound(query'[q], DoneNext(query'[q].batch),
                                  FailedNext(query'[q].batch), batches')
  BY DEF QueriesKnown, ReportsNeverAhead, ReportSound, DoneCount, FailedCount, DoneNext,
         FailedNext, TotalItems, WithStatus, ItemsOf
<1> DEFINE b == query[q].batch
<1>5. ReportSound(query[q], DoneCount(b), FailedCount(b), batches)
  BY <1>1 DEF QueriesKnown, ReportsNeverAhead, ReportSound
<1> DEFINE d == DoneNext(b)
           f == FailedNext(b)
<1>6. query[q].at \in {"countFailed", "batch", "answered"} =>
        /\ b \in Batches
        /\ d \in Nat /\ f \in Nat
        /\ DoneCount(b) \in Nat /\ FailedCount(b) \in Nat
        /\ DoneCount(b) <= d /\ FailedCount(b) <= f
  BY <1>2, <1>3, <1>5 DEF ReportSound
<1>7. CASE query'[q] = query[q]
  <2>1. query[q].at = "countFailed" => query[q].success <= d
    BY <1>3, <1>5, <1>6 DEF ReportSound
  <2>2. query[q].at \in {"batch", "answered"} => query[q].success <= d /\ query[q].failed <= f
    BY <1>3, <1>5, <1>6 DEF ReportSound
  <2>3. query[q].at \in {"batch", "answered"} /\ query[q].status \in Verdicts =>
          batches'[b].status = query[q].status
    BY <1>2, <1>5, <1>6 DEF ReportSound
  <2>4. ReportSound(query[q], d, f, batches')
    BY <1>5, <2>1, <2>2, <2>3 DEF ReportSound
  <2> QED
    BY <1>7, <2>4
<1>8. ASSUME NEW c \in Batches \cup {None}, AskStatus(q, c)
      PROVE  /\ query'[q].at = "countDone" /\ query'[q].status = "absent"
  BY <1>1, <1>5, <1>8 DEF AskStatus, TypeOK, Report, ReportSound
<1>9. ASSUME QueryDone(q)
      PROVE  /\ query'[q].status = "absent"
             /\ \/ query'[q].at = "error"
                \/ /\ query'[q].at = "countFailed" /\ b # None
                   /\ query'[q].batch = b /\ query'[q].success = DoneCount(b)
  BY <1>1, <1>5, <1>9 DEF QueryDone, TypeOK, Report, ReportSound
<1>10. CASE QueryDone(q)
  <2>1. CASE query'[q].at = "error"
    BY <1>9, <1>10, <2>1 DEF ReportSound
  <2>2. CASE query'[q].at = "countFailed"
    <3>1. /\ b \in Batches /\ query'[q].batch = b /\ query'[q].success = DoneCount(b)
          /\ query'[q].status = "absent"
      BY <1>3, <1>9, <1>10, <2>2
    <3>2. DoneCount(b) <= d
      BY <1>2, <3>1
    <3> QED
      BY <1>9, <1>10, <2>2, <3>1, <3>2 DEF ReportSound
  <2> QED
    BY <1>9, <1>10, <2>1, <2>2
<1>11. CASE QueryFailed(q)
  <2>1. /\ query[q].at = "countFailed" /\ UNCHANGED storeVars
        /\ query'[q].at = "batch" /\ query'[q].batch = b
        /\ query'[q].success = query[q].success
        /\ query'[q].failed = FailedCount(b)
        /\ query'[q].status = "absent"
    BY <1>1, <1>5, <1>11 DEF QueryFailed, TypeOK, Report, ReportSound
  <2>2. b \in Batches /\ query[q].success <= DoneCount(b)
    BY <1>5, <1>6, <2>1 DEF ReportSound
  <2>3. /\ query[q].success <= d /\ FailedCount(b) <= f
        /\ query[q].success + FailedCount(b) <= TotalItems(b)
    BY <1>2, <1>3, <2>2
  <2> QED
    BY <2>1, <2>2, <2>3, ServiceAssumption DEF ReportSound, Verdicts
<1>12. CASE QueryBatch(q)
  <2>1. /\ query[q].at = "batch" /\ batches' = batches
        /\ query'[q].at = "answered" /\ query'[q].batch = b
        /\ query'[q].success = query[q].success
        /\ query'[q].failed = query[q].failed
        /\ query'[q].status = batches[b].status
    BY <1>1, <1>12 DEF QueryBatch, TypeOK, Report, storeVars
  <2>2. query[q].success <= d /\ query[q].failed <= f
    BY <1>3, <1>5, <1>6, <2>1 DEF ReportSound
  <2>3. b # None /\ query[q].success + query[q].failed <= TotalItems(b)
    BY <1>5, <2>1 DEF ReportSound
  <2> QED
    BY <2>1, <2>2, <2>3 DEF ReportSound
<1>13. \/ query'[q] = query[q]
       \/ \E c \in Batches \cup {None} : AskStatus(q, c)
       \/ QueryDone(q) \/ QueryFailed(q) \/ QueryBatch(q)
  <2>1. CASE QueryStep
    BY <1>1, <2>1 DEF QueryStep, AskStatus, QueryDone, QueryFailed, QueryBatch, TypeOK
  <2>2. CASE SubmitStep \/ CancelStep \/ WorkerStep \/ UNCHANGED vars
    BY <2>2 DEF SubmitStep, CheckKey, Create, Insert, SaveKey, SubmitCallFails, SubmitGone,
                CancelStep, RequestCancel, CheckCancel, UpdateCancelled, CancelCallFails,
                WorkerStep, vars
  <2> QED
    BY <2>1, <2>2, NextSteps
<1>14. CASE \E c \in Batches \cup {None} : AskStatus(q, c)
  BY <1>8, <1>14 DEF ReportSound
<1> QED
  BY <1>7, <1>10, <1>11, <1>12, <1>13, <1>14

LEMMA ServiceStep ==
  ASSUME ServiceInv, [Next]_vars
  PROVE  ServiceInv'
BY TypeStep, SubmitInvStep, CancelInvStep, QueryInvStep DEF ServiceInv

LEMMA ServiceInvariant == Spec => []ServiceInv
<1>1. ServiceInv /\ [Next]_vars => ServiceInv'
  BY ServiceStep
<1> QED
  BY <1>1, ServiceInit, PTL DEF Spec
-----------------------------------------------------------------------------
(* What holds in every reachable state.                                    *)

(* Every row, answer and report has a value of its type: no count is       *)
(* negative and no retry counter leaves its SMALLINT column.               *)
THEOREM TypeCorrect == Spec => []TypeOK
<1>1. ServiceInv => TypeOK
  BY DEF ServiceInv
<1> QED
  BY <1>1, ServiceInvariant, PTL

(* However many requests carry a key, and whichever of their calls fail,   *)
(* those that are accepted are given one and the same batch.               *)
THEOREM OneBatchPerKey == Spec => []SameKeySameBatch
<1>1. ServiceInv => SameKeySameBatch
  BY DEF ServiceInv, TypeOK, SubmitInv, KeysUnique, AnswersStored, Stored, SameKeySameBatch
<1> QED
  BY <1>1, ServiceInvariant, PTL

(* A client is never given the id of a batch that is not stored with all   *)
(* its items.                                                              *)
THEOREM AcceptedStored == Spec => []AcceptedIsStored
<1>1. ServiceInv => AcceptedIsStored
  BY DEF ServiceInv, SubmitInv, AnswersStored, AcceptedIsStored
<1> QED
  BY <1>1, ServiceInvariant, PTL

(* A status report read in three queries between the workers' statements   *)
(* is never ahead of the batch and counts no item twice.                   *)
THEOREM ReportsSound == Spec => []ReportsNeverAhead
<1>1. ServiceInv => ReportsNeverAhead
  BY DEF ServiceInv
<1> QED
  BY <1>1, ServiceInvariant, PTL

(* A cancellation is refused only for a batch that is completed or         *)
(* cancelled, and stays so.                                                *)
THEOREM RefusalsSound == Spec => []RefusalJustified
<1>1. ServiceInv => RefusalJustified
  BY DEF ServiceInv
<1> QED
  BY <1>1, ServiceInvariant, PTL
=============================================================================
