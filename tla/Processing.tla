----------------------------- MODULE Processing ------------------------------
(***************************************************************************)
(* The workers of one node and the circuit breaker they share: the answer  *)
(* that processItem gets is what SendItem of systemc_client.go makes of    *)
(* System C's, or the breaker's refusal.  System C is seen from its side:  *)
(* what it was asked and what it processed.  A node that goes down loses   *)
(* its breaker, and System C may still process what is on its way.  Failed *)
(* calls to Postgres are left to WorkerPool.                               *)
(***************************************************************************)
EXTENDS OutboxStore

CONSTANTS
  Workers,       \* the workers of the node
  ItemsPerPoll,  \* Worker.ItemsPerPoll
  BadItems,      \* the items System C turns down
  Refusals,      \* what it answers them with
  MaxRequests, MinRequests, RatioNum, RatioDen,  \* the breaker's settings
  WaitMayFail,   \* the rate limiter may fail a call
  MaxOutages,    \* bound: outages of System C in a behaviour
  MaxWindow,     \* bound: requests counted in one window
  MaxCrashes,    \* bound: node crashes in a behaviour
  NoJob          \* the job of a worker that has none

VARIABLES
  pc, rows, job, crashes,                         \* of WorkerPool
  state, requests, failures, successes, callerPc, \* of SystemCClient
  current, admittedIn, met, up, outages,
  sending,       \* the row each worker's call to SendItem is about
  asked,         \* how often System C was asked to process each item
  processed      \* how often it did

poolVars == <<batches, items, outbox, dlq, pc, rows, job, crashes>>

breakerVars == <<state, requests, failures, successes, callerPc, current, admittedIn,
                met>>

systemCVars == <<up, outages>>

effectVars == <<sending, asked, processed>>

vars == <<poolVars, breakerVars, systemCVars, effectVars>>

Node == "node"

Pool == INSTANCE WorkerPool WITH
  Nodes <- {Node}, Host <- [w \in Workers |-> Node],
  Replies <- [ok : BOOLEAN, fits : {TRUE}],
  SlowClaims <- FALSE, MaxDbErrors <- 0, dbErrors <- 0

Client == INSTANCE SystemCClient WITH
  Callers <- Workers, pc <- callerPc

(* What the two modules assume of their constants.                         *)
ASSUME ProcessingAssumption ==
  /\ IsFiniteSet(Workers)
  /\ ItemsPerPoll \in Nat \ {0}
  /\ MaxRequests \in Nat \ {0}
  /\ MinRequests \in Nat
  /\ RatioNum \in Nat
  /\ RatioDen \in Nat \ {0}
  /\ Refusals \subseteq Client!ItemFault
  /\ WaitMayFail \in BOOLEAN
  /\ MaxOutages \in Nat
  /\ MaxWindow \in Nat /\ MaxRequests <= MaxWindow
  /\ MaxCrashes \in Nat
  /\ NoJob \notin Pool!Job
-----------------------------------------------------------------------------
Init ==
  /\ Pool!Init
  /\ Client!Init
  /\ sending = [w \in Workers |-> NoJob]
  /\ asked = [i \in Items |-> 0]
  /\ processed = [i \in Items |-> 0]

(* SendItem is called for row r.                                           *)
Send(w, r) ==
  /\ pc[w] = "send"
  /\ r \in rows[w]
  /\ Client!Wait(w)
  /\ sending' = [sending EXCEPT ![w] = r]
  /\ UNCHANGED <<poolVars, systemCVars, asked, processed>>

(* The rate limiter fails the call, and with it the try ...                *)
WaitFailed(w) ==
  /\ Client!WaitFails(w)
  /\ Pool!SendItem(w, sending[w], [ok |-> FALSE, fits |-> TRUE])
  /\ sending' = [sending EXCEPT ![w] = NoJob]
  /\ UNCHANGED <<asked, processed>>

(* ... or the breaker lets the request through ...                         *)
Ask(w) ==
  /\ Client!Admit(w)
  /\ asked' = [asked EXCEPT ![sending[w].item] = @ + 1]
  /\ UNCHANGED <<poolVars, sending, processed>>

(* ... or processItem sees ErrOpenState or ErrTooManyRequests as a failed  *)
(* try like any other.                                                     *)
RefusalTakenForSuccess(w) ==
  /\ Client!Refuse(w)
  /\ Pool!SendItem(w, sending[w], [ok |-> TRUE, fits |-> TRUE])
  /\ sending' = [sending EXCEPT ![w] = NoJob]
  /\ UNCHANGED <<asked, processed>>

Refused(w) ==
  /\ Client!Refuse(w)
  /\ Pool!SendItem(w, sending[w], [ok |-> FALSE, fits |-> TRUE])
  /\ sending' = [sending EXCEPT ![w] = NoJob]
  /\ UNCHANGED <<asked, processed>>

(* What System C does with an item it is asked about: it answers ok once   *)
(* it has processed it, and may have done so when no answer arrives.       *)
Answers(i) ==
  IF i \in BadItems THEN Refusals ELSE {"ok", "serverError", "noAnswer"}

Effect(answer) ==
  CASE answer = "ok" -> {1}
    [] answer = "noAnswer" -> {0, 1}
    [] OTHER -> {0}

Answered(w, answer) ==
  /\ callerPc[w] = "inFlight"
  /\ answer \in Answers(sending[w].item)
  /\ Client!Return(w, answer)
  /\ Pool!SendItem(w, sending[w], [ok |-> answer = "ok", fits |-> TRUE])
  /\ \E n \in Effect(answer) : processed' = [processed EXCEPT ![sending[w].item] = @ + n]
  /\ sending' = [sending EXCEPT ![w] = NoJob]
  /\ UNCHANGED asked

Record(w) ==
  /\ pc[w] # "send"
  /\ Pool!Work(w)
  /\ UNCHANGED <<breakerVars, systemCVars, effectVars>>

Claim(w, S) == Pool!Claim(w, S) /\ UNCHANGED <<breakerVars, systemCVars, effectVars>>

CleanStaleLocks(S) ==
  Pool!CleanStaleLocks(S) /\ UNCHANGED <<breakerVars, systemCVars, effectVars>>

Submit == Pool!Client /\ UNCHANGED <<breakerVars, systemCVars, effectVars>>

Breaker ==
  /\ Client!WindowEnds \/ Client!OpenTimeout \/ Client!Outage \/ Client!Recovery
  /\ UNCHANGED <<poolVars, effectVars>>

(* The node goes down; what it had asked may be processed all the same.    *)
OnTheWay == {sending[w].item : w \in Client!InFlight}

Crash ==
  /\ Pool!Crash(Node)
  /\ \E S \in SUBSET (OnTheWay \ BadItems) :
       processed' = [i \in Items |-> IF i \in S THEN processed[i] + 1 ELSE processed[i]]
  /\ Client!NewGeneration("closed")
  /\ callerPc' = [w \in Workers |-> "idle"]
  /\ admittedIn' = [w \in Workers |-> "closed"]
  /\ met' = [w \in Workers |-> {}]
  /\ sending' = [w \in Workers |-> NoJob]
  /\ UNCHANGED <<systemCVars, asked>>

Restart == Pool!Restart(Node) /\ UNCHANGED <<breakerVars, systemCVars, effectVars>>

Next ==
  \/ Submit
  \/ \E w \in Workers, S \in SUBSET PendingRows : Claim(w, S)
  \/ \E w \in Workers :
       \/ \E r \in rows[w] : Send(w, r)
       \/ WaitFailed(w)
       \/ Ask(w)
       \/ Refused(w)
       \/ \E answer \in Client!Answer : Answered(w, answer)
       \/ Record(w)
  \/ \E S \in SUBSET Pool!StaleRows : CleanStaleLocks(S)
  \/ Breaker
  \/ Crash
  \/ Restart

Spec == Init /\ [][Next]_vars
-----------------------------------------------------------------------------
(* System C processes an item once: a second time only if an outage ate an *)
(* answer or the node went down, whatever the breaker refuses and however  *)
(* the workers share the items.                                            *)
ProcessedOnce ==
  outages = 0 /\ crashes = 0 => \A i \in Items : processed[i] <= 1

(* An item that counts as done was processed by System C.                  *)
DoneWasProcessed ==
  \A i \in Items : items[i].status = "done" => processed[i] > 0

(* Every time System C is asked about an item costs the item a try: it is  *)
(* never asked more often than its retries allow, across refusals, crashes *)
(* and stale locks that were taken back.                                   *)
AskedWithinTries ==
  \A i \in Items :
    asked[i] <= items[i].retry + (IF items[i].status = "processing" THEN 1 ELSE 0)

-----------------------------------------------------------------------------
(* What the comments say and the code does not do.                         *)

(* "for 4xx errors we usually don't want to trip the circuit breaker": an  *)
(* item that System C would have processed is not given up because it      *)
(* turns down other items.                                                 *)
GoodItemsProcessed ==
  outages = 0 => \A i \in Items \ BadItems : items[i].status # "failed"
=============================================================================
