--------------------------- MODULE SystemCClient ----------------------------
(***************************************************************************)
(* The client through which the workers of one node send items to System C *)
(* (systemc_client.go): a circuit breaker shared by all of them.  The      *)
(* breaker is github.com/sony/gobreaker, modelled from the settings        *)
(* NewSystemCClient gives it: its state and counts change when a call is   *)
(* admitted and again when the call's answer is in, and other workers'     *)
(* calls come in between.                                                  *)
(*                                                                         *)
(* The breaker numbers its generations and ignores an answer to a call of  *)
(* an earlier one.  Numbers are never used twice, so that of a generation  *)
(* only whether it is still the current one is kept.                       *)
(***************************************************************************)
EXTENDS Integers, FiniteSets

CONSTANTS
  Callers,       \* the workers of the node
  MaxRequests,   \* CB.MaxRequestsHalfOpen
  MinRequests,   \* CB.MinRequestsToTrip
  RatioNum,      \* CB.FailureRatioThreshold is RatioNum / RatioDen
  RatioDen,
  WaitMayFail,   \* the limiter's Wait may fail: its context is cancelled, or its
                 \* burst, SystemC.RateLimitPerSecond, is not positive
  MaxOutages,    \* bound: outages of System C in a behaviour
  MaxWindow      \* bound: requests counted in one window

(* A status below 400; one of 4xx, or of 5xx, that System C gives the item *)
(* although it is well (its fail pattern, its failure rate); one of 5xx,   *)
(* or an error of the HTTP client, because it is not.                      *)
Answer == {"ok", "clientError", "itemError", "serverError", "noAnswer"}

ItemFault == {"clientError", "itemError"}

ASSUME ClientAssumption ==
  /\ IsFiniteSet(Callers)
  /\ MaxRequests \in Nat \ {0}
  /\ MinRequests \in Nat
  /\ RatioNum \in Nat
  /\ RatioDen \in Nat \ {0}
  /\ WaitMayFail \in BOOLEAN
  /\ MaxOutages \in Nat
  /\ MaxWindow \in Nat /\ MaxRequests <= MaxWindow

VARIABLES
  state,         \* of the breaker
  requests,      \* Counts.Requests
  failures,      \* Counts.TotalFailures
  successes,     \* Counts.ConsecutiveSuccesses
  pc,            \* what each caller is at
  current,       \* the callers whose request is of the current generation
  admittedIn,    \* the breaker's state when it admitted each caller
  met,           \* how System C has been since each caller's request was sent
  up,            \* System C is well
  outages        \* its outages so far

countVars == <<requests, failures, successes>>

systemCVars == <<up, outages>>

vars == <<state, requests, failures, successes, pc, current, admittedIn, met, up, outages>>
-----------------------------------------------------------------------------
State == {"closed", "open", "halfOpen"}

InFlight == {c \in Callers : pc[c] = "inFlight"}

(* ReadyToTrip.                                                            *)
ReadyToTrip(reqs, fails) ==
  /\ reqs >= MinRequests
  /\ fails * RatioDen >= reqs * RatioNum

(* A new generation: the counts start again and no answer to a request     *)
(* sent before will be counted.                                            *)
NewGeneration(s) ==
  /\ state' = s
  /\ requests' = 0
  /\ failures' = 0
  /\ successes' = 0
  /\ current' = {}

Init ==
  /\ state = "closed"
  /\ requests = 0
  /\ failures = 0
  /\ successes = 0
  /\ pc = [c \in Callers |-> "idle"]
  /\ current = {}
  /\ admittedIn = [c \in Callers |-> "closed"]
  /\ met = [c \in Callers |-> {}]
  /\ up = TRUE
  /\ outages = 0
-----------------------------------------------------------------------------
(* SendItem waits for the rate limiter, which fails it or lets it pass to  *)
(* the breaker.                                                            *)
Wait(c) ==
  /\ pc[c] = "idle"
  /\ pc' = [pc EXCEPT ![c] = "waiting"]
  /\ UNCHANGED <<state, countVars, current, admittedIn, met, systemCVars>>

WaitFails(c) ==
  /\ WaitMayFail
  /\ pc[c] = "waiting"
  /\ pc' = [pc EXCEPT ![c] = "idle"]
  /\ UNCHANGED <<state, countVars, current, admittedIn, met, systemCVars>>

(* Execute admits the request or refuses it at once: with ErrOpenState     *)
(* while it is open, with ErrTooManyRequests while it is half-open and has *)
(* admitted MaxRequests already.                                           *)
Admits ==
  \/ state = "closed"
  \/ state = "halfOpen" /\ requests < MaxRequests

AdmitUnlessOpen(c) ==
  /\ pc[c] = "waiting"
  /\ state # "open"
  /\ requests < MaxWindow
  /\ requests' = requests + 1
  /\ pc' = [pc EXCEPT ![c] = "inFlight"]
  /\ current' = current \cup {c}
  /\ admittedIn' = [admittedIn EXCEPT ![c] = state]
  /\ met' = [met EXCEPT ![c] = {up}]
  /\ UNCHANGED <<state, failures, successes, systemCVars>>

Admit(c) ==
  /\ pc[c] = "waiting"
  /\ Admits
  /\ requests < MaxWindow
  /\ requests' = requests + 1
  /\ pc' = [pc EXCEPT ![c] = "inFlight"]
  /\ current' = current \cup {c}
  /\ admittedIn' = [admittedIn EXCEPT ![c] = state]
  /\ met' = [met EXCEPT ![c] = {up}]
  /\ UNCHANGED <<state, failures, successes, systemCVars>>

Refuse(c) ==
  /\ pc[c] = "waiting"
  /\ ~Admits
  /\ pc' = [pc EXCEPT ![c] = "idle"]
  /\ UNCHANGED <<state, countVars, current, admittedIn, met, systemCVars>>

(* An answer is counted if it belongs to the current generation.           *)
Counted(c) == c \in current

SucceedsOnceMore(c) ==
  IF state = "halfOpen" /\ successes >= MaxRequests
  THEN NewGeneration("closed")
  ELSE /\ successes' = successes + 1
       /\ current' = current \ {c}
       /\ UNCHANGED <<state, requests, failures>>

Succeeds(c) ==
  IF state = "halfOpen" /\ successes + 1 >= MaxRequests
  THEN NewGeneration("closed")
  ELSE /\ successes' = successes + 1
       /\ current' = current \ {c}
       /\ UNCHANGED <<state, requests, failures>>

Fails(c) ==
  IF state = "halfOpen" \/ ReadyToTrip(requests, failures + 1)
  THEN NewGeneration("open")
  ELSE /\ failures' = failures + 1
       /\ successes' = 0
       /\ current' = current \ {c}
       /\ UNCHANGED <<state, requests>>

(* The answer to a request is that of a System C it has met: one that was  *)
(* down when it was sent, or any time since, may fail it after recovery.   *)
Possible(c, answer) ==
  IF answer \in {"ok"} \cup ItemFault THEN TRUE \in met[c] ELSE FALSE \in met[c]

ReturnCountsLateAnswers(c, answer) ==
  /\ pc[c] = "inFlight"
  /\ Possible(c, answer)
  /\ pc' = [pc EXCEPT ![c] = "idle"]
  /\ met' = [met EXCEPT ![c] = {}]
  /\ IF answer = "ok" THEN Succeeds(c) ELSE Fails(c)
  /\ UNCHANGED <<admittedIn, systemCVars>>

(* The answer is in: the function given to Execute returns an error unless *)
(* the status is below 400, and the breaker counts what it returned.       *)
Return(c, answer) ==
  /\ pc[c] = "inFlight"
  /\ Possible(c, answer)
  /\ pc' = [pc EXCEPT ![c] = "idle"]
  /\ met' = [met EXCEPT ![c] = {}]
  /\ \/ /\ ~Counted(c)
        /\ UNCHANGED <<state, countVars, current>>
     \/ /\ Counted(c)
        /\ IF answer = "ok" THEN Succeeds(c) ELSE Fails(c)
  /\ UNCHANGED <<admittedIn, systemCVars>>
-----------------------------------------------------------------------------
(* Interval ends while the breaker is closed, Timeout while it is open.    *)
WindowEnds ==
  /\ state = "closed"
  /\ requests > 0
  /\ NewGeneration("closed")
  /\ UNCHANGED <<pc, admittedIn, met, systemCVars>>

OpenTimeout ==
  /\ state = "open"
  /\ NewGeneration("halfOpen")
  /\ UNCHANGED <<pc, admittedIn, met, systemCVars>>

(* System C goes down, or out of reach, and comes back: what is in flight  *)
(* meets it as it is then.                                                 *)
MeetsItNow ==
  met' = [c \in Callers |-> IF c \in InFlight THEN met[c] \cup {up'} ELSE met[c]]

Outage ==
  /\ up
  /\ outages < MaxOutages
  /\ up' = FALSE
  /\ outages' = outages + 1
  /\ MeetsItNow
  /\ UNCHANGED <<state, countVars, pc, current, admittedIn>>

Recovery ==
  /\ ~up
  /\ up' = TRUE
  /\ MeetsItNow
  /\ UNCHANGED <<state, countVars, pc, current, admittedIn, outages>>
-----------------------------------------------------------------------------
Next ==
  \/ \E c \in Callers : Wait(c) \/ WaitFails(c) \/ Admit(c) \/ Refuse(c)
  \/ \E c \in Callers, answer \in Answer : Return(c, answer)
  \/ WindowEnds
  \/ OpenTimeout
  \/ Outage
  \/ Recovery

Spec == Init /\ [][Next]_vars

(* A request has a timeout, and so has the open state.  Nothing makes a    *)
(* worker send an item, or the limiter let it pass.                        *)
Fairness ==
  /\ \A c \in Callers : WF_vars(\E answer \in Answer : Return(c, answer))
  /\ WF_vars(OpenTimeout)

FairSpec == Spec /\ Fairness
-----------------------------------------------------------------------------
TypeOK ==
  /\ state \in State
  /\ requests \in 0..MaxWindow
  /\ failures \in 0..MaxWindow
  /\ successes \in 0..MaxWindow
  /\ pc \in [Callers -> {"idle", "waiting", "inFlight"}]
  /\ current \subseteq Callers
  /\ admittedIn \in [Callers -> {"closed", "halfOpen"}]
  /\ met \in [Callers -> SUBSET BOOLEAN]
  /\ up \in BOOLEAN
  /\ outages \in 0..MaxOutages

(* The counts are those of the current generation's requests: each is in   *)
(* flight, or was counted once.  At most MaxRequests probes are in flight  *)
(* while the breaker is half-open, and a half-open breaker that admits no  *)
(* more of them waits for one: it cannot be stuck.                         *)
CountsAccount ==
  /\ current \subseteq InFlight
  /\ state = "open" => current = {}
  /\ state = "closed" => requests >= failures + Cardinality(current)
  /\ state = "halfOpen" =>
       /\ requests = successes + Cardinality(current)
       /\ successes < MaxRequests
       /\ failures = 0
       /\ Cardinality(current) <= MaxRequests

(* Only a probe decides what becomes of a half-open breaker: a late answer *)
(* to a request it admitted before it opened neither reopens nor closes it.*)
ProbesDecide ==
  [][state = "halfOpen" /\ state' # "halfOpen" =>
       \E c \in Callers :
         admittedIn[c] = "halfOpen" /\ pc[c] = "inFlight" /\ pc'[c] = "idle"]_vars

(* If System C recovers, turns down no item any more and requests keep     *)
(* reaching the breaker, then it closes for good, whatever late failures   *)
(* and probes it has to go through.                                        *)
BreakerRecovers ==
  /\ <>[]up
  /\ <>[][\A c \in current, answer \in ItemFault : ~Return(c, answer)]_vars
  /\ []<><<\E c \in Callers : Admit(c) \/ Refuse(c)>>_vars
  => <>[](state = "closed")
=============================================================================
