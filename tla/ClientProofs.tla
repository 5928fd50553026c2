---------------------------- MODULE ClientProofs -----------------------------
(***************************************************************************)
(* Theorems about SystemCClient, for every number of workers, every        *)
(* setting of the breaker and any number of outages.                       *)
(***************************************************************************)
EXTENDS SystemCClient, FiniteSetTheorems, TLAPS

(* The inductive invariant.  Of the requests a closed breaker has counted,  *)
(* each was a success or a failure, or is in flight; the successes are     *)
(* those since the last failure.                                           *)
WindowAccounts ==
  state = "closed" => requests >= failures + successes + Cardinality(current)

ProbesLimited == state = "halfOpen" => requests <= MaxRequests

(* An answer that will be counted is to a request that the breaker         *)
(* admitted in the state it still is in.                                   *)
CurrentAdmittedNow == \A c \in current : admittedIn[c] = state

CountsInv ==
  /\ TypeOK
  /\ CountsAccount
  /\ WindowAccounts
  /\ ProbesLimited
  /\ CurrentAdmittedNow

(* The sets whose members are counted are finite.                          *)
LEMMA FiniteCallers ==
  ASSUME NEW S, S \subseteq Callers
  PROVE  IsFiniteSet(S) /\ Cardinality(S) \in Nat
BY ClientAssumption, FS_Subset, FS_CardinalityType

LEMMA NoneCounted == Cardinality({}) = 0
BY FS_EmptySet

(* A new generation accounts for nothing.                                  *)
LEMMA FreshCounts ==
  ASSUME CountsInv, NEW s \in State, NewGeneration(s),
         pc' \in [Callers -> {"idle", "waiting", "inFlight"}],
         met' \in [Callers -> SUBSET BOOLEAN],
         UNCHANGED <<admittedIn, systemCVars>>
  PROVE  CountsInv'
<1>1. MaxWindow \in Nat /\ MaxRequests \in Nat /\ 0 < MaxRequests
  BY ClientAssumption
<1>2. TypeOK'
  BY <1>1 DEF CountsInv, TypeOK, NewGeneration, State, systemCVars
<1>3. CountsAccount' /\ WindowAccounts' /\ ProbesLimited' /\ CurrentAdmittedNow'
  BY <1>1, NoneCounted
  DEF CountsAccount, WindowAccounts, ProbesLimited, CurrentAdmittedNow, NewGeneration
<1> QED
  BY <1>2, <1>3 DEF CountsInv

LEMMA AdmitStep ==
  ASSUME CountsInv, NEW c \in Callers, Admit(c)
  PROVE  CountsInv'
<1>1. /\ c \notin current /\ current \subseteq Callers
      /\ current' = current \cup {c}
  BY DEF CountsInv, CountsAccount, InFlight, TypeOK, Admit
<1>2. /\ Cardinality(current) \in Nat
      /\ Cardinality(current') = Cardinality(current) + 1
  BY <1>1, FiniteCallers, FS_AddElement
<1>3. /\ state' = state /\ failures' = failures /\ successes' = successes
      /\ requests' = requests + 1 /\ requests < MaxWindow
      /\ state = "closed" \/ (state = "halfOpen" /\ requests < MaxRequests)
      /\ pc' = [pc EXCEPT ![c] = "inFlight"]
      /\ admittedIn' = [admittedIn EXCEPT ![c] = state]
      /\ met' = [met EXCEPT ![c] = {up}]
      /\ up' = up /\ outages' = outages
  BY DEF Admit, Admits, systemCVars
<1>4. MaxWindow \in Nat /\ MaxRequests \in Nat /\ MaxRequests <= MaxWindow
  BY ClientAssumption
<1>5. TypeOK'
  <2>1. requests' \in 0..MaxWindow
    BY <1>3, <1>4 DEF CountsInv, TypeOK
  <2>2. met' \in [Callers -> SUBSET BOOLEAN]
    BY <1>3 DEF CountsInv, TypeOK
  <2> QED
    BY <1>1, <1>3, <2>1, <2>2 DEF CountsInv, TypeOK
<1>6. current' \subseteq InFlight'
  BY <1>1, <1>3 DEF CountsInv, CountsAccount, InFlight, TypeOK
<1>7. /\ state' = "closed" => requests' >= failures' + successes' + Cardinality(current')
      /\ state' = "closed" => requests' >= failures' + Cardinality(current')
  BY <1>2, <1>3 DEF CountsInv, WindowAccounts, TypeOK
<1>8. state' = "halfOpen" =>
        /\ requests' = successes' + Cardinality(current')
        /\ successes' < MaxRequests
        /\ failures' = 0
        /\ Cardinality(current') <= MaxRequests
        /\ requests' <= MaxRequests
  BY <1>2, <1>3, <1>4 DEF CountsInv, CountsAccount, TypeOK
<1>9. CurrentAdmittedNow'
  BY <1>1, <1>3 DEF CountsInv, CurrentAdmittedNow, TypeOK
<1> QED
  BY <1>3, <1>5, <1>6, <1>7, <1>8, <1>9 DEF CountsInv, CountsAccount, WindowAccounts, ProbesLimited

(* An answer that is counted ends its request: what is left to be counted  *)
(* is one less.                                                            *)
LEMMA ReturnStep ==
  ASSUME CountsInv, NEW c \in Callers, NEW answer \in Answer, Return(c, answer)
  PROVE  CountsInv'
<1>1. /\ pc' = [pc EXCEPT ![c] = "idle"]
      /\ pc' \in [Callers -> {"idle", "waiting", "inFlight"}]
      /\ met' \in [Callers -> SUBSET BOOLEAN]
      /\ admittedIn' = admittedIn /\ up' = up /\ outages' = outages
  BY DEF Return, CountsInv, TypeOK, systemCVars
<1>2. /\ MaxWindow \in Nat /\ MaxRequests \in Nat \ {0} /\ MaxRequests <= MaxWindow
      /\ state \in State /\ current \subseteq Callers
      /\ requests \in 0..MaxWindow /\ failures \in 0..MaxWindow /\ successes \in 0..MaxWindow
      /\ Cardinality(current) \in Nat
  BY ClientAssumption, FiniteCallers DEF CountsInv, TypeOK
<1>3. CASE ~Counted(c)
  <2>1. /\ state' = state /\ requests' = requests /\ failures' = failures
        /\ successes' = successes /\ current' = current
        /\ c \notin current
    BY <1>3 DEF Return, Counted, countVars
  <2>2. TypeOK'
    BY <1>1, <2>1 DEF CountsInv, TypeOK
  <2>3. current' \subseteq InFlight'
    BY <1>1, <2>1 DEF CountsInv, CountsAccount, InFlight, TypeOK
  <2> QED
    BY <1>1, <2>1, <2>2, <2>3
    DEF CountsInv, CountsAccount, WindowAccounts, ProbesLimited, CurrentAdmittedNow
<1>4. CASE Counted(c) /\ \E s \in State : NewGeneration(s)
  BY <1>1, <1>4, FreshCounts DEF systemCVars
<1>5. CASE /\ Counted(c) /\ state' = state /\ requests' = requests
           /\ current' = current \ {c}
           /\ \/ /\ successes' = successes + 1 /\ failures' = failures
                 /\ state = "halfOpen" => successes + 1 < MaxRequests
              \/ /\ failures' = failures + 1 /\ successes' = 0
                 /\ state # "halfOpen"
  <2>1. /\ c \in current /\ Cardinality(current') = Cardinality(current) - 1
        /\ Cardinality(current') \in Nat /\ current' \subseteq Callers
    BY <1>2, <1>5, FiniteCallers, FS_RemoveElement DEF Counted
  <2>2. state # "open"
    BY <2>1 DEF CountsInv, CountsAccount
  <2>3. failures' \in 0..MaxWindow /\ successes' \in 0..MaxWindow
    <3>1. CASE state = "closed"
      <4>1. requests >= failures + successes + Cardinality(current)
        BY <3>1 DEF CountsInv, WindowAccounts
      <4> QED
        BY <4>1, <1>2, <1>5, <2>1
    <3>2. CASE state = "halfOpen"
      BY <3>2, <1>2, <1>5 DEF CountsInv, CountsAccount
    <3> QED
      BY <3>1, <3>2, <2>2, <1>2 DEF State
  <2>4. TypeOK'
    BY <1>1, <1>5, <2>1, <2>3 DEF CountsInv, TypeOK
  <2>5. current' \subseteq InFlight'
    BY <1>1, <1>5 DEF CountsInv, CountsAccount, InFlight, TypeOK
  <2>6. state = "closed" =>
          /\ requests' >= failures' + successes' + Cardinality(current')
          /\ requests' >= failures' + Cardinality(current')
    BY <1>2, <1>5, <2>1, <2>3 DEF CountsInv, WindowAccounts
  <2>7. state = "halfOpen" =>
          /\ requests' = successes' + Cardinality(current')
          /\ successes' < MaxRequests
          /\ failures' = 0
          /\ Cardinality(current') <= MaxRequests
          /\ requests' <= MaxRequests
    BY <1>2, <1>5, <2>1 DEF CountsInv, CountsAccount, ProbesLimited
  <2>8. CurrentAdmittedNow'
    BY <1>1, <1>5 DEF CountsInv, CurrentAdmittedNow
  <2> QED
    BY <1>5, <2>2, <2>4, <2>5, <2>6, <2>7, <2>8
    DEF CountsInv, CountsAccount, WindowAccounts, ProbesLimited
<1>6. CASE Counted(c) /\ answer = "ok"
  <2>1. Succeeds(c)
    BY <1>6 DEF Return
  <2> QED
    BY <1>2, <1>4, <1>5, <1>6, <2>1 DEF Succeeds, State
<1>7. CASE Counted(c) /\ answer # "ok"
  <2>1. Fails(c)
    BY <1>7 DEF Return
  <2> QED
    BY <1>2, <1>4, <1>5, <1>7, <2>1 DEF Fails, State
<1> QED
  BY <1>3, <1>6, <1>7

(* What neither admits nor answers a request leaves the counts alone.      *)
LEMMA CountsKept ==
  ASSUME CountsInv,
         UNCHANGED <<state, countVars, current, admittedIn>>,
         pc' \in [Callers -> {"idle", "waiting", "inFlight"}],
         \A c \in Callers : pc[c] = "inFlight" => pc'[c] = "inFlight",
         met' \in [Callers -> SUBSET BOOLEAN],
         up' \in BOOLEAN, outages' \in 0..MaxOutages
  PROVE  CountsInv'
<1>1. TypeOK'
  BY DEF CountsInv, TypeOK, countVars
<1>2. current' \subseteq InFlight'
  BY DEF CountsInv, CountsAccount, InFlight
<1> QED
  BY <1>1, <1>2
  DEF CountsInv, CountsAccount, WindowAccounts, ProbesLimited, CurrentAdmittedNow, countVars

LEMMA CountsInit == Init => CountsInv
<1> SUFFICES ASSUME Init PROVE CountsInv
  OBVIOUS
<1>1. TypeOK
  BY ClientAssumption DEF Init, TypeOK, State
<1> QED
  BY <1>1, NoneCounted
  DEF Init, CountsInv, CountsAccount, WindowAccounts, ProbesLimited, CurrentAdmittedNow, InFlight

LEMMA CountsStep == CountsInv /\ [Next]_vars => CountsInv'
<1> SUFFICES ASSUME CountsInv, [Next]_vars PROVE CountsInv'
  OBVIOUS
<1> USE DEF countVars, systemCVars
<1>1. ASSUME NEW c \in Callers, Wait(c) \/ WaitFails(c) \/ Refuse(c) PROVE CountsInv'
  <2>1. /\ pc' \in [Callers -> {"idle", "waiting", "inFlight"}]
        /\ \A d \in Callers : pc[d] = "inFlight" => pc'[d] = "inFlight"
    BY <1>1 DEF Wait, WaitFails, Refuse, CountsInv, TypeOK
  <2> QED
    BY <1>1, <2>1, CountsKept DEF Wait, WaitFails, Refuse, CountsInv, TypeOK
<1>2. ASSUME NEW c \in Callers, Admit(c) PROVE CountsInv'
  BY <1>2, AdmitStep
<1>3. ASSUME NEW c \in Callers, NEW answer \in Answer, Return(c, answer) PROVE CountsInv'
  BY <1>3, ReturnStep
<1>4. CASE WindowEnds \/ OpenTimeout
  BY <1>4, FreshCounts DEF WindowEnds, OpenTimeout, State, CountsInv, TypeOK
<1>5. CASE Outage \/ Recovery
  <2>1. up' \in BOOLEAN /\ met' \in [Callers -> SUBSET BOOLEAN]
    BY <1>5 DEF Outage, Recovery, MeetsItNow, CountsInv, TypeOK
  <2>2. outages' \in 0..MaxOutages
    <3>1. outages' = outages \/ (outages < MaxOutages /\ outages' = outages + 1)
      BY <1>5 DEF Outage, Recovery
    <3> QED
      BY <3>1, ClientAssumption DEF CountsInv, TypeOK
  <2> QED
    BY <1>5, <2>1, <2>2, CountsKept DEF Outage, Recovery, CountsInv, TypeOK
<1>6. CASE UNCHANGED vars
  BY <1>6, CountsKept DEF vars, CountsInv, TypeOK
<1> QED
  BY <1>1, <1>2, <1>3, <1>4, <1>5, <1>6 DEF Next

(* No count leaves its range, however late the answers come.               *)
THEOREM TypeCorrect == Spec => []TypeOK
<1>1. CountsInv => TypeOK
  BY DEF CountsInv
<1> QED
  BY <1>1, CountsInit, CountsStep, PTL DEF Spec

(* The counts are those of the requests of the current generation, and a   *)
(* half-open breaker that admits no more probes waits for one.             *)
THEOREM CountsCorrect == Spec => []CountsAccount
<1>1. CountsInv => CountsAccount
  BY DEF CountsInv
<1> QED
  BY <1>1, CountsInit, CountsStep, PTL DEF Spec

(* A half-open breaker opens or closes only by the answer to one of its    *)
(* own probes.                                                             *)
THEOREM OnlyProbesDecide == Spec => ProbesDecide
<1> DEFINE Decided ==
      state = "halfOpen" /\ state' # "halfOpen" =>
        \E c \in Callers : admittedIn[c] = "halfOpen" /\ pc[c] = "inFlight" /\ pc'[c] = "idle"
<1>1. CountsInv /\ [Next]_vars => Decided
  <2> SUFFICES ASSUME CountsInv, Next, state = "halfOpen", state' # "halfOpen"
               PROVE  \E c \in Callers :
                        admittedIn[c] = "halfOpen" /\ pc[c] = "inFlight" /\ pc'[c] = "idle"
    BY DEF vars
  <2>1. PICK c \in Callers, answer \in Answer : Return(c, answer)
    BY DEF Next, Wait, WaitFails, Admit, Refuse, WindowEnds, OpenTimeout, Outage, Recovery
  <2>2. c \in current
    BY <2>1 DEF Return, Counted
  <2> QED
    BY <2>1, <2>2 DEF Return, CountsInv, CurrentAdmittedNow, TypeOK
<1>2. CountsInv /\ [Next]_vars => [Decided]_vars
  BY <1>1
<1> QED
  BY <1>2, CountsInit, CountsStep, PTL DEF Spec, ProbesDecide
=============================================================================
