---------------------------- MODULE ServerProofs -----------------------------
(***************************************************************************)
(* Theorems about Server, for every number of workers and requests and     *)
(* every value of the settings.                                            *)
(***************************************************************************)
EXTENDS Server, TLAPS

Idle(S) == \A l \in S : loop[l] \in {"none", "done"}

(* Nothing runs before the connection is open, and it is open until main   *)
(* closes it.                                                              *)
ConnectionOfMain ==
  /\ pc \in {"load", "connect"} =>
       /\ \A l \in Loops : loop[l] = "none"
       /\ listener = "none" /\ handling = {}
  /\ pc \in {"startPool", "startDispatcher", "listen", "notify", "serving"}
            \cup (Stopping \ {"return"}) => db = "open"

(* What main took down stays down: the listener, then the handlers, then   *)
(* the dispatcher, and then the loops of the pool.                         *)
TakenDown ==
  /\ pc \in Stopping => listener # "listening"
  /\ pc \in Stopping \ {"draining"} => handling = {}
  /\ pc \in {"stopPool", "closeDb", "return"} => Idle({Dispatcher})
  /\ pc \in {"closeDb", "return"} => Idle(PoolLoops)

ServerInv == TypeOK /\ ConnectionOfMain /\ TakenDown
-----------------------------------------------------------------------------
LEMMA ServerInit == Init => ServerInv
<1> SUFFICES ASSUME Init PROVE ServerInv
  OBVIOUS
<1>1. TypeOK
  <2>1. loop \in [Loops -> {"none", "starting", "waiting", "busy", "done"}]
    BY DEF Init
  <2>2. /\ pc \in Starting
        /\ cfg \in [count : Int, interval : Int]
    BY DEF Init, Starting
  <2>3. /\ db \in {"none", "open", "closed"}
        /\ listener \in {"none", "starting", "listening", "closed"}
        /\ cancelled = {} /\ handling = {} /\ answered = {}
        /\ signalled = FALSE
    BY DEF Init
  <2> QED
    BY <2>1, <2>2, <2>3 DEF TypeOK
<1>2. ConnectionOfMain /\ TakenDown
  BY DEF Init, ConnectionOfMain, TakenDown, Stopping
<1> QED
  BY <1>1, <1>2 DEF ServerInv

(* Whatever the environment and .env say, a setting is a number.           *)
LEMMA SettingIsNumber ==
  ASSUME NEW e \in RawValues, NEW f \in RawValues, NEW d \in Int
  PROVE  Number(Lookup(e, f, d)) \in Int
<1>1. \A v \in RawValues : v = Unset \/ v = Garbage \/ v \in Int
  BY ServerAssumption
<1>2. \/ e # Unset /\ Lookup(e, f, d) = e
      \/ e = Unset /\ f # Unset /\ Lookup(e, f, d) = f
      \/ e = Unset /\ f = Unset /\ Lookup(e, f, d) = d
  BY DEF Lookup
<1> QED
  BY <1>1, <1>2 DEF Number

LEMMA LoopNames ==
  /\ Loops = PoolLoops \cup {Dispatcher}
  /\ Cleaner \in PoolLoops
BY DEF Loops, PoolLoops

LEMMA ServerStep ==
  ASSUME ServerInv, [Next]_vars
  PROVE  ServerInv'
<1>1. TypeOK /\ ConnectionOfMain /\ TakenDown
  BY DEF ServerInv
<1> USE LoopNames DEF Starting, Stopping, Ended, Alive, Idle
<1>2. ASSUME NEW env \in Settings, NEW file \in Settings, Load(env, file)
      PROVE  ServerInv'
  <2>1. /\ Number(Lookup(env.count, file.count, DefaultCount)) \in Int
        /\ Number(Lookup(env.interval, file.interval, DefaultInterval)) \in Int
    BY SettingIsNumber, ServerAssumption DEF Settings
  <2>2. cfg' \in [count : Int, interval : Int]
    BY <1>2, <2>1 DEF Load
  <2> QED
    BY <1>1, <1>2, <2>2 DEF Load, ServerInv, TypeOK, ConnectionOfMain, TakenDown
<1>3. CASE Connect
  BY <1>1, <1>3 DEF Connect, ServerInv, TypeOK, ConnectionOfMain, TakenDown
<1>4. CASE ConnectFails \/ DrainTimeout \/ ListenFails \/ \E l \in Loops : TickerPanics(l)
  <2>1. Dies /\ UNCHANGED signalled
    BY <1>4 DEF ConnectFails, DrainTimeout, ListenFails, TickerPanics
  <2> QED
    BY <1>1, <2>1 DEF Dies, ServerInv, TypeOK, ConnectionOfMain, TakenDown
<1>5. CASE StartPool \/ StartDispatcher
  <2>1. PICK S : Started(S)
    BY <1>5 DEF StartPool, StartDispatcher
  <2>2. loop' \in [Loops -> {"none", "starting", "waiting", "busy", "done"}]
    BY <1>1, <2>1 DEF Started, TypeOK
  <2> QED
    BY <1>1, <1>5, <2>2
    DEF StartPool, StartDispatcher, ServerInv, TypeOK, ConnectionOfMain, TakenDown
<1>6. CASE Listen \/ Notify
  BY <1>1, <1>6 DEF Listen, Notify, ServerInv, TypeOK, ConnectionOfMain, TakenDown
<1>7. CASE Signal
  BY <1>1, <1>7 DEF Signal, Dies, ServerInv, TypeOK, ConnectionOfMain, TakenDown
<1>8. CASE Shutdown \/ Drained
  BY <1>1, <1>8 DEF Shutdown, Drained, ServerInv, TypeOK, ConnectionOfMain, TakenDown
<1>9. CASE DispatcherStopped \/ PoolStopped
  BY <1>1, <1>9 DEF DispatcherStopped, PoolStopped, Waited, ServerInv, TypeOK, ConnectionOfMain,
                    TakenDown
<1>10. CASE CloseDb \/ Return
  BY <1>1, <1>10 DEF CloseDb, Return, ServerInv, TypeOK, ConnectionOfMain, TakenDown
<1>11. CASE Listening
  BY <1>1, <1>11 DEF Listening, ServerInv, TypeOK, ConnectionOfMain, TakenDown
<1>12. ASSUME NEW r \in Requests, Accept(r) \/ Answer(r) PROVE ServerInv'
  BY <1>1, <1>12 DEF Accept, Answer, ServerInv, TypeOK, ConnectionOfMain, TakenDown
<1>13. ASSUME NEW l \in Loops, Begin(l) \/ Tick(l) \/ TickDone(l) \/ LoopEnds(l)
       PROVE  ServerInv'
  <2>1. PICK to \in {"waiting", "busy", "done"} :
          /\ loop[l] \in {"starting", "waiting", "busy"}
          /\ loop' = [loop EXCEPT ![l] = to]
          /\ UNCHANGED <<pc, cfg, db, listener, cancelled, handling, answered, signalled>>
    BY <1>13 DEF Begin, Tick, TickDone, LoopEnds, LoopMoves
  <2>2. loop' \in [Loops -> {"none", "starting", "waiting", "busy", "done"}]
    BY <1>1, <2>1 DEF TypeOK
  <2>3. \A k \in Loops : loop[k] \in {"none", "done"} => loop'[k] = loop[k]
    BY <1>1, <2>1 DEF TypeOK
  <2>4. pc \notin {"load", "connect"}
    BY <1>1, <2>1 DEF ConnectionOfMain
  <2> QED
    BY <1>1, <2>1, <2>2, <2>3, <2>4 DEF ServerInv, TypeOK, ConnectionOfMain, TakenDown
<1>14. CASE UNCHANGED vars
  BY <1>1, <1>14 DEF vars, ServerInv, TypeOK, ConnectionOfMain, TakenDown
<1> QED
  BY <1>2, <1>3, <1>4, <1>5, <1>6, <1>7, <1>8, <1>9, <1>10, <1>11, <1>12, <1>13, <1>14
  DEF Next, Main, Loop

LEMMA ServerInvariant == Spec => []ServerInv
<1>1. ServerInv /\ [Next]_vars => ServerInv'
  BY ServerStep
<1> QED
  BY <1>1, ServerInit, PTL DEF Spec
-----------------------------------------------------------------------------
(* What holds in every reachable state.                                    *)

(* The settings the loops go by are numbers whatever text they come from,  *)
(* and every goroutine is in one of its states.                            *)
THEOREM TypeCorrect == Spec => []TypeOK
<1>1. ServerInv => TypeOK
  BY DEF ServerInv
<1> QED
  BY <1>1, ServerInvariant, PTL

(* main starts and stops its parts in such an order that no loop and no    *)
(* handler finds the connection closed, whenever the signal comes, and     *)
(* however many workers there are.                                         *)
THEOREM ConnectionKept == Spec => []ConnectionOutlivesUse
<1>1. ServerInv => ConnectionOutlivesUse
  <2> SUFFICES ASSUME ServerInv, Alive,
                      handling # {} \/ \E l \in Loops : loop[l] \in {"waiting", "busy"}
               PROVE  db = "open"
    BY DEF ConnectionOutlivesUse
  <2>1. TypeOK /\ ConnectionOfMain /\ TakenDown
    BY DEF ServerInv
  <2>2. pc \notin {"load", "connect"}
    BY <2>1 DEF ConnectionOfMain
  <2>3. pc # "return"
    BY <2>1, LoopNames DEF TakenDown, Stopping, Idle
  <2> QED
    BY <2>1, <2>2, <2>3 DEF TypeOK, ConnectionOfMain, Starting, Stopping, Ended, Alive
<1> QED
  BY <1>1, ServerInvariant, PTL
=============================================================================
