------------------------------- MODULE Server --------------------------------
(***************************************************************************)
(* The life of a middleware process (cmd/server/main.go): it loads its     *)
(* configuration, connects to Postgres, starts the worker pool, the        *)
(* dispatcher and the HTTP server, waits for SIGINT or SIGTERM and takes   *)
(* everything down again in the reverse order, by its deferred calls.      *)
(*                                                                         *)
(* The main goroutine, the listener, each request's handler and each       *)
(* background loop run concurrently.  What a tick or a handler does is the *)
(* subject of the other modules; here it only uses the connection.  A      *)
(* panic of a loop, a Log.Fatal and a signal before Notify end the process *)
(* at once, deferred calls or not.                                         *)
(***************************************************************************)
EXTENDS Integers, FiniteSets

CONSTANTS
  MaxWorkers,      \* bound: the largest WORKER_COUNT
  Requests,        \* the HTTP requests
  RawValues,       \* what a setting may be in the environment or in .env
  Unset,           \* a setting that is not there; empty, in the environment
  Garbage,         \* the text of a setting that is no number; empty, in .env
  DefaultCount,    \* the defaults Load gives WORKER_COUNT
  DefaultInterval  \* and POLL_INTERVAL_SECONDS

ASSUME ServerAssumption ==
  /\ MaxWorkers \in Nat
  /\ DefaultCount \in 1..MaxWorkers
  /\ DefaultInterval \in Nat \ {0}
  /\ \A v \in RawValues \ {Unset, Garbage} : v \in Int /\ v <= MaxWorkers

VARIABLES
  pc,          \* what the main goroutine is at
  cfg,         \* the settings the loops go by
  db,          \* the connection to Postgres
  listener,    \* the goroutine of ListenAndServe
  loop,        \* the background goroutines
  cancelled,   \* the components whose context was cancelled
  handling,    \* the requests a handler is busy with
  answered,    \* the requests that were answered
  signalled    \* SIGINT or SIGTERM came

vars == <<pc, cfg, db, listener, loop, cancelled, handling, answered, signalled>>
-----------------------------------------------------------------------------
Worker(n) == <<"worker", n>>

Cleaner == <<"cleaner", 0>>

Dispatcher == <<"dispatcher", 0>>

Workers == {Worker(n) : n \in 1..MaxWorkers}

PoolLoops == Workers \cup {Cleaner}

Loops == PoolLoops \cup {Dispatcher}

Component(l) == IF l = Dispatcher THEN "dispatcher" ELSE "pool"

(* The order of main, and how the process can end.                         *)
Starting == {"load", "connect", "startPool", "startDispatcher", "listen", "notify"}

Stopping == {"draining", "stopDispatcher", "stopPool", "closeDb", "return"}

Ended == {"exited", "dead"}

Alive == pc \notin Ended

Dies == pc' = "dead" /\ UNCHANGED <<cfg, db, listener, loop, cancelled, handling, answered>>

Init ==
  /\ pc = "load"
  /\ cfg = [count |-> 0, interval |-> 0]
  /\ db = "none"
  /\ listener = "none"
  /\ loop = [l \in Loops |-> "none"]
  /\ cancelled = {}
  /\ handling = {}
  /\ answered = {}
  /\ signalled = FALSE
-----------------------------------------------------------------------------
(* viper: the environment comes before .env, .env before the default, and  *)
(* what is no number counts as 0.  It skips an environment variable that   *)
(* is empty; a setting that is empty in .env is found, and counts as 0.    *)
Lookup(env, file, default) ==
  CASE env # Unset -> env
    [] env = Unset /\ file # Unset -> file
    [] OTHER -> default

Number(v) == IF v = Garbage THEN 0 ELSE v

LoadKeepsText(env, file) ==
  /\ pc = "load"
  /\ cfg' = [count |-> Lookup(env.count, file.count, DefaultCount),
             interval |-> Lookup(env.interval, file.interval, DefaultInterval)]
  /\ pc' = "connect"
  /\ UNCHANGED <<db, listener, loop, cancelled, handling, answered, signalled>>

(* config.Load and InitLogger: the errors main looks for do not come, both *)
(* return nil on every path.                                               *)
Load(env, file) ==
  /\ pc = "load"
  /\ cfg' = [count |-> Number(Lookup(env.count, file.count, DefaultCount)),
             interval |-> Number(Lookup(env.interval, file.interval, DefaultInterval))]
  /\ pc' = "connect"
  /\ UNCHANGED <<db, listener, loop, cancelled, handling, answered, signalled>>

Connect ==
  /\ pc = "connect"
  /\ db' = "open"
  /\ pc' = "startPool"
  /\ UNCHANGED <<cfg, listener, loop, cancelled, handling, answered, signalled>>

ConnectFails == pc = "connect" /\ Dies /\ UNCHANGED signalled

Started(S) == loop' = [l \in Loops |-> IF l \in S THEN "starting" ELSE loop[l]]

StartPool ==
  /\ pc = "startPool"
  /\ Started({Worker(n) : n \in 1..cfg.count} \cup {Cleaner})
  /\ pc' = "startDispatcher"
  /\ UNCHANGED <<cfg, db, listener, cancelled, handling, answered, signalled>>

StartDispatcher ==
  /\ pc = "startDispatcher"
  /\ Started({Dispatcher})
  /\ pc' = "listen"
  /\ UNCHANGED <<cfg, db, listener, cancelled, handling, answered, signalled>>

Listen ==
  /\ pc = "listen"
  /\ listener' = "starting"
  /\ pc' = "notify"
  /\ UNCHANGED <<cfg, db, loop, cancelled, handling, answered, signalled>>

Notify ==
  /\ pc = "notify"
  /\ pc' = "serving"
  /\ UNCHANGED <<cfg, db, listener, loop, cancelled, handling, answered, signalled>>

(* The signal waits in the channel once Notify was called.                 *)
Signal ==
  /\ Alive
  /\ ~signalled
  /\ signalled' = TRUE
  /\ IF pc \in Starting THEN Dies
     ELSE UNCHANGED <<pc, cfg, db, listener, loop, cancelled, handling, answered>>
-----------------------------------------------------------------------------
(* Shutdown closes the listener, unless it is still to be opened, and      *)
(* waits for the handlers, for 10 s.                                       *)
Shutdown ==
  /\ pc = "serving"
  /\ signalled
  /\ listener' = IF listener = "listening" THEN "closed" ELSE listener
  /\ pc' = "draining"
  /\ UNCHANGED <<cfg, db, loop, cancelled, handling, answered, signalled>>

DrainTimeout ==
  /\ pc = "draining"
  /\ handling # {}
  /\ Dies
  /\ UNCHANGED signalled

(* main returns: the deferred calls Stop the dispatcher, Stop the pool and *)
(* close the connection.                                                   *)
DrainedForgetsCancel ==
  /\ pc = "draining"
  /\ handling = {}
  /\ pc' = "stopDispatcher"
  /\ UNCHANGED <<cfg, db, listener, loop, cancelled, handling, answered, signalled>>

Drained ==
  /\ pc = "draining"
  /\ handling = {}
  /\ cancelled' = cancelled \cup {"dispatcher"}
  /\ pc' = "stopDispatcher"
  /\ UNCHANGED <<cfg, db, listener, loop, handling, answered, signalled>>

Waited(S) == \A l \in S : loop[l] \in {"none", "done"}

DispatcherStopped ==
  /\ pc = "stopDispatcher"
  /\ Waited({Dispatcher})
  /\ cancelled' = cancelled \cup {"pool"}
  /\ pc' = "stopPool"
  /\ UNCHANGED <<cfg, db, listener, loop, handling, answered, signalled>>

PoolStoppedForgetsCleaner ==
  /\ pc = "stopPool"
  /\ Waited(Workers)
  /\ pc' = "closeDb"
  /\ UNCHANGED <<cfg, db, listener, loop, cancelled, handling, answered, signalled>>

PoolStopped ==
  /\ pc = "stopPool"
  /\ Waited(PoolLoops)
  /\ pc' = "closeDb"
  /\ UNCHANGED <<cfg, db, listener, loop, cancelled, handling, answered, signalled>>

CloseDb ==
  /\ pc = "closeDb"
  /\ db' = "closed"
  /\ pc' = "return"
  /\ UNCHANGED <<cfg, listener, loop, cancelled, handling, answered, signalled>>

Return ==
  /\ pc = "return"
  /\ pc' = "exited"
  /\ UNCHANGED <<cfg, db, listener, loop, cancelled, handling, answered, signalled>>
-----------------------------------------------------------------------------
(* ListenAndServe: the port is taken, or requests come in.  A listener     *)
(* that is opened after Shutdown is closed at once.                        *)
ListenFails ==
  /\ Alive
  /\ listener = "starting"
  /\ Dies
  /\ UNCHANGED signalled

Listening ==
  /\ Alive
  /\ listener = "starting"
  /\ listener' = IF pc \in Stopping THEN "closed" ELSE "listening"
  /\ UNCHANGED <<pc, cfg, db, loop, cancelled, handling, answered, signalled>>

Accept(r) ==
  /\ Alive
  /\ listener = "listening"
  /\ r \notin handling \cup answered
  /\ handling' = handling \cup {r}
  /\ UNCHANGED <<pc, cfg, db, listener, loop, cancelled, answered, signalled>>

Answer(r) ==
  /\ Alive
  /\ r \in handling
  /\ handling' = handling \ {r}
  /\ answered' = answered \cup {r}
  /\ UNCHANGED <<pc, cfg, db, listener, loop, cancelled, signalled>>
-----------------------------------------------------------------------------
(* A loop makes its ticker: NewTicker panics unless the interval is        *)
(* positive.  The cleaner's is five minutes, whatever the configuration.   *)
LoopMoves(l, from, to) ==
  /\ Alive
  /\ loop[l] = from
  /\ loop' = [loop EXCEPT ![l] = to]
  /\ UNCHANGED <<pc, cfg, db, listener, cancelled, handling, answered, signalled>>

BeginSkipsTicker(l) == LoopMoves(l, "starting", "waiting")

Begin(l) == (l = Cleaner \/ cfg.interval > 0) /\ LoopMoves(l, "starting", "waiting")

TickerPanics(l) ==
  /\ Alive
  /\ loop[l] = "starting"
  /\ l # Cleaner
  /\ cfg.interval <= 0
  /\ Dies
  /\ UNCHANGED signalled

(* select takes either case when the ticker and Done are both ready.       *)
Tick(l) == LoopMoves(l, "waiting", "busy")

TickDone(l) == LoopMoves(l, "busy", "waiting")

LoopEnds(l) == Component(l) \in cancelled /\ LoopMoves(l, "waiting", "done")
-----------------------------------------------------------------------------
Settings == [count : RawValues, interval : RawValues]

Main ==
  \/ \E env, file \in Settings : Load(env, file)
  \/ Connect
  \/ ConnectFails
  \/ StartPool
  \/ StartDispatcher
  \/ Listen
  \/ Notify
  \/ Shutdown
  \/ DrainTimeout
  \/ Drained
  \/ DispatcherStopped
  \/ PoolStopped
  \/ CloseDb
  \/ Return

Loop(l) == Begin(l) \/ TickerPanics(l) \/ Tick(l) \/ TickDone(l) \/ LoopEnds(l)

Next ==
  \/ Main
  \/ Signal
  \/ ListenFails \/ Listening
  \/ \E r \in Requests : Accept(r) \/ Answer(r)
  \/ \E l \in Loops : Loop(l)

Spec == Init /\ [][Next]_vars

(* Go schedules every goroutine, every call a tick makes has a timeout or  *)
(* the cancelled context, select picks at random among the cases that are  *)
(* ready, and the ticker is not ready all the time.  No client finishes a  *)
(* request for certain: Shutdown has a timeout.                            *)
Fairness ==
  /\ WF_vars(Main)
  /\ \A l \in Loops :
       /\ WF_vars(Begin(l) \/ TickerPanics(l))
       /\ WF_vars(TickDone(l))
       /\ SF_vars(LoopEnds(l))

FairSpec == Spec /\ Fairness
-----------------------------------------------------------------------------
TypeOK ==
  /\ pc \in Starting \cup {"serving"} \cup Stopping \cup Ended
  /\ cfg \in [count : Int, interval : Int]
  /\ db \in {"none", "open", "closed"}
  /\ listener \in {"none", "starting", "listening", "closed"}
  /\ loop \in [Loops -> {"none", "starting", "waiting", "busy", "done"}]
  /\ cancelled \subseteq {"pool", "dispatcher"}
  /\ handling \subseteq Requests
  /\ answered \subseteq Requests
  /\ signalled \in BOOLEAN

(* Neither a loop nor a handler uses the connection before it is open or   *)
(* after the deferred Close, whenever the signal comes.                    *)
ConnectionOutlivesUse ==
  Alive /\ (handling # {} \/ \E l \in Loops : loop[l] \in {"waiting", "busy"}) => db = "open"

(* A request that a worker is to process finds one: a process with a poll  *)
(* interval that NewTicker rejects does not go on serving without its      *)
(* loops, it dies.                                                         *)
BadIntervalEnds == pc = "connect" /\ cfg.interval <= 0 ~> pc \in Ended

(* A process that is told to stop does so, whatever its loops and its      *)
(* clients are at.                                                         *)
SignalEnds == signalled ~> pc \in Ended
=============================================================================
