---------------------------- MODULE ServerProofs ----------------------------
(***************************************************************************)
(* Proofs about Server, for any set of calls and any number of outages.    *)
(*                                                                         *)
(* What main, the two goroutines and the handlers know of each other is    *)
(* nowhere in one place of the code: Order says which of their points can  *)
(* be reached together.                                                    *)
(***************************************************************************)
EXTENDS ServerRefinement, TLAPS

\* main has not started the goroutine that serves.
Early == {"load", "database", "cache", "migrations", "services", "listen",
          "serve"}

\* main is past the wait for the goroutine that stops.
Closing == {"force", "sync", "closeCache", "closeDatabase"}

ExitOrder ==
  /\ Running <=> main # "exited"
  /\ ~Running => Busy = {}

PoolOrder ==
  /\ Running /\ main \notin {"load", "database"} => pool["database"] = "open"
  /\ Running /\ main \notin {"load", "database", "cache", "closeDatabase"}
       => pool["cache"] = "open"
  /\ main = "closeDatabase" => pool["cache"] = "closed"

ServeOrder ==
  /\ main \in Early => serve = "none"
  /\ transport = "open" \/ served => serve \in {"accepting", "returned"}
  /\ Busy # {} => served
  /\ Running /\ main \in Starting \cup {"wait", "stop"} => stopper = "none" /\ ~quit /\ ~forced

StopOrder ==
  /\ forced => quit /\ transport = "closed"
  /\ stopper \in {"waiting", "done"} => quit
  /\ stopper = "done" /\ Running => Busy = {} /\ transport = "closed"
  /\ main \in Closing => forced \/ stopper = "done"

Order == ExitOrder /\ PoolOrder /\ ServeOrder /\ StopOrder

Inv == TypeOK /\ Order /\ CleanExit

\* A process that is gone has no handlers; its pools are as they were, or, if
\* nobody serves yet, one of them has been lost by its New.
LEMMA DieKeeps ==
  ASSUME Inv, Running, NEW how \in {"fatal", "killed"}, Die(how),
         \/ pool' = pool
         \/ /\ serve = "none"
            /\ \E s \in Stores : pool' = [pool EXCEPT ![s] = "leaked"]
  PROVE  Inv'
<1>. USE DEF Die, grpcVars, stopVars, callVars, envVars
<1>1. Busy' = {}
  BY DEF Busy
<1>2. TypeOK'
  <2>1. pool' \in [Stores -> {"none", "leaked", "open", "closed"}]
    BY DEF Inv, TypeOK
  <2>2. serve' # "none" => \A s \in Stores : pool'[s] \in {"open", "closed"}
    BY DEF Inv, TypeOK
  <2>. QED
    BY <2>1, <2>2 DEF Inv, TypeOK, Busy, Starting, Stopping, Stores, ProbeSteps
<1>3. ExitOrder' /\ PoolOrder'
  BY <1>1 DEF ExitOrder, PoolOrder, Running
<1>4. ServeOrder' /\ StopOrder'
  BY <1>1 DEF Inv, Order, ServeOrder, StopOrder, Running, Early, Closing, Starting
<1>5. CleanExit'
  BY DEF CleanExit
<1>. QED
  BY <1>2, <1>3, <1>4, <1>5 DEF Inv, Order

LEMMA ExitKeeps ==
  ASSUME Inv, Running, NEW how \in {"fatal", "killed"}, Exit(how)
  PROVE  Inv'
BY DieKeeps DEF Exit

\* main, up to the wait for a signal.
LEMMA StartUpKeeps ==
  ASSUME Inv,
         Load \/ OpenDatabase \/ OpenCache \/ RunMigrations \/ Prepare \/ Listen \/ StartServing \/ Notify
  PROVE  Inv'
<1>1. CASE Load
  BY <1>1 DEF Load, Goto, grpcVars, stopVars, callVars, envVars, Inv, TypeOK, Order, ExitOrder, PoolOrder, ServeOrder, StopOrder, CleanExit, Running, Busy,
     Early, Closing, Starting, Stopping, Stores, ProbeSteps
<1>2. CASE OpenDatabase
  <2>1. CASE /\ Goto("database", "cache") /\ pool' = [pool EXCEPT !["database"] = "open"]
             /\ UNCHANGED <<grpcVars, stopVars, callVars, envVars>>
    BY <2>1 DEF Goto, grpcVars, stopVars, callVars, envVars, Inv, TypeOK, Order, ExitOrder, PoolOrder, ServeOrder, StopOrder, CleanExit, Running, Busy,
     Early, Closing, Starting, Stopping, Stores, ProbeSteps
  <2>2. CASE /\ Running /\ main = "database" /\ Die("fatal")
             /\ pool' = [pool EXCEPT !["database"] = "leaked"]
    <3>1. serve = "none"
      BY <2>2 DEF Inv, Order, ServeOrder, Early
    <3>. QED
      BY <2>2, <3>1, DieKeeps DEF Stores
  <2>. QED
    BY <1>2, <2>1, <2>2 DEF OpenDatabase, Connect
<1>3. CASE OpenCache
  <2>1. CASE /\ Goto("cache", "migrations") /\ pool' = [pool EXCEPT !["cache"] = "open"]
             /\ UNCHANGED <<grpcVars, stopVars, callVars, envVars>>
    BY <2>1 DEF Goto, grpcVars, stopVars, callVars, envVars, Inv, TypeOK, Order, ExitOrder, PoolOrder, ServeOrder, StopOrder, CleanExit, Running, Busy,
     Early, Closing, Starting, Stopping, Stores, ProbeSteps
  <2>2. CASE /\ Running /\ main = "cache" /\ Die("fatal")
             /\ pool' = [pool EXCEPT !["cache"] = "leaked"]
    <3>1. serve = "none"
      BY <2>2 DEF Inv, Order, ServeOrder, Early
    <3>. QED
      BY <2>2, <3>1, DieKeeps DEF Stores
  <2>. QED
    BY <1>3, <2>1, <2>2 DEF OpenCache, Connect
<1>4. CASE RunMigrations
  BY <1>4 DEF RunMigrations, Goto, grpcVars, stopVars, callVars, envVars, Inv, TypeOK, Order, ExitOrder, PoolOrder, ServeOrder, StopOrder, CleanExit, Running, Busy,
     Early, Closing, Starting, Stopping, Stores, ProbeSteps
<1>5. CASE Prepare
  <2>1. CASE /\ Goto("services", "listen")
             /\ UNCHANGED <<pool, grpcVars, stopVars, callVars, envVars>>
    BY <2>1 DEF Goto, grpcVars, stopVars, callVars, envVars, Inv, TypeOK, Order, ExitOrder, PoolOrder, ServeOrder, StopOrder, CleanExit, Running, Busy,
     Early, Closing, Starting, Stopping, Stores, ProbeSteps
  <2>2. CASE Running /\ Exit("fatal")
    BY <2>2, ExitKeeps
  <2>. QED
    BY <1>5, <2>1, <2>2 DEF Prepare
<1>6. CASE Listen
  <2>1. CASE /\ Goto("listen", "serve")
             /\ UNCHANGED <<pool, grpcVars, stopVars, callVars, envVars>>
    BY <2>1 DEF Goto, grpcVars, stopVars, callVars, envVars, Inv, TypeOK, Order, ExitOrder, PoolOrder, ServeOrder, StopOrder, CleanExit, Running, Busy,
     Early, Closing, Starting, Stopping, Stores, ProbeSteps
  <2>2. CASE Running /\ Exit("fatal")
    BY <2>2, ExitKeeps
  <2>. QED
    BY <1>6, <2>1, <2>2 DEF Listen
<1>7. CASE StartServing
  BY <1>7 DEF StartServing, Goto, grpcVars, stopVars, callVars, envVars, Inv, TypeOK, Order, ExitOrder, PoolOrder, ServeOrder, StopOrder, CleanExit, Running, Busy,
     Early, Closing, Starting, Stopping, Stores, ProbeSteps
<1>8. CASE Notify
  BY <1>8 DEF Notify, Goto, grpcVars, stopVars, callVars, envVars, Inv, TypeOK, Order, ExitOrder, PoolOrder, ServeOrder, StopOrder, CleanExit, Running, Busy,
     Early, Closing, Starting, Stopping, Stores, ProbeSteps
<1>. QED
  BY <1>1, <1>2, <1>3, <1>4, <1>5, <1>6, <1>7, <1>8

\* The two goroutines.
LEMMA ServingKeeps ==
  ASSUME Inv,
         Serve \/ ServeReturns \/ ServeFails \/ GracefulStop \/ Drained
  PROVE  Inv'
<1>1. CASE Serve
  <2>1. CASE /\ serve = "ready" /\ ~quit /\ Running
             /\ serve' = "accepting" /\ transport' = "open"
             /\ UNCHANGED <<main, exit, stopper, quit, pool, stopVars, callVars,
                            envVars>>
    BY <2>1 DEF stopVars, callVars, envVars, Inv, TypeOK, Order, ExitOrder, PoolOrder, ServeOrder, StopOrder, CleanExit, Running, Busy,
     Early, Closing, Starting, Stopping, Stores, ProbeSteps
  <2>2. CASE Running /\ Exit("fatal")
    BY <2>2, ExitKeeps
  <2>. QED
    BY <1>1, <2>1, <2>2 DEF Serve
<1>2. CASE ServeReturns
  BY <1>2 DEF ServeReturns, grpcVars, stopVars, callVars, envVars, Inv, TypeOK, Order, ExitOrder, PoolOrder, ServeOrder, StopOrder, CleanExit, Running, Busy,
     Early, Closing, Starting, Stopping, Stores, ProbeSteps
<1>3. CASE ServeFails
  BY <1>3, ExitKeeps DEF ServeFails
<1>4. CASE GracefulStop
  BY <1>4 DEF GracefulStop, grpcVars, stopVars, callVars, envVars, Inv, TypeOK, Order, ExitOrder, PoolOrder, ServeOrder, StopOrder, CleanExit, Running, Busy,
     Early, Closing, Starting, Stopping, Stores, ProbeSteps
<1>5. CASE Drained
  BY <1>5 DEF Drained, grpcVars, stopVars, callVars, envVars, Inv, TypeOK, Order, ExitOrder, PoolOrder, ServeOrder, StopOrder, CleanExit, Running, Busy,
     Early, Closing, Starting, Stopping, Stores, ProbeSteps
<1>. QED
  BY <1>1, <1>2, <1>3, <1>4, <1>5

\* main, from the signal on.
LEMMA ShutdownKeeps ==
  ASSUME Inv,
         TakeSignal \/ BeginStop \/ Stopped \/ ForceStop \/ ForceStopReturns \/ Sync \/ CloseCache \/ CloseDatabase \/ DeadlinePasses
  PROVE  Inv'
<1>1. CASE TakeSignal
  BY <1>1 DEF TakeSignal, Goto, grpcVars, stopVars, callVars, envVars, Inv, TypeOK, Order, ExitOrder, PoolOrder, ServeOrder, StopOrder, CleanExit, Running, Busy,
     Early, Closing, Starting, Stopping, Stores, ProbeSteps
<1>2. CASE BeginStop
  BY <1>2 DEF BeginStop, Goto, grpcVars, stopVars, callVars, envVars, Inv, TypeOK, Order, ExitOrder, PoolOrder, ServeOrder, StopOrder, CleanExit, Running, Busy,
     Early, Closing, Starting, Stopping, Stores, ProbeSteps
<1>3. CASE Stopped
  BY <1>3 DEF Stopped, Goto, grpcVars, stopVars, callVars, envVars, Inv, TypeOK, Order, ExitOrder, PoolOrder, ServeOrder, StopOrder, CleanExit, Running, Busy,
     Early, Closing, Starting, Stopping, Stores, ProbeSteps
<1>4. CASE ForceStop
  BY <1>4 DEF ForceStop, Goto, grpcVars, stopVars, callVars, envVars, Inv, TypeOK, Order, ExitOrder, PoolOrder, ServeOrder, StopOrder, CleanExit, Running, Busy,
     Early, Closing, Starting, Stopping, Stores, ProbeSteps
<1>5. CASE ForceStopReturns
  BY <1>5 DEF ForceStopReturns, Goto, grpcVars, stopVars, callVars, envVars, Inv, TypeOK, Order, ExitOrder, PoolOrder, ServeOrder, StopOrder, CleanExit, Running, Busy,
     Early, Closing, Starting, Stopping, Stores, ProbeSteps
<1>6. CASE Sync
  BY <1>6 DEF Sync, Goto, grpcVars, stopVars, callVars, envVars, Inv, TypeOK, Order, ExitOrder, PoolOrder, ServeOrder, StopOrder, CleanExit, Running, Busy,
     Early, Closing, Starting, Stopping, Stores, ProbeSteps
<1>7. CASE CloseCache
  BY <1>7 DEF CloseCache, Goto, grpcVars, stopVars, callVars, envVars, Inv, TypeOK, Order, ExitOrder, PoolOrder, ServeOrder, StopOrder, CleanExit, Running, Busy,
     Early, Closing, Starting, Stopping, Stores, ProbeSteps
<1>8. CASE CloseDatabase
  BY <1>8 DEF CloseDatabase, grpcVars, stopVars, callVars, envVars, Inv, TypeOK, Order, ExitOrder, PoolOrder, ServeOrder, StopOrder, CleanExit, Running, Busy,
     Early, Closing, Starting, Stopping, Stores, ProbeSteps
<1>9. CASE DeadlinePasses
  BY <1>9 DEF DeadlinePasses, grpcVars, stopVars, callVars, envVars, Inv, TypeOK, Order, ExitOrder, PoolOrder, ServeOrder, StopOrder, CleanExit, Running, Busy,
     Early, Closing, Starting, Stopping, Stores, ProbeSteps
<1>. QED
  BY <1>1, <1>2, <1>3, <1>4, <1>5, <1>6, <1>7, <1>8, <1>9

\* What ends the process from outside, and what starts it again.
LEMMA EndsKeep ==
  ASSUME Inv,
         Signal \/ Kill \/ Restart
  PROVE  Inv'
<1>1. CASE Signal
  <2>1. CASE Running /\ Exit("killed")
    BY <2>1, ExitKeeps
  <2>2. CASE /\ signal' = TRUE
             /\ UNCHANGED <<main, exit, deadline, forced, pool, grpcVars, callVars,
                            envVars>>
    BY <2>2 DEF grpcVars, callVars, envVars, Inv, TypeOK, Order, ExitOrder, PoolOrder, ServeOrder, StopOrder, CleanExit, Running, Busy,
     Early, Closing, Starting, Stopping, Stores, ProbeSteps
  <2>. QED
    BY <1>1, <2>1, <2>2 DEF Signal
<1>2. CASE Kill
  BY <1>2, ExitKeeps DEF Kill
<1>3. CASE Restart
  BY <1>3 DEF Restart, grpcVars, stopVars, callVars, envVars, Inv, TypeOK, Order, ExitOrder, PoolOrder, ServeOrder, StopOrder, CleanExit, Running, Busy,
     Early, Closing, Starting, Stopping, Stores, ProbeSteps
<1>. QED
  BY <1>1, <1>2, <1>3

\* A handler begins only while a connection is open, and that is after the
\* start-up and before the last connection is gone.
LEMMA CallsKeep ==
  ASSUME Inv, NEW c \in Calls, Accept(c) \/ Return(c)
  PROVE  Inv'
<1>. USE DEF grpcVars, stopVars, envVars
<1>1. CASE Accept(c)
  <2>1. TypeOK'
    BY <1>1 DEF Accept, Inv, TypeOK, Stores, Starting, Stopping, ProbeSteps
  <2>2. Running /\ transport = "open" /\ served' /\ UNCHANGED Running
    BY <1>1 DEF Accept, Running
  <2>3. serve \in {"accepting", "returned"}
    BY <2>2 DEF Inv, Order, ServeOrder
  <2>4. stopper # "done"
    BY <2>2 DEF Inv, Order, StopOrder
  <2>5. Order' /\ CleanExit'
    BY <1>1, <2>2, <2>3, <2>4 DEF Accept, Inv, Order, ExitOrder, PoolOrder,
       ServeOrder, StopOrder, CleanExit, Running, Early
  <2>. QED
    BY <2>1, <2>5 DEF Inv
<1>2. CASE Return(c)
  <2>1. TypeOK'
    BY <1>2 DEF Return, Inv, TypeOK, Stores, Starting, Stopping, ProbeSteps
  <2>2. Busy' \subseteq Busy
    BY <1>2 DEF Return, Busy, Inv, TypeOK
  <2>3. Order' /\ CleanExit'
    BY <1>2, <2>2 DEF Return, Inv, Order, ExitOrder, PoolOrder, ServeOrder,
       StopOrder, CleanExit, Running
  <2>. QED
    BY <2>1, <2>3 DEF Inv
<1>. QED
  BY <1>1, <1>2

\* What the health check does to its own state.
LEMMA ProbeMoves ==
  ASSUME Inv, ProbeStarts \/ ProbeDatabase \/ ProbeCache
  PROVE  /\ probe' \in [at : {"off", "passed", "failed"} \cup DOMAIN ProbeSteps,
                        open : SUBSET Stores, answered : SUBSET Stores]
         /\ UNCHANGED <<main, exit, pool, grpcVars, stopVars, callVars, up, outages>>
<1>1. CASE ProbeStarts
  BY <1>1 DEF ProbeStarts, ProbeOff, ProbeSteps
<1>2. ASSUME NEW s \in Stores,
             ProbeStep(s, IF s = "database" THEN {"database", "databaseHealth"}
                          ELSE {"cache", "cacheHealth"})
      PROVE  probe' \in [at : {"off", "passed", "failed"} \cup DOMAIN ProbeSteps,
                         open : SUBSET Stores, answered : SUBSET Stores]
  <2>1. CASE probe' = ProbeEnds("failed", {s} \cap {probe.at})
    BY <2>1 DEF ProbeEnds, Inv, TypeOK
  <2>2. CASE probe' = [ProbeEnds("passed", {}) EXCEPT !.answered = @ \cup {s}]
    BY <2>2 DEF ProbeEnds, Inv, TypeOK
  <2>3. CASE /\ probe.at # "cacheHealth"
             /\ probe' = [at |-> ProbeSteps[probe.at],
                          open |-> probe.open \cup {s},
                          answered |-> probe.answered \cup {s}]
    <3>1. probe.at \in {"database", "databaseHealth", "cache"}
      BY <1>2, <2>3 DEF ProbeStep, Stores
    <3>2. ProbeSteps[probe.at] \in DOMAIN ProbeSteps \cup {"passed"}
      BY <3>1 DEF ProbeSteps
    <3>. QED
      BY <2>3, <3>2 DEF Inv, TypeOK
  <2>. QED
    BY <1>2, <2>1, <2>2, <2>3 DEF ProbeStep
<1>3. CASE ProbeDatabase
  BY <1>3, <1>2 DEF ProbeDatabase, ProbeStep, Stores
<1>4. CASE ProbeCache
  BY <1>4, <1>2 DEF ProbeCache, ProbeStep, Stores
<1>. QED
  BY <1>1, <1>3, <1>4

\* Stores and the health check are no part of the process.
LEMMA OutsideKeeps ==
  ASSUME Inv,
         \/ \E s \in Stores : GoDown(s) \/ ComeUp(s)
         \/ ProbeStarts \/ ProbeDatabase \/ ProbeCache
  PROVE  Inv'
<1>1. UNCHANGED <<main, exit, pool, grpcVars, stopVars, callVars>>
  BY ProbeMoves DEF GoDown, ComeUp
<1>2. /\ up' \in SUBSET Stores /\ outages' \in 0..MaxOutages
      /\ probe' \in [at : {"off", "passed", "failed"} \cup DOMAIN ProbeSteps,
                     open : SUBSET Stores, answered : SUBSET Stores]
  <2>1. CASE \E s \in Stores : GoDown(s) \/ ComeUp(s)
    BY <2>1, ServerAssumption DEF GoDown, ComeUp, Inv, TypeOK
  <2>2. CASE ProbeStarts \/ ProbeDatabase \/ ProbeCache
    BY <2>2, ProbeMoves DEF Inv, TypeOK
  <2>. QED
    BY <2>1, <2>2
<1>3. TypeOK'
  BY <1>1, <1>2 DEF Inv, TypeOK, grpcVars, stopVars, callVars, Stores, ProbeSteps
<1>4. Order' /\ CleanExit'
  BY <1>1 DEF Inv, Order, ExitOrder, PoolOrder, ServeOrder, StopOrder, CleanExit,
     Running, Busy, grpcVars, stopVars, callVars
<1>. QED
  BY <1>3, <1>4 DEF Inv

LEMMA InitInv ==
  ASSUME Init
  PROVE  Inv
<1>1. Busy = {}
  BY DEF Init, Busy
<1>2. probe \in [at : {"off", "passed", "failed"} \cup DOMAIN ProbeSteps,
                 open : SUBSET Stores, answered : SUBSET Stores]
  BY DEF Init, ProbeOff
<1>4. main \in Starting /\ probe.open \subseteq Stores
  BY DEF Init, Starting, ProbeOff
<1>5. /\ pool \in [Stores -> {"none", "open", "closed"}]
      /\ calls \in [Calls -> {"idle", "running"}]
      /\ up \subseteq Stores /\ outages \in 0..MaxOutages /\ cut \subseteq Calls
  BY ServerAssumption DEF Init
<1>6. TypeOK
  BY <1>2, <1>4, <1>5 DEF Init, TypeOK
<1>3. Order /\ CleanExit
  BY <1>1 DEF Init, Order, ExitOrder, PoolOrder, ServeOrder, StopOrder, CleanExit,
     Running, Starting, Early, Closing
<1>. QED
  BY <1>3, <1>6 DEF Inv

LEMMA NextKeeps ==
  ASSUME Inv, [Next]_vars
  PROVE  Inv'
<1>1. CASE MainStep \/ ServerStep \/ DeadlinePasses
  BY <1>1, StartUpKeeps, ServingKeeps, ShutdownKeeps DEF MainStep, ServerStep
<1>2. CASE EnvStep
  BY <1>2, ServingKeeps, EndsKeep, OutsideKeeps DEF EnvStep
<1>3. CASE \E c \in Calls : Accept(c) \/ Return(c)
  BY <1>3, CallsKeep
<1>4. CASE UNCHANGED vars
  BY <1>4 DEF vars, grpcVars, stopVars, callVars, envVars, Inv, TypeOK, Order, ExitOrder, PoolOrder, ServeOrder, StopOrder, CleanExit, Running, Busy,
     Early, Closing, Starting, Stopping, Stores, ProbeSteps
<1>. QED
  BY <1>1, <1>2, <1>3, <1>4 DEF Next

\* Whatever its length, a run of the process keeps Order.
THEOREM Invariance == Spec => []Inv
<1>1. Init => Inv
  BY InitInv
<1>2. Inv /\ [Next]_vars => Inv'
  BY NextKeeps
<1>. QED
  BY <1>1, <1>2, PTL DEF Spec

\* TypeOK: no handler is served before both stores have answered.
THEOREM TypeCorrect == Spec => []TypeOK
<1>1. Inv => TypeOK
  BY DEF Inv
<1>. QED
  BY <1>1, Invariance, PTL

\* PoolsOutliveCalls: the pools are open under every handler, unless main has
\* called Stop.
THEOREM PoolsStayOpen == Spec => []PoolsOutliveCalls
<1>1. Inv => PoolsOutliveCalls
  <2>. SUFFICES ASSUME Inv, Busy # {}, ~forced
                PROVE  \A s \in Stores : pool[s] = "open"
    BY DEF PoolsOutliveCalls
  <2>1. Running
    BY DEF Inv, Order, ExitOrder
  <2>2. main \notin Early
    BY DEF Inv, Order, ServeOrder
  <2>3. main \notin Closing
    BY <2>1 DEF Inv, Order, StopOrder
  <2>. QED
    BY <2>1, <2>2, <2>3 DEF Inv, Order, PoolOrder, Early, Closing, Stores
<1>. QED
  BY <1>1, Invariance, PTL

\* CleanExit: status 0 means that everything was closed, and that a call was cut
\* short by the deadline only.
THEOREM ExitsAreClean == Spec => []CleanExit
<1>1. Inv => CleanExit
  BY DEF Inv
<1>. QED
  BY <1>1, Invariance, PTL

\* LateFailureServedNobody: a shutdown that ends in log.Fatalf has come before
\* the first call.
THEOREM FailuresServedNobody == Spec => LateFailureServedNobody
<1>1. Inv /\ [Next]_vars => [Running /\ quit /\ exit' = "fatal" => ~served]_vars
  <2>. SUFFICES ASSUME Inv, Next, Running, quit, exit' = "fatal"
                PROVE  ~served
    OBVIOUS
  <2>1. main \notin Starting
    BY DEF Inv, Order, ServeOrder
  <2>2. ~ (OpenDatabase \/ OpenCache \/ Prepare \/ Listen)
    BY <2>1 DEF OpenDatabase, OpenCache, Prepare, Listen, Connect, Goto, Starting
  <2>3. CASE Serve
    <3>1. serve = "ready"
      BY <2>3 DEF Serve
    <3>. QED
      BY <3>1 DEF Inv, Order, ServeOrder
  <2>4. ~ (Signal \/ Kill \/ ServeFails \/ Restart \/ CloseDatabase)
    BY <2>1 DEF Signal, Kill, ServeFails, Restart, CloseDatabase, Exit, Die, Running
  <2>5. exit' # exit
    BY DEF Running
  <2>6. Serve \/ Signal \/ Kill \/ ServeFails \/ Restart \/ CloseDatabase
        \/ OpenDatabase \/ OpenCache \/ Prepare \/ Listen
    <3>1. MainStep => CloseDatabase \/ OpenDatabase \/ OpenCache \/ Prepare \/ Listen
      BY <2>5 DEF MainStep, Load, RunMigrations, StartServing, Notify, TakeSignal,
         BeginStop, Stopped, ForceStop, ForceStopReturns, Sync, CloseCache, Goto
    <3>2. ServerStep => Serve
      BY <2>5 DEF ServerStep, ServeReturns, GracefulStop, Drained
    <3>3. EnvStep => Signal \/ Kill \/ ServeFails \/ Restart
      <4>1. ASSUME NEW s \in Stores, GoDown(s) \/ ComeUp(s)  PROVE FALSE
        BY <2>5, <4>1 DEF GoDown, ComeUp
      <4>2. ~ (ProbeStarts \/ ProbeDatabase \/ ProbeCache)
        BY <2>5, ProbeMoves
      <4>. QED
        BY <4>1, <4>2 DEF EnvStep
    <3>4. ASSUME NEW c \in Calls, Accept(c) \/ Return(c)  PROVE FALSE
      BY <2>5, <3>4 DEF Accept, Return
    <3>. QED
      BY <2>5, <3>1, <3>2, <3>3, <3>4 DEF Next, DeadlinePasses
  <2>. QED
    BY <2>2, <2>3, <2>4, <2>6
<1>. QED
  BY <1>1, Invariance, PTL DEF Spec, LateFailureServedNobody

\* What the health check knows at each of its steps.
ProbeKnows ==
  /\ probe.at \in {"databaseHealth", "cache"} => "database" \in probe.answered
  /\ probe.at \in {"cacheHealth", "passed"} => probe.answered = Stores
  /\ probe.at = "passed" => probe.open = {}
  /\ probe.at = "failed" => probe.open \cap probe.answered = {}
  /\ probe.at \in {"databaseHealth", "cache"} => "cache" \notin probe.answered
  /\ probe.at = "database" => probe.answered = {}

LEMMA ProbeLearns ==
  ASSUME Inv, ProbeKnows, ProbeStarts \/ ProbeDatabase \/ ProbeCache
  PROVE  ProbeKnows'
<1>. USE DEF ProbeKnows
<1>1. CASE ProbeStarts
  BY <1>1 DEF ProbeStarts, ProbeOff
<1>2. probe.answered \subseteq Stores
      /\ probe \in [at : {"off", "passed", "failed"} \cup DOMAIN ProbeSteps,
                    open : SUBSET Stores, answered : SUBSET Stores]
  BY DEF Inv, TypeOK
<1>3. ASSUME NEW s \in Stores, probe' = ProbeEnds("failed", {s} \cap {probe.at})
      PROVE  ProbeKnows'
  <2>1. /\ probe'.at = "failed" /\ probe'.answered = probe.answered
        /\ probe'.open = {s} \cap {probe.at}
    BY <1>2, <1>3 DEF ProbeEnds
  <2>2. probe.at \in Stores => probe.at \notin probe.answered
    BY DEF Stores
  <2>. QED
    BY <2>1, <2>2
<1>4. ASSUME NEW s \in Stores, probe.at = "cacheHealth",
             probe' = [ProbeEnds("passed", {}) EXCEPT !.answered = @ \cup {s}]
      PROVE  ProbeKnows'
  <2>1. probe'.at = "passed" /\ probe'.open = {}
        /\ probe'.answered = probe.answered \cup {s}
    BY <1>2, <1>4 DEF ProbeEnds
  <2>. QED
    BY <2>1, <1>4
<1>5. ASSUME NEW s \in Stores, s = "database" <=> probe.at \in {"database", "databaseHealth"},
             probe.at \in {"database", "databaseHealth", "cache"},
             probe' = [at |-> ProbeSteps[probe.at],
                       open |-> probe.open \cup {s},
                       answered |-> probe.answered \cup {s}]
      PROVE  ProbeKnows'
  <2>1. probe'.at = ProbeSteps[probe.at] /\ probe'.answered = probe.answered \cup {s}
    BY <1>5
  <2>2. ProbeSteps["database"] = "databaseHealth" /\ ProbeSteps["databaseHealth"] = "cache"
        /\ ProbeSteps["cache"] = "cacheHealth"
    BY DEF ProbeSteps
  <2>. QED
    BY <1>2, <1>5, <2>1, <2>2 DEF Stores
<1>6. CASE ProbeDatabase
  BY <1>6, <1>3, <1>4, <1>5 DEF ProbeDatabase, ProbeStep, Stores
<1>7. CASE ProbeCache
  BY <1>7, <1>3, <1>4, <1>5 DEF ProbeCache, ProbeStep, Stores
<1>. QED
  BY <1>1, <1>6, <1>7

\* ProbeTells: the health check passes only if both stores answered it and both
\* pools are closed, and one that fails leaves open at most the pool whose New
\* found nobody.
THEOREM HealthIsAnswered == Spec => []ProbeTells
<1>1. Init => ProbeKnows
  BY DEF Init, ProbeOff, ProbeKnows
<1>2. ASSUME Inv, ProbeKnows, [Next]_vars
      PROVE  ProbeKnows'
  <2>1. CASE ProbeStarts \/ ProbeDatabase \/ ProbeCache
    BY <1>2, <2>1, ProbeLearns
  <2>2. CASE UNCHANGED probe
    BY <1>2, <2>2 DEF ProbeKnows, Stores
  <2>3. ProbeStarts \/ ProbeDatabase \/ ProbeCache \/ UNCHANGED probe
    <3>1. MainStep \/ ServerStep \/ DeadlinePasses => UNCHANGED probe
      BY DEF MainStep, ServerStep, DeadlinePasses, Load, OpenDatabase, OpenCache,
         Connect, RunMigrations, Prepare, Listen, StartServing, Notify, TakeSignal,
         BeginStop, Stopped, ForceStop, ForceStopReturns, Sync, CloseCache,
         CloseDatabase, Serve, ServeReturns, GracefulStop, Drained, Exit, Die, envVars
    <3>2. EnvStep => ProbeStarts \/ ProbeDatabase \/ ProbeCache \/ UNCHANGED probe
      BY DEF EnvStep, Signal, Kill, ServeFails, Restart, GoDown, ComeUp, Exit, Die, envVars
    <3>3. ASSUME NEW c \in Calls, Accept(c) \/ Return(c)  PROVE UNCHANGED probe
      BY <3>3 DEF Accept, Return, envVars
    <3>. QED
      BY <1>2, <3>1, <3>2, <3>3 DEF Next, vars, envVars
  <2>. QED
    BY <2>1, <2>2, <2>3
<1>3. ProbeKnows => ProbeTells
  BY DEF ProbeKnows, ProbeTells
<1>. QED
  BY <1>1, <1>2, <1>3, Invariance, PTL DEF Spec
(***************************************************************************)
(* Server implements ServerContract.  Each step is one of the contract or  *)
(* changes nothing the contract speaks of.                                 *)
(***************************************************************************)

\* What the steps below need to know of the process: connections are closed
\* only after Serve was told to leave, and nobody is told before a signal came.
ClosedLeaves == transport = "closed" => quit

Signalled == Running /\ main \in Stopping => signal

Knows == Inv /\ Signalled /\ ClosedLeaves

\* main begins to stop when it has taken a signal out of the channel, and only a
\* new process forgets that there was one.
LEMMA SignalledKeeps ==
  ASSUME Inv, Signalled, [Next]_vars
  PROVE  Signalled'
<1>. USE DEF Signalled, Running
<1>1. ASSUME NEW from, NEW to, to \notin Stopping, Goto(from, to)
      PROVE  Signalled'
  BY <1>1 DEF Goto
<1>2. ASSUME NEW from \in Stopping, NEW to, Goto(from, to), UNCHANGED signal
      PROVE  Signalled'
  BY <1>2 DEF Goto
<1>3. ASSUME main' = "exited"  PROVE Signalled'
  BY <1>3 DEF Stopping
<1>4. ASSUME UNCHANGED <<main, exit>>, signal => signal'  PROVE Signalled'
  BY <1>4
<1>5. CASE MainStep
  <2>1. CASE \/ Load \/ OpenDatabase \/ OpenCache \/ RunMigrations \/ Prepare
             \/ Listen \/ StartServing \/ Notify
    BY <1>1, <1>3, <2>1
       DEF Load, OpenDatabase, OpenCache, Connect, RunMigrations, Prepare, Listen,
           StartServing, Notify, Exit, Die, Stopping
  <2>2. CASE TakeSignal
    BY <2>2 DEF TakeSignal, Goto, stopVars
  <2>3. CASE BeginStop \/ Stopped \/ ForceStop \/ ForceStopReturns \/ Sync \/ CloseCache
    BY <1>2, <2>3 DEF BeginStop, Stopped, ForceStop, ForceStopReturns, Sync, CloseCache,
       stopVars, Stopping
  <2>4. CASE CloseDatabase
    BY <1>3, <2>4 DEF CloseDatabase
  <2>. QED
    BY <1>5, <2>1, <2>2, <2>3, <2>4 DEF MainStep
<1>6. CASE ServerStep \/ DeadlinePasses
  BY <1>3, <1>4, <1>6
     DEF ServerStep, Serve, ServeReturns, GracefulStop, Drained, DeadlinePasses,
         Exit, Die, stopVars
<1>7. CASE EnvStep
  <2>1. CASE Signal \/ Kill \/ ServeFails
    BY <1>3, <1>4, <2>1 DEF Signal, Kill, ServeFails, Exit, Die
  <2>2. CASE Restart
    BY <2>2 DEF Restart, Stopping
  <2>3. CASE \/ \E s \in Stores : GoDown(s) \/ ComeUp(s)
             \/ ProbeStarts \/ ProbeDatabase \/ ProbeCache
    BY <1>4, <2>3, ProbeMoves DEF GoDown, ComeUp, stopVars
  <2>. QED
    BY <1>7, <2>1, <2>2, <2>3 DEF EnvStep
<1>8. CASE \E c \in Calls : Accept(c) \/ Return(c)
  BY <1>4, <1>8 DEF Accept, Return, stopVars
<1>9. CASE UNCHANGED vars
  BY <1>4, <1>9 DEF vars, stopVars
<1>. QED
  BY <1>5, <1>6, <1>7, <1>8, <1>9 DEF Next

LEMMA KnowsAlways == Spec => []Knows
<1>1. Init => ClosedLeaves
  BY DEF Init, ClosedLeaves
<1>2. ASSUME Inv, ClosedLeaves, [Next]_vars
      PROVE  ClosedLeaves'
  <2>1. CASE UNCHANGED <<transport, quit>>
    BY <1>2, <2>1 DEF ClosedLeaves
  <2>2. CASE Serve \/ GracefulStop \/ Drained \/ ForceStop \/ Restart
    <3>1. stopper = "waiting" => quit
      BY <1>2 DEF Inv, Order, StopOrder
    <3>. QED
      BY <1>2, <2>2, <3>1
         DEF ClosedLeaves, Serve, GracefulStop, Drained, ForceStop, Restart, Exit, Die, grpcVars
  <2>3. \/ Serve \/ GracefulStop \/ Drained \/ ForceStop \/ Restart
        \/ UNCHANGED <<transport, quit>>
    <3>1. MainStep => ForceStop \/ UNCHANGED <<transport, quit>>
      BY DEF MainStep, Load, OpenDatabase, OpenCache, Connect, RunMigrations,
         Prepare, Listen, StartServing, Notify, TakeSignal, BeginStop, Stopped,
         ForceStopReturns, Sync, CloseCache, CloseDatabase, Exit, Die, grpcVars
    <3>2. ServerStep \/ DeadlinePasses =>
            Serve \/ GracefulStop \/ Drained \/ UNCHANGED <<transport, quit>>
      BY DEF ServerStep, ServeReturns, DeadlinePasses, grpcVars
    <3>3. EnvStep => Restart \/ UNCHANGED <<transport, quit>>
      <4>1. ASSUME ProbeStarts \/ ProbeDatabase \/ ProbeCache
            PROVE  UNCHANGED <<transport, quit>>
        BY <1>2, <4>1, ProbeMoves DEF grpcVars
      <4>. QED
        BY <4>1 DEF EnvStep, Signal, Kill, ServeFails, GoDown, ComeUp, Exit, Die, grpcVars
    <3>4. ASSUME NEW c \in Calls, Accept(c) \/ Return(c)
          PROVE  UNCHANGED <<transport, quit>>
      BY <3>4 DEF Accept, Return, grpcVars
    <3>. QED
      BY <1>2, <3>1, <3>2, <3>3, <3>4 DEF Next, vars, grpcVars
  <2>. QED
    BY <2>1, <2>2, <2>3
<1>3. Init => Signalled
  BY DEF Init, Signalled, Stopping
<1>4. Inv /\ Signalled /\ [Next]_vars => Signalled'
  BY SignalledKeeps
<1>5. Inv /\ Signalled /\ ClosedLeaves => Knows
  BY DEF Knows
<1>. QED
  BY <1>1, <1>2, <1>3, <1>4, <1>5, Invariance, PTL DEF Spec

\* The phases, one by one.
LEMMA PhaseMeans ==
  ASSUME TypeOK
  PROVE  /\ Phase = "ended" <=> ~Running
         /\ Phase = "forced" <=> Running /\ forced
         /\ Phase = "serving" <=> Running /\ ~forced /\ transport = "open" /\ ~quit
         /\ Phase = "draining" <=> Running /\ ~forced /\ transport = "open" /\ quit
         /\ Phase = "starting" <=> Running /\ ~forced /\ transport = "none" /\ ~quit
         /\ Phase \in {"ended", "forced", "serving", "draining", "starting", "closed"}
BY DEF Phase, Listening, Leaving, TypeOK

\* A step that changes none of what the contract speaks of.
LEMMA Unseen ==
  ASSUME UNCHANGED <<exit, signal, forced, quit, transport, calls, served>>
  PROVE  UNCHANGED S!svars
BY DEF S!svars, Phase, Running

\* The end of the process, however it comes.
LEMMA ExitEnds ==
  ASSUME Knows, Running, NEW how \in {"fatal", "killed"}, Die(how),
         how = "fatal" => Phase \in {"starting", "serving"} \/ ~served
  PROVE  S!SNext
<1>1. Phase # "ended" /\ Phase' = "ended"
  BY PhaseMeans DEF Knows, Inv, Die, Phase, Running
<1>2. calls' = S!Idle /\ UNCHANGED <<signal, served>>
  BY DEF Die, S!Idle, stopVars
<1>. QED
  BY <1>1, <1>2 DEF S!SNext, S!End, S!Alive, Die

\* Until a process serves it can only begin to, fail, or be told to stop.
LEMMA StartUpImplements ==
  ASSUME Knows,
         \/ Load \/ OpenDatabase \/ OpenCache \/ RunMigrations \/ Prepare
         \/ Listen \/ StartServing \/ Notify
  PROVE  S!SNext \/ UNCHANGED S!svars
<1>1. ASSUME NEW from, NEW to, Goto(from, to), UNCHANGED <<quit, transport>>,
             UNCHANGED stopVars, UNCHANGED callVars
      PROVE  UNCHANGED S!svars
  BY <1>1, Unseen DEF Goto, stopVars, callVars
<1>2. ASSUME Running, main \in Early, Die("fatal")
      PROVE  S!SNext
  <2>1. ~served
    BY <1>2 DEF Knows, Inv, Order, ServeOrder
  <2>. QED
    BY <1>2, <2>1, ExitEnds
<1>3. CASE Load \/ RunMigrations \/ Notify \/ StartServing
  BY <1>1, <1>3 DEF Load, RunMigrations, Notify, StartServing, grpcVars
<1>4. CASE OpenDatabase \/ OpenCache
  BY <1>1, <1>2, <1>4 DEF OpenDatabase, OpenCache, Connect, Early, grpcVars
<1>5. CASE Prepare \/ Listen
  BY <1>1, <1>2, <1>5 DEF Prepare, Listen, Exit, Early, grpcVars
<1>. QED
  BY <1>3, <1>4, <1>5

\* Serve opens the process, unless it has been told to leave.
LEMMA ServeImplements ==
  ASSUME Knows, Serve
  PROVE  S!SNext
<1>1. TypeOK /\ serve = "ready" /\ Running
  BY DEF Knows, Inv, Serve
<1>2. ~served /\ transport # "open"
  BY <1>1 DEF Knows, Inv, Order, ServeOrder
<1>3. CASE quit
  BY <1>1, <1>2, <1>3, ExitEnds DEF Serve, Exit
<1>4. CASE ~quit
  <2>1. transport = "none" /\ ~forced
    BY <1>1, <1>2, <1>4
       DEF Knows, ClosedLeaves, Inv, Order, StopOrder, TypeOK
  <2>2. Phase = "starting"
    BY <1>1, <1>4, <2>1, PhaseMeans
  <2>3. Phase' = "serving"
    BY <1>1, <1>4, <2>1 DEF Serve, Phase, Listening, Running, stopVars
  <2>. QED
    BY <1>4, <2>2, <2>3 DEF Serve, S!SNext, S!Open, stopVars, callVars
<1>. QED
  BY <1>3, <1>4

\* A call is taken while connections are open, and answered at any time.
LEMMA CallsImplement ==
  ASSUME Knows, NEW c \in Calls, Accept(c) \/ Return(c)
  PROVE  S!SNext
<1>1. TypeOK /\ Running /\ UNCHANGED Phase
  BY DEF Knows, Inv, Accept, Return, Phase, Running, grpcVars, stopVars
<1>2. CASE Accept(c)
  <2>1. ~forced
    BY <1>2 DEF Accept, Knows, Inv, Order, StopOrder
  <2>2. Phase \in {"serving", "draining"}
    BY <1>1, <1>2, <2>1, PhaseMeans DEF Accept, TypeOK
  <2>3. S!Take(c)
    BY <1>1, <1>2, <2>2 DEF Accept, S!Take, stopVars
  <2>. QED
    BY <2>3 DEF S!SNext
<1>3. CASE Return(c)
  <2>1. S!Answer(c)
    BY <1>1, <1>3, PhaseMeans DEF Return, S!Answer, S!Alive, stopVars
  <2>. QED
    BY <2>1 DEF S!SNext
<1>. QED
  BY <1>2, <1>3

\* The goroutine that stops: told by a signal, and patient with callers.
LEMMA StopperImplements ==
  ASSUME Knows, GracefulStop \/ Drained
  PROVE  S!SNext \/ UNCHANGED S!svars
<1>1. TypeOK /\ Running /\ Running'
  BY DEF Knows, Inv, GracefulStop, Drained, Running
<1>2. UNCHANGED <<signal, forced, calls, served, exit>>
  BY DEF GracefulStop, Drained, stopVars, callVars
<1>3. CASE GracefulStop
  <2>1. quit' /\ transport' = transport /\ stopper = "ready"
    BY <1>3 DEF GracefulStop
  <2>2. signal
    <3>1. main \in Stopping
      BY <1>1, <2>1 DEF Knows, Inv, TypeOK, Order, ExitOrder, ServeOrder
    <3>. QED
      BY <1>1, <3>1 DEF Knows, Signalled
  <2>3. CASE quit
    BY <1>2, <2>1, <2>3, Unseen
  <2>4. CASE ~quit
    <3>1. ~forced /\ transport \in {"none", "open"}
      BY <1>1, <2>4 DEF Knows, ClosedLeaves, Inv, Order, StopOrder, TypeOK
    <3>2. \/ Phase = "starting" /\ Phase' = "closed"
          \/ Phase = "serving" /\ Phase' = "draining"
      BY <1>1, <1>2, <2>1, <2>4, <3>1 DEF Phase, Listening, Leaving
    <3>3. S!Drain
      BY <1>2, <2>2, <3>2 DEF S!Drain
    <3>. QED
      BY <3>3 DEF S!SNext
  <2>. QED
    BY <2>3, <2>4 DEF Knows, Inv, TypeOK
<1>4. CASE Drained
  <2>1. quit /\ quit' /\ transport' = "closed" /\ calls = S!Idle
    BY <1>1, <1>4 DEF Drained, Knows, Inv, Order, StopOrder, Busy, TypeOK, S!Idle
  <2>2. CASE forced \/ transport # "open"
    <3>1. UNCHANGED Phase
      BY <1>1, <1>2, <2>1, <2>2 DEF Phase, Leaving, TypeOK
    <3>. QED
      BY <1>2, <3>1 DEF S!svars
  <2>3. CASE ~forced /\ transport = "open"
    <3>1. Phase = "draining" /\ Phase' = "closed"
      BY <1>1, <1>2, <2>1, <2>3 DEF Phase, Leaving
    <3>2. S!Close
      BY <1>2, <2>1, <3>1 DEF S!Close
    <3>. QED
      BY <3>2 DEF S!SNext
  <2>. QED
    BY <2>2, <2>3
<1>. QED
  BY <1>3, <1>4

\* main, from the signal to the last deferred Close.
LEMMA ShutdownImplements ==
  ASSUME Knows,
         \/ TakeSignal \/ BeginStop \/ Stopped \/ ForceStop
         \/ ForceStopReturns \/ Sync \/ CloseCache \/ CloseDatabase
         \/ DeadlinePasses \/ ServeReturns
  PROVE  S!SNext \/ UNCHANGED S!svars
<1>1. TypeOK
  BY DEF Knows, Inv
<1>2. CASE \/ TakeSignal \/ BeginStop \/ Stopped \/ ForceStopReturns \/ Sync
           \/ CloseCache \/ DeadlinePasses \/ ServeReturns
  <2>1. UNCHANGED <<exit, signal, forced, quit, transport, calls, served>>
    BY <1>2 DEF TakeSignal, BeginStop, Stopped, ForceStopReturns, Sync, CloseCache,
       DeadlinePasses, ServeReturns, Goto, grpcVars, stopVars, callVars
  <2>. QED
    BY <2>1, Unseen
<1>3. CASE ForceStop
  <2>1. Running /\ main = "select" /\ Running' /\ forced'
    BY <1>3 DEF ForceStop, Goto, Running
  <2>2. signal
    BY <2>1 DEF Knows, Signalled, Stopping
  <2>3. Phase # "ended" /\ Phase' = "forced"
    BY <1>1, <2>1, PhaseMeans DEF Phase
  <2>4. S!Force
    BY <1>3, <2>2, <2>3 DEF ForceStop, Goto, S!Force, S!Alive, callVars
  <2>. QED
    BY <2>4 DEF S!SNext
<1>4. CASE CloseDatabase
  <2>1. Running /\ main = "closeDatabase" /\ ~Running'
    BY <1>4 DEF CloseDatabase, Running
  <2>2. forced \/ (Busy = {} /\ transport = "closed")
    BY <2>1 DEF Knows, Inv, Order, StopOrder, Closing
  <2>3. Phase = "forced" \/ (Phase = "closed" /\ calls = S!Idle)
    BY <1>1, <2>1, <2>2
       DEF Phase, Listening, Leaving, Busy, S!Idle, TypeOK
  <2>4. S!End("ok")
    BY <1>1, <1>4, <2>1, <2>3, PhaseMeans
       DEF CloseDatabase, Phase, S!End, S!Alive, S!Idle, stopVars
  <2>. QED
    BY <2>4 DEF S!SNext
<1>. QED
  BY <1>2, <1>3, <1>4

\* Signals, failures and what is outside the process.
LEMMA EnvironmentImplements ==
  ASSUME Knows, EnvStep
  PROVE  S!SNext \/ UNCHANGED S!svars
<1>1. TypeOK
  BY DEF Knows, Inv
<1>2. CASE Signal
  <2>1. CASE main \in Starting
    BY <1>2, <2>1, ExitEnds DEF Signal, Exit
  <2>2. CASE main \notin Starting
    <3>1. UNCHANGED Phase /\ Phase # "ended"
      BY <1>1, <1>2, <2>2, PhaseMeans DEF Signal, Phase, Running, grpcVars
    <3>2. S!Tell
      BY <1>2, <2>2, <3>1 DEF Signal, S!Tell, S!Alive, callVars
    <3>. QED
      BY <3>2 DEF S!SNext
  <2>. QED
    BY <2>1, <2>2
<1>3. CASE Kill
  BY <1>3, ExitEnds DEF Kill, Exit
<1>4. CASE ServeFails
  <2>1. Running /\ ~quit /\ ~forced /\ transport # "closed"
    BY <1>4 DEF ServeFails, Knows, ClosedLeaves, Inv, Order, StopOrder
  <2>2. Phase \in {"starting", "serving"}
    BY <1>1, <2>1, PhaseMeans DEF TypeOK
  <2>. QED
    BY <1>4, <2>2, ExitEnds DEF ServeFails, Exit
<1>5. CASE Restart
  <2>1. Phase = "ended"
    BY <1>1, <1>5, PhaseMeans DEF Restart
  <2>2. Phase' = "starting" /\ calls' = S!Idle
    BY <1>5 DEF Restart, Phase, Listening, Running, S!Idle
  <2>3. S!Again
    BY <1>5, <2>1, <2>2 DEF Restart, S!Again
  <2>. QED
    BY <2>3 DEF S!SNext
<1>6. CASE \/ \E s \in Stores : GoDown(s) \/ ComeUp(s)
           \/ ProbeStarts \/ ProbeDatabase \/ ProbeCache
  <2>1. UNCHANGED <<main, exit, grpcVars, stopVars, callVars>>
    BY <1>6, ProbeMoves DEF GoDown, ComeUp, Knows
  <2>. QED
    BY <2>1, Unseen DEF grpcVars, stopVars, callVars
<1>. QED
  BY <1>2, <1>3, <1>4, <1>5, <1>6 DEF EnvStep

\* Contract: the server process takes calls only from when it opens until its
\* callers have left, stops only when told, ends with status 0 only when closed or
\* forced, and fails once it has begun to stop only if nobody was served
\* (main.go:109-154).
THEOREM Implements == Spec => Contract
<1>1. Init => S!SInit
  BY DEF Init, S!SInit, S!Idle, Phase, Listening, Running
<1>2. Knows /\ [Next]_vars => [S!SNext]_(S!svars)
  <2>. SUFFICES ASSUME Knows, [Next]_vars
                PROVE  S!SNext \/ UNCHANGED S!svars
    OBVIOUS
  <2>1. CASE MainStep
    BY <2>1, StartUpImplements, ShutdownImplements DEF MainStep
  <2>2. CASE ServerStep \/ DeadlinePasses
    BY <2>2, ServeImplements, StopperImplements, ShutdownImplements DEF ServerStep
  <2>3. CASE EnvStep
    BY <2>3, EnvironmentImplements
  <2>4. CASE \E c \in Calls : Accept(c) \/ Return(c)
    BY <2>4, CallsImplement
  <2>5. CASE UNCHANGED vars
    BY <2>5, Unseen DEF vars, grpcVars, stopVars, callVars
  <2>. QED
    BY <2>1, <2>2, <2>3, <2>4, <2>5 DEF Next
<1>. QED
  BY <1>1, <1>2, KnowsAlways, PTL DEF Spec, Contract, S!SSpec
=============================================================================
