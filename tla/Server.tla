------------------------------- MODULE Server -------------------------------
(***************************************************************************)
(* The life of the Go server process (backend/cmd/server/main.go): what    *)
(* main does from its configuration to the last deferred Close, beside the *)
(* goroutine that serves, the goroutine that stops, the handlers under     *)
(* way, signals, and two stores that come and go.  -health-check is a      *)
(* second process that looks at the same stores.                           *)
(*                                                                         *)
(* A handler is seen only as one that uses both pools until it returns:    *)
(* its statements are in AuthService.                                      *)
(***************************************************************************)
EXTENDS Naturals

CONSTANTS
  Calls,       \* RPCs that may be under way
  MaxOutages   \* how often a store may go away

ASSUME ServerAssumption == MaxOutages \in Nat

VARIABLES
  main,        \* where main is
  exit,        \* how the process ended, "no" while it runs
  signal,      \* a signal waits in the channel (main.go:132)
  deadline,    \* the context of the shutdown (main.go:139)
  forced,      \* main called Stop (main.go:153)
  serve,       \* the goroutine of Serve
  stopper,     \* the goroutine of GracefulStop
  quit,        \* Stop or GracefulStop has been called: no listener is left
  transport,   \* connections of clients
  pool,        \* the SQL and the Redis pool
  calls,       \* the handlers
  served,      \* history: this process has taken a call
  cut,         \* history: calls under way when the process ended
  up,          \* stores that answer
  outages,
  probe        \* the health check: where it is, its pools, who answered

Stores == {"database", "cache"}

Starting == {"load", "database", "cache", "migrations", "services",
             "listen", "serve", "notify"}
Stopping == {"stop", "select", "force", "sync", "closeCache", "closeDatabase"}

grpcVars == <<serve, stopper, quit, transport>>
stopVars == <<signal, deadline, forced>>
callVars == <<calls, served, cut>>
envVars == <<up, outages, probe>>
vars == <<main, exit, pool, grpcVars, stopVars, callVars, envVars>>

Running == exit = "no"

Busy == {c \in Calls : calls[c] # "idle"}

ProbeOff == [at |-> "off", open |-> {}, answered |-> {}]

Init ==
  /\ main = "load" /\ exit = "no"
  /\ signal = FALSE /\ deadline = "off" /\ forced = FALSE
  /\ serve = "none" /\ stopper = "none" /\ quit = FALSE /\ transport = "none"
  /\ pool = [s \in Stores |-> "none"]
  /\ calls = [c \in Calls |-> "idle"] /\ served = FALSE /\ cut = {}
  /\ up \in SUBSET Stores /\ outages = 0
  /\ probe = ProbeOff

\* The process is gone, and its handlers with it; no deferred call runs.
Die(how) ==
  /\ exit' = how
  /\ main' = "exited"
  /\ calls' = [c \in Calls |-> "idle"]
  /\ cut' = Busy
  /\ UNCHANGED <<served, grpcVars, stopVars, envVars>>

Exit(how) == Die(how) /\ pool' = pool

\* main goes from one point to the next; the rest of the process stays.
Goto(from, to) == Running /\ main = from /\ main' = to /\ exit' = exit
----------------------------------------------------------------------------
(* Start-up *)

\* config.Load: it cannot fail (module Settings).
Load ==
  /\ Goto("load", "database")
  /\ UNCHANGED <<pool, grpcVars, stopVars, callVars, envVars>>

\* Mutated form: the error is logged and main goes on.
ConnectLater(s, from, to) ==
  /\ Goto(from, to)
  /\ pool' = [pool EXCEPT ![s] = IF s \in up THEN "open" ELSE "leaked"]
  /\ UNCHANGED <<grpcVars, stopVars, callVars, envVars>>

\* db.New and cache.New: a pool is made and pinged.  If the store does not
\* answer, New returns an error and nobody has the pool to close it: the end
\* of the process, by log.Fatalf, takes it along.
Connect(s, from, to) ==
  \/ /\ Goto(from, to)
     /\ s \in up
     /\ pool' = [pool EXCEPT ![s] = "open"]
     /\ UNCHANGED <<grpcVars, stopVars, callVars, envVars>>
  \/ /\ Running /\ main = from /\ s \notin up
     /\ Die("fatal")
     /\ pool' = [pool EXCEPT ![s] = "leaked"]

OpenDatabase == Connect("database", "database", "cache")
OpenCache == Connect("cache", "cache", "migrations")

\* RunMigrations looks for the table and runs nothing; a failure is logged,
\* and the answer is not looked at.
RunMigrations ==
  /\ Goto("migrations", "services")
  /\ UNCHANGED <<pool, grpcVars, stopVars, callVars, envVars>>

\* The logger, the keys, the services and net.Listen: the key files may be
\* unreadable and the port taken.
Prepare ==
  \/ /\ Goto("services", "listen")
     /\ UNCHANGED <<pool, grpcVars, stopVars, callVars, envVars>>
  \/ Running /\ main = "services" /\ Exit("fatal")

Listen ==
  \/ /\ Goto("listen", "serve")
     /\ UNCHANGED <<pool, grpcVars, stopVars, callVars, envVars>>
  \/ Running /\ main = "listen" /\ Exit("fatal")

\* go func() { ... Serve ... }
StartServing ==
  /\ Goto("serve", "notify")
  /\ serve' = "ready"
  /\ UNCHANGED <<stopper, quit, transport, pool, stopVars, callVars, envVars>>

Notify ==
  /\ Goto("notify", "wait")
  /\ UNCHANGED <<pool, grpcVars, stopVars, callVars, envVars>>
----------------------------------------------------------------------------
(* Serving *)

\* Serve registers the listener, unless the server has been stopped: then it
\* returns ErrServerStopped, which main.go:127 takes for a failure.
Serve ==
  /\ Running /\ serve = "ready"
  /\ \/ /\ ~quit
        /\ serve' = "accepting" /\ transport' = "open"
        /\ UNCHANGED <<main, exit, stopper, quit, pool, stopVars, callVars,
                       envVars>>
     \/ quit /\ Exit("fatal")

\* Mutated form: any return of Serve is taken for a failure.
ServeReturnsFatal ==
  Running /\ serve = "accepting" /\ quit /\ Exit("fatal")

\* The listener was closed by Stop or GracefulStop: Serve returns nil.
ServeReturns ==
  /\ Running /\ serve = "accepting" /\ quit
  /\ serve' = "returned"
  /\ UNCHANGED <<main, exit, stopper, quit, transport, pool, stopVars,
                 callVars, envVars>>

\* Accept fails for good while nobody stops the server.
ServeFails == Running /\ serve = "accepting" /\ ~quit /\ Exit("fatal")

\* A stream of a connected client starts its handler: while the connections
\* drain too, until the client has heard of it.
Accept(c) ==
  /\ Running /\ transport = "open" /\ calls[c] = "idle"
  /\ calls' = [calls EXCEPT ![c] = "running"]
  /\ served' = TRUE
  /\ UNCHANGED <<main, exit, cut, pool, grpcVars, stopVars, envVars>>

\* The handler returns, is logged by the interceptor and answered.  It may
\* return at any time: its context may be cancelled and its stores fail.
Return(c) ==
  /\ Running /\ calls[c] = "running"
  /\ calls' = [calls EXCEPT ![c] = "idle"]
  /\ UNCHANGED <<main, exit, served, cut, pool, grpcVars, stopVars, envVars>>
----------------------------------------------------------------------------
(* Shutdown *)

\* SIGINT or SIGTERM: it ends a process that has not asked to be notified,
\* and waits in the channel of one that has.
Signal ==
  /\ Running
  /\ IF main \in Starting
     THEN Exit("killed")
     ELSE /\ ~signal /\ signal' = TRUE
          /\ UNCHANGED <<main, exit, deadline, forced, pool, grpcVars,
                         callVars, envVars>>

\* SIGKILL, a panic in a handler, or the machine.
Kill == Running /\ Exit("killed")

TakeSignal ==
  /\ Goto("wait", "stop") /\ signal
  /\ UNCHANGED <<pool, grpcVars, stopVars, callVars, envVars>>

\* context.WithTimeout, and the goroutine of GracefulStop.
BeginStop ==
  /\ Goto("stop", "select")
  /\ deadline' = "running" /\ stopper' = "ready"
  /\ UNCHANGED <<signal, forced, serve, quit, transport, pool, callVars,
                 envVars>>

GracefulStop ==
  /\ Running /\ stopper = "ready"
  /\ stopper' = "waiting" /\ quit' = TRUE
  /\ UNCHANGED <<main, exit, serve, transport, pool, stopVars, callVars,
                 envVars>>

\* Serve has left its loop, connections are gone, handlers have returned.
Drained ==
  /\ Running /\ stopper = "waiting"
  /\ serve # "accepting" /\ Busy = {}
  /\ stopper' = "done"
  /\ transport' = "closed"
  /\ UNCHANGED <<main, exit, serve, quit, pool, stopVars, callVars, envVars>>

\* Mutated form: a context without a deadline.
NoDeadline ==
  /\ Running /\ deadline = "running"
  /\ UNCHANGED vars

DeadlinePasses ==
  /\ Running /\ deadline = "running"
  /\ deadline' = "passed"
  /\ UNCHANGED <<main, exit, signal, forced, pool, grpcVars, callVars,
                 envVars>>

\* Mutated form: main does not wait for the goroutine that stops.
StoppedUnawaited ==
  /\ Goto("select", "sync")
  /\ UNCHANGED <<pool, grpcVars, stopVars, callVars, envVars>>

\* The two branches of the select; either may be taken when both are ready.
Stopped ==
  /\ Goto("select", "sync") /\ stopper = "done"
  /\ UNCHANGED <<pool, grpcVars, stopVars, callVars, envVars>>

ForceStop ==
  /\ Goto("select", "force") /\ deadline = "passed"
  /\ forced' = TRUE /\ quit' = TRUE /\ transport' = "closed"
  /\ UNCHANGED <<signal, deadline, serve, stopper, pool, callVars, envVars>>

\* Stop waits for Serve to leave its loop, and for no handler.  It is grpc-go's,
\* as is GracefulStop: that one which waits for a handler holds no lock that
\* Stop needs is assumed of that library, which is not in src/.
ForceStopReturns ==
  /\ Goto("force", "sync") /\ serve # "accepting"
  /\ UNCHANGED <<pool, grpcVars, stopVars, callVars, envVars>>

\* The deferred calls, last to first, and the end of main.
Sync ==
  /\ Goto("sync", "closeCache")
  /\ UNCHANGED <<pool, grpcVars, stopVars, callVars, envVars>>

\* Mutated form: no deferred Close of the cache.
SkipCloseCache ==
  /\ Goto("closeCache", "closeDatabase")
  /\ UNCHANGED <<pool, grpcVars, stopVars, callVars, envVars>>

CloseCache ==
  /\ Goto("closeCache", "closeDatabase")
  /\ pool' = [pool EXCEPT !["cache"] = "closed"]
  /\ UNCHANGED <<grpcVars, stopVars, callVars, envVars>>

CloseDatabase ==
  /\ Running /\ main = "closeDatabase"
  /\ exit' = "ok" /\ main' = "exited"
  /\ pool' = [pool EXCEPT !["database"] = "closed"]
  /\ calls' = [c \in Calls |-> "idle"] /\ cut' = Busy
  /\ UNCHANGED <<served, grpcVars, stopVars, envVars>>

\* The container is started again: a new process, which finds nothing.
Restart ==
  /\ ~Running
  /\ main' = "load" /\ exit' = "no"
  /\ signal' = FALSE /\ deadline' = "off" /\ forced' = FALSE
  /\ serve' = "none" /\ stopper' = "none" /\ quit' = FALSE
  /\ transport' = "none"
  /\ pool' = [s \in Stores |-> "none"]
  /\ calls' = [c \in Calls |-> "idle"] /\ served' = FALSE /\ cut' = {}
  /\ UNCHANGED envVars
----------------------------------------------------------------------------
(* Stores and the health check *)

GoDown(s) ==
  /\ s \in up /\ outages < MaxOutages
  /\ up' = up \ {s} /\ outages' = outages + 1
  /\ UNCHANGED <<main, exit, pool, grpcVars, stopVars, callVars, probe>>

ComeUp(s) ==
  /\ s \notin up
  /\ up' = up \cup {s}
  /\ UNCHANGED <<main, exit, pool, grpcVars, stopVars, callVars, outages,
                 probe>>

\* performHealthCheck: New and Health of the database, then of the cache.
\* Its deferred Closes run before main calls Fatalf or Exit.
ProbeSteps == [database |-> "databaseHealth", databaseHealth |-> "cache",
               cache |-> "cacheHealth", cacheHealth |-> "passed"]

\* Mutated form: log.Fatalf in performHealthCheck, past its deferred Closes.
ProbeEndsAtOnce(verdict, leaked) ==
  [probe EXCEPT !.at = verdict, !.open = @ \cup leaked]

\* What is left open is what a New has opened and not returned.
ProbeEnds(verdict, leaked) == [probe EXCEPT !.at = verdict, !.open = leaked]

ProbeStarts ==
  /\ probe.at \in {"off", "passed", "failed"}
  /\ probe' = [ProbeOff EXCEPT !.at = "database"]
  /\ UNCHANGED <<main, exit, pool, grpcVars, stopVars, callVars, up, outages>>

\* The first step of a store, which is named after it, is the ping of its New.
ProbeStep(s, steps) ==
  /\ probe.at \in steps
  /\ \/ /\ s \notin up
        /\ probe' = ProbeEnds("failed", {s} \cap {probe.at})
     \/ /\ s \in up /\ probe.at = "cacheHealth"
        /\ probe' = [ProbeEnds("passed", {}) EXCEPT !.answered = @ \cup {s}]
     \/ /\ s \in up /\ probe.at # "cacheHealth"
        /\ probe' = [at |-> ProbeSteps[probe.at],
                     open |-> probe.open \cup {s},
                     answered |-> probe.answered \cup {s}]
  /\ UNCHANGED <<main, exit, pool, grpcVars, stopVars, callVars, up, outages>>

ProbeDatabase == ProbeStep("database", {"database", "databaseHealth"})
ProbeCache == ProbeStep("cache", {"cache", "cacheHealth"})
----------------------------------------------------------------------------
MainStep ==
  \/ Load \/ OpenDatabase \/ OpenCache \/ RunMigrations \/ Prepare \/ Listen
  \/ StartServing \/ Notify \/ TakeSignal \/ BeginStop \/ Stopped \/ ForceStop
  \/ ForceStopReturns \/ Sync \/ CloseCache \/ CloseDatabase

ServerStep == Serve \/ ServeReturns \/ GracefulStop \/ Drained

EnvStep ==
  \/ Signal \/ Kill \/ ServeFails \/ Restart
  \/ ProbeStarts \/ ProbeDatabase \/ ProbeCache
  \/ \E s \in Stores : GoDown(s) \/ ComeUp(s)

Next ==
  \/ MainStep \/ ServerStep \/ DeadlinePasses \/ EnvStep
  \/ \E c \in Calls : Accept(c) \/ Return(c)

Spec == Init /\ [][Next]_vars

\* Goroutines are scheduled and time passes.  Nothing is owed by handlers,
\* which may hang in a statement, nor by signals, stores or operators.
Fairness ==
  WF_vars(MainStep) /\ WF_vars(ServerStep) /\ WF_vars(DeadlinePasses)

FairSpec == Spec /\ Fairness
----------------------------------------------------------------------------
(* Properties *)

\* Types, and nobody serves before both stores have answered (main.go:51-61).
TypeOK ==
  /\ main \in Starting \cup Stopping \cup {"wait", "exited"}
  /\ exit \in {"no", "ok", "fatal", "killed"}
  /\ signal \in BOOLEAN /\ deadline \in {"off", "running", "passed"}
  /\ forced \in BOOLEAN /\ quit \in BOOLEAN /\ served \in BOOLEAN
  /\ serve \in {"none", "ready", "accepting", "returned"}
  /\ stopper \in {"none", "ready", "waiting", "done"}
  /\ transport \in {"none", "open", "closed"}
  /\ pool \in [Stores -> {"none", "leaked", "open", "closed"}]
  /\ calls \in [Calls -> {"idle", "running"}]
  /\ cut \in SUBSET Calls
  /\ up \in SUBSET Stores /\ outages \in 0..MaxOutages
  /\ probe \in [at : {"off", "passed", "failed"} \cup DOMAIN ProbeSteps,
                open : SUBSET Stores, answered : SUBSET Stores]
  /\ serve # "none" => \A s \in Stores : pool[s] \in {"open", "closed"}

\* A handler finds both pools open, from the first call the server takes to
\* the last it lets go on; only Stop (main.go:153), which does not wait for
\* handlers, lets the deferred Closes (main.go:55,63) overtake one.
PoolsOutliveCalls ==
  Busy # {} /\ ~forced => \A s \in Stores : pool[s] = "open"

\* A process that ends with status 0 has closed its connections and both
\* pools, and it has cut a call short only if the deadline passed
\* (main.go:148-154).
CleanExit ==
  exit = "ok" => /\ transport # "open"
                 /\ \A s \in Stores : pool[s] = "closed"
                 /\ cut # {} => forced

\* Once a shutdown has begun (main.go:144,153) the process fails only because
\* the signal overtook the goroutine that serves (main.go:126), and then
\* nobody had been served.
LateFailureServedNobody ==
  [][Running /\ quit /\ exit' = "fatal" => ~served]_vars

\* The health check passes only if both stores answered it, and then it has
\* closed both pools; one that fails half way leaves open at most the pool of
\* the store that did not answer its first ping (main.go:157-184).
ProbeTells ==
  /\ probe.at = "passed" => probe.answered = Stores /\ probe.open = {}
  /\ probe.at = "failed" => probe.open \cap probe.answered = {}

\* A signal ends the process, even if a handler never returns (main.go:139).
SignalEnds == signal ~> ~Running
=============================================================================
