---------------------------- MODULE AppLifecycle ----------------------------
(* The life of the process (cmd/gomodel/main.go, internal/app/app.go): New
   builds the components one by one and unwinds them when one fails; main
   serves until the server stops; a goroutine waits for SIGTERM and shuts the
   application down.  The components that keep data share one storage
   connection, owned by the first of them to open it and closed with it.

   The HTTP server is external: once its context is cancelled it returns when
   no request is in flight, or when its own grace period is over.            *)
EXTENDS Naturals, Sequences

CONSTANTS MaxInflight   \* bound: requests at a time

ASSUME InflightAssumption == MaxInflight \in Nat

VARIABLES settings,     \* the features that are switched on
          main,         \* where main is
          built,        \* how many components New has built
          storage,      \* per built component: whose connection it uses
          sharedStorage,\* whose connection later components are given
          closed,       \* components that have been closed
          server,       \* "off", "on", "draining" or "stopped"
          inflight,     \* requests being served
          serverDone,   \* the server is registered with the App
          shutdown,     \* the App's shutdown flag
          caller,       \* the calls of Shutdown: the signal goroutine's, and main's
          late          \* history: "deadline" if one passed, "early" if Shutdown found no server yet

lifeVars == <<settings, main, built, storage, sharedStorage, closed, server, inflight,
              serverDone, shutdown, caller, late>>

Features == {"audit", "usage", "budgets", "modelOverrides"}
None == "none"

StartOrder == <<"live", "providers", "audit", "usage", "budgets", "batch", "fileStore",
                "aliases", "modelOverrides", "pricingOverrides", "guardrails", "workflows",
                "authKeys", "responseCache">>

\* Bug: the loggers are closed with the other components, in start order.
ShutdownOrderAsBuilt == Tail(StartOrder)

\* Shutdown closes the live broker with the server, then these.
ShutdownOrder == <<"responseCache", "providers", "aliases", "workflows", "modelOverrides",
                   "pricingOverrides", "guardrails", "authKeys", "fileStore", "batch",
                   "budgets", "usage", "audit">>

\* Budgets are switched off without usage tracking.
Enabled(c) == (c \in Features => c \in settings) /\ (c = "budgets" => "usage" \in settings)

Stores(c) == Enabled(c) /\ c \notin {"live", "providers", "responseCache"}

\* budgets and authKeys never lend their connection to others.
Claims(c) == c \notin {"budgets", "authKeys"}

Callers == {"signal", "main"}

Built == {StartOrder[k] : k \in 1..built}

LifeInit ==
  /\ settings \in SUBSET Features
  /\ main = "new"
  /\ built = 0 /\ storage = <<>>
  /\ sharedStorage = None
  /\ closed = {}
  /\ server = "off" /\ inflight = 0 /\ serverDone = FALSE
  /\ shutdown = FALSE
  /\ caller = [c \in Callers |-> [at |-> "idle", step |-> 1]]
  /\ late = {}

-----------------------------------------------------------------------------
(* New. *)

\* The next component opens a connection, or is given the one claimed before.
BuildComponent ==
  LET c == StartOrder[built + 1]
      owner == IF sharedStorage = None THEN c ELSE sharedStorage
  IN
  /\ main = "new" /\ built < Len(StartOrder)
  /\ built' = built + 1
  /\ IF Stores(c)
     THEN /\ storage' = [d \in DOMAIN storage \cup {c} |-> IF d = c THEN owner ELSE storage[d]]
          /\ sharedStorage' = IF Claims(c) THEN owner ELSE sharedStorage
     ELSE UNCHANGED <<storage, sharedStorage>>
  /\ UNCHANGED <<settings, main, closed, server, inflight, serverDone, shutdown, caller, late>>

\* A component that fails cleans up after itself; fail() closes the earlier ones.
BuildFails ==
  /\ main = "new"
  /\ main' = "unwinding"
  /\ UNCHANGED <<settings, built, storage, sharedStorage, closed, server, inflight, serverDone,
                 shutdown, caller, late>>

\* The closers run last to first; then main exits.
Unwind ==
  /\ main = "unwinding"
  /\ \/ \E k \in 1..built :
          /\ \A j \in 1..built : StartOrder[j] \in closed <=> j > k
          /\ closed' = closed \cup {StartOrder[k]}
          /\ UNCHANGED main
     \/ Built \subseteq closed /\ main' = "exited" /\ UNCHANGED closed
  /\ UNCHANGED <<settings, built, storage, sharedStorage, server, inflight, serverDone,
                 shutdown, caller, late>>

NewReturns ==
  /\ main = "new" /\ built = Len(StartOrder)
  /\ main' = "starting"
  /\ UNCHANGED <<settings, built, storage, sharedStorage, closed, server, inflight, serverDone,
                 shutdown, caller, late>>

-----------------------------------------------------------------------------
(* startServer, and the server itself. *)

startServer ==
  /\ main = "starting"
  /\ main' = "serving"
  /\ serverDone' = TRUE
  /\ server' = "on"
  /\ UNCHANGED <<settings, built, storage, sharedStorage, closed, inflight, shutdown, caller, late>>

Accept ==
  /\ server = "on" /\ main = "serving"
  /\ inflight < MaxInflight /\ inflight' = inflight + 1
  /\ UNCHANGED <<settings, main, built, storage, sharedStorage, closed, server, serverDone,
                 shutdown, caller, late>>

Complete ==
  /\ inflight > 0 /\ main # "exited"
  /\ inflight' = inflight - 1
  /\ UNCHANGED <<settings, main, built, storage, sharedStorage, closed, server, serverDone,
                 shutdown, caller, late>>

\* It returns once drained, when its grace period is over, or at once when the
\* address cannot be used.
ServerStops ==
  /\ main = "serving"
  /\ \/ server = "draining" /\ inflight = 0 /\ UNCHANGED late
     \/ server = "draining" /\ inflight > 0 /\ late' = late \cup {"deadline"}
     \/ server = "on" /\ inflight = 0 /\ UNCHANGED late
  /\ server' = "stopped"
  /\ serverDone' = FALSE
  /\ main' \in IF server = "draining" THEN {"returned", "failed"} ELSE {"failed"}
  /\ UNCHANGED <<settings, built, storage, sharedStorage, closed, inflight, shutdown, caller>>

-----------------------------------------------------------------------------
(* Shutdown. *)

\* The signal goroutine runs from the return of New; main calls it when Start failed.
CallsShutdown(c) ==
  /\ main \in IF c = "main" THEN {"failed"} ELSE {"starting", "serving", "returned", "failed"}
  /\ caller[c].at = "idle"
  /\ caller' = [caller EXCEPT ![c].at = IF shutdown THEN "done" ELSE "stop"]
  /\ shutdown' = TRUE
  /\ UNCHANGED <<settings, main, built, storage, sharedStorage, closed, server, inflight,
                 serverDone, late>>

Now(c, at) == caller' = [caller EXCEPT ![c].at = at]

\* Bug: the server's context is not cancelled.
StopServerUncancelled(c) ==
  /\ main # "exited" /\ caller[c].at = "stop"
  /\ closed' = closed \cup {"live"}
  /\ Now(c, IF serverDone THEN "wait" ELSE "close")
  /\ late' = IF main = "starting" THEN late \cup {"early"} ELSE late
  /\ UNCHANGED <<settings, main, built, storage, sharedStorage, server, inflight, serverDone, shutdown>>

\* Cancel the server's context and close the live broker, whose streams would
\* keep the server from draining; wait if the server was registered.
StopServer(c) ==
  /\ main # "exited" /\ caller[c].at = "stop"
  /\ server' = IF server = "on" THEN "draining" ELSE server
  /\ closed' = closed \cup {"live"}
  /\ Now(c, IF serverDone THEN "wait" ELSE "close")
  /\ late' = IF main = "starting" THEN late \cup {"early"} ELSE late
  /\ UNCHANGED <<settings, main, built, storage, sharedStorage, inflight, serverDone, shutdown>>

\* The server has returned, or the deadline is over.
Waited(c) ==
  /\ main # "exited" /\ caller[c].at = "wait"
  /\ late' = IF serverDone THEN late \cup {"deadline"} ELSE late
  /\ Now(c, "close")
  /\ UNCHANGED <<settings, main, built, storage, sharedStorage, closed, server, inflight,
                 serverDone, shutdown>>

\* Every step is attempted whatever the earlier ones returned.
CloseNext(c) ==
  LET step == caller[c].step IN
  /\ main # "exited" /\ caller[c].at = "close"
  /\ IF step > Len(ShutdownOrder)
     THEN Now(c, "done") /\ UNCHANGED closed
     ELSE /\ closed' = closed \cup {ShutdownOrder[step]}
          /\ caller' = [caller EXCEPT ![c].step = step + 1]
  /\ UNCHANGED <<settings, main, built, storage, sharedStorage, server, inflight, serverDone,
                 shutdown, late>>

\* main ends as soon as startApplication returns; when Start failed that is
\* after main's own call of Shutdown, or its deadline.
Exit ==
  /\ \/ main = "returned" /\ UNCHANGED late
     \/ main = "failed" /\ caller["main"].at = "done" /\ UNCHANGED late
     \/ main = "failed" /\ caller["main"].at \notin {"idle", "done"} /\ late' = late \cup {"deadline"}
  /\ main' = "exited"
  /\ UNCHANGED <<settings, built, storage, sharedStorage, closed, server, inflight, serverDone,
                 shutdown, caller>>

-----------------------------------------------------------------------------
ShutdownSteps(c) == StopServer(c) \/ Waited(c) \/ CloseNext(c)

LifeNext ==
  \/ BuildComponent \/ BuildFails \/ Unwind \/ NewReturns
  \/ startServer \/ Accept \/ Complete \/ ServerStops
  \/ \E c \in Callers : CallsShutdown(c) \/ ShutdownSteps(c)
  \/ Exit

\* Every goroutine that can go on does; requests end or are given up by the
\* server's grace period; a signal need not come.
LifeFairness ==
  /\ WF_lifeVars(BuildComponent \/ Unwind \/ NewReturns \/ startServer)
  /\ WF_lifeVars(server # "on" /\ ServerStops)
  /\ WF_lifeVars(CallsShutdown("main"))
  /\ \A c \in Callers : WF_lifeVars(ShutdownSteps(c))
  /\ WF_lifeVars(Exit)

LifeSpec == LifeInit /\ [][LifeNext]_lifeVars /\ LifeFairness

-----------------------------------------------------------------------------
LifeTypeOK ==
  /\ settings \subseteq Features
  /\ main \in {"new", "unwinding", "starting", "serving", "returned", "failed", "exited"}
  /\ built \in 0..Len(StartOrder)
  /\ closed \subseteq {StartOrder[k] : k \in 1..Len(StartOrder)}
  /\ server \in {"off", "on", "draining", "stopped"}
  /\ inflight \in 0..MaxInflight
  /\ serverDone \in BOOLEAN /\ shutdown \in BOOLEAN /\ late \subseteq {"deadline", "early"}

\* Whatever is switched on, and however far the start came, the connection a
\* component uses is closed after the component: in both closing orders.  Main
\* exits with everything closed when New failed.
StorageOutlivesUsers ==
  /\ \A c \in DOMAIN storage \ closed : storage[c] \notin closed
  /\ main = "exited" /\ built < Len(StartOrder) => closed = Built

\* No request is in flight once a component other than the live broker is
\* closed, except after a deadline, or when the signal came before the server.
ClosedOnceDrained == closed \ {"live"} # {} /\ main # "unwinding" /\ late = {} => inflight = 0

\* The application comes down in order, in all these ways.
DownInOrder == StorageOutlivesUsers /\ ClosedOnceDrained

-----------------------------------------------------------------------------
(* Why it does: the inductive invariant. *)

\* The first to store, of those that lend, owns the connection of all.
Lender == IF "audit" \in settings THEN "audit" ELSE IF "usage" \in settings THEN "usage" ELSE "batch"

StorageInv ==
  /\ DOMAIN storage = {c \in Built : Stores(c)}
  /\ \A c \in DOMAIN storage : storage[c] = Lender
  /\ sharedStorage = IF Lender \in Built THEN Lender ELSE None

\* New closes what it built from the last on; the callers of Shutdown each a
\* part of its order from the first on, whoever and however many they are.
ClosedInv ==
  /\ main = "new" => closed = {}
  /\ main = "unwinding" => \E k \in 0..built : closed = {StartOrder[j] : j \in (k + 1)..built}
  /\ main = "exited" /\ server = "off" => closed = Built
  /\ main \notin {"new", "unwinding"} /\ built < Len(StartOrder) => main = "exited" /\ server = "off"
  /\ main = "starting" \/ server # "off" =>
       closed \ {"live"} = {ShutdownOrder[j] : j \in {k \in 1..Len(ShutdownOrder) :
                                                 \E c \in Callers : k < caller[c].step}}

\* The server is registered as long as it runs, and no caller goes on to close
\* components before it has stopped, but for the cases that late records.
ServerInv ==
  /\ serverDone <=> main = "serving"
  /\ serverDone <=> server \in {"on", "draining"}
  /\ main \in {"new", "unwinding", "starting"} => server = "off"
  /\ main \in {"returned", "failed"} => server = "stopped"
  /\ server = "off" \/ (server = "stopped" /\ late = {}) => inflight = 0
  /\ \A c \in Callers :
       /\ caller[c].at # "idle" => main \notin {"new", "unwinding"}
       /\ caller[c].at = "wait" => server # "off"
       /\ caller[c].at \in {"idle", "stop", "wait"} => caller[c].step = 1
       /\ caller[c].at = "close" \/ caller[c].step > 1 => late # {} \/ server = "stopped"

CallersTypeOK == caller \in [Callers -> [at : {"idle", "stop", "wait", "close", "done"},
                                         step : 1..(Len(ShutdownOrder) + 1)]]

LifeInv == LifeTypeOK /\ CallersTypeOK /\ StorageInv /\ ClosedInv /\ ServerInv

\* Once the application is told to stop, and unless that was before the server
\* was registered, the process ends.
StopsOnSignal == [](shutdown => <>(main = "exited" \/ "early" \in late))

\* A regular stop ends with every component closed, hence the loggers flushed
\* (the comment on Shutdown in internal/app/app.go).  It does not: main returns
\* as soon as the server has stopped, while the signal goroutine still closes.
ExitsClosed == main = "exited" /\ late = {} => Built \subseteq closed
=============================================================================
