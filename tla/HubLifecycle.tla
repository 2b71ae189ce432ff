---------------------------- MODULE HubLifecycle ----------------------------
(***************************************************************************)
(* One run of the instrument hub, from NewRunHub to the end of the         *)
(* process: opening the database, attaching to or starting the script      *)
(* server daemon, NATS, the logger, the five request handlers, the         *)
(* reconciliation of the instruments, STATUS and the device state; then    *)
(* the signal and Runtime.Close, whose deferred order is the reverse.      *)
(*                                                                         *)
(* The main goroutine takes these steps while NATS delivers requests to    *)
(* the handlers subscribed so far, the status loop publishes and the       *)
(* database worker persists accepted inserts.  A panic in any goroutine    *)
(* ends the process: no deferred call of the main goroutine runs.          *)
(* External: the daemon, NATS, other processes of the machine.  A handled  *)
(* measurement is a request to the server, its job, the update of the      *)
(* device state and the insert; CommandHandlers has its details.           *)
(***************************************************************************)
EXTENDS Naturals, Sequences

CONSTANTS
    Instruments,   \* instruments of the configuration
    NatsPorts,     \* ports findAvailablePort tries, in their order
    MaxInserts     \* bound: inserts accepted in the run

ASSUME PortAssumption == NatsPorts \in Seq(Nat) /\ NatsPorts # << >>
ASSUME InsertAssumption == MaxInserts \in Nat

VARIABLES
    pc,           \* where the main goroutine is
    exit,         \* "no", or how the process ended; a panic is told by its cause
    next,         \* handler to subscribe, 0 before the first
    toReconcile,  \* instruments reconcileInstruments has not looked at yet
    autoStart,    \* InstrumentServer.AutoStart of the configuration
    daemon,       \* the daemon: "down", "starting" or "up"
    owns,         \* Runtime.ownsISS (issProcess is set with it)
    client,       \* issClient is connected
    natsPort,     \* the port chosen, 0 before
    nats,         \* the connection is open
    logger,       \* the logger is open
    ports,        \* *ConnectedPorts: "unset", "nil" or "set"
    subs,         \* handlers with a subscription
    status,       \* publishing loop: "off", "running" or "stopped"
    announced,    \* STATUS was published
    device,       \* devicestate's globalManager is set
    db,           \* measurementdb: "closed", "open" or "closing"
    pending,      \* inserts accepted and not persisted
    inserts,      \* inserts accepted
    cb,           \* where each handler's callback is
    taken,        \* NATS ports other processes listen on
    found,        \* history: the daemon was up when the hub looked for it
    died,         \* history: the daemon died by itself
    kept,         \* history: StopDaemon or its command line failed
    signalled     \* history: the hub received its shutdown signal

runtimeVars == <<next, toReconcile, autoStart, owns, client, natsPort, nats, logger,
                 ports, subs, status, announced, device>>
storeVars == <<db, pending, inserts>>
worldVars == <<daemon, taken, died>>
histVars == <<found, kept, signalled>>
vars == <<pc, exit, runtimeVars, storeVars, worldVars, histVars, cb>>

\* getHandlerOperations: the handlers in the order they are started.
Handlers == <<"config", "state", "measure", "ports", "setting">>
HandlerNames == {Handlers[i] : i \in DOMAIN Handlers}
Commands == {"measure", "setting"}

StartupSteps == {"env", "db", "attach", "start", "ready", "port", "nats", "logger", "config",
                 "subscribe", "reconcile", "status", "device"}
ShutdownSteps == {"stop", "closeLogger", "closeNats", "stopDaemon", "closeClient", "closeDevice",
                  "closeDB", "drain", "done"}
Steps == StartupSteps \cup {"run"} \cup ShutdownSteps

\* The panics of the callbacks: a request with fewer directions than axes, a
\* status call that a daemon at hand fails to answer, a result the client cannot
\* convert, a status call when the client is closed or the daemon gone, and the
\* hub's own device state, ports or insert queue missing.
Panics == {"request", "statusCall", "result", "noDaemon", "noDeviceState", "noPorts", "closedQueue"}
Exits == {"no", "ok", "error", "killed"} \cup Panics

\* Every variable has its type.
TypeOK ==
    /\ pc \in Steps /\ exit \in Exits
    /\ next \in 0..Len(Handlers) /\ toReconcile \subseteq Instruments
    /\ autoStart \in BOOLEAN /\ owns \in BOOLEAN /\ client \in BOOLEAN
    /\ natsPort \in Nat /\ taken \in SUBSET Nat
    /\ nats \in BOOLEAN /\ logger \in BOOLEAN /\ ports \in {"unset", "nil", "set"}
    /\ subs \subseteq HandlerNames /\ status \in {"off", "running", "stopped"}
    /\ announced \in BOOLEAN /\ device \in BOOLEAN
    /\ db \in {"closed", "open", "closing"} /\ pending \in Nat /\ inserts \in Nat
    /\ daemon \in {"down", "starting", "up"}
    /\ cb \in [HandlerNames -> {"idle", "begin", "job", "update", "insert", "send"}]
    /\ found \in BOOLEAN /\ died \in BOOLEAN /\ kept \in BOOLEAN /\ signalled \in BOOLEAN

Init ==
    /\ pc = "env" /\ exit = "no" /\ next = 0 /\ toReconcile = Instruments
    /\ autoStart \in BOOLEAN /\ daemon \in {"down", "up"} /\ taken = {}
    /\ owns = FALSE /\ client = FALSE /\ natsPort = 0 /\ nats = FALSE /\ logger = FALSE
    /\ ports = "unset" /\ subs = {} /\ status = "off" /\ announced = FALSE /\ device = FALSE
    /\ db = "closed" /\ pending = 0 /\ inserts = 0
    /\ cb = [h \in HandlerNames |-> "idle"]
    /\ found = FALSE /\ died = FALSE /\ kept = FALSE /\ signalled = FALSE

\* The main goroutine is at step s.
At(s) == exit = "no" /\ pc = s
Goto(s) == pc' = s /\ exit' = exit

\* NewRunHub returns with an error before Runtime.Close is deferred: only the
\* database is closed on the way out.
Abort == pc' = "closeDB" /\ exit' = exit

-----------------------------------------------------------------------------
(* Startup: NewRunHub and NewRuntime                                       *)

\* CheckEnvironment, after the configuration was loaded and validated.
CheckEnvironment ==
    /\ At("env")
    /\ \/ Goto("db")
       \/ pc' = "done" /\ exit' = "error"
    /\ UNCHANGED <<runtimeVars, storeVars, worldVars, histVars, cb>>

\* InitializeRuntimeEnvironment and measurementdb.Startup; its Close is
\* deferred only when it succeeded.
OpenDatabase ==
    /\ At("db")
    /\ \/ Goto("attach") /\ db' = "open"
       \/ pc' = "done" /\ exit' = "error" /\ db' = db
    /\ UNCHANGED <<runtimeVars, pending, inserts, worldVars, histVars, cb>>

\* tryAttachISSDaemon with DaemonStatus: a daemon that is up may still fail
\* to answer in time; one that is not up never answers.
TryAttach ==
    /\ At("attach")
    /\ found' = (daemon = "up")
    /\ \/ daemon = "up" /\ client' = TRUE /\ Goto("port")
       \/ client' = FALSE /\ Goto(IF autoStart THEN "start" ELSE "ready")
    /\ UNCHANGED <<next, toReconcile, autoStart, owns, natsPort, nats, logger, ports, subs,
                   status, announced, device, storeVars, worldVars, kept, signalled, cb>>

\* Mutant: a daemon that is already running counts as started.
StartAdoptsRunning ==
    /\ At("start")
    /\ \/ owns' = TRUE /\ daemon' = (IF daemon = "down" THEN "starting" ELSE daemon) /\ Goto("ready")
       \/ Abort /\ UNCHANGED <<owns, daemon>>
    /\ UNCHANGED <<next, toReconcile, autoStart, client, natsPort, nats, logger, ports, subs,
                   status, announced, device, storeVars, taken, died, histVars, cb>>

\* startISSDaemon: "already running" and a failing start end the startup.
StartISSDaemon ==
    /\ At("start")
    /\ \/ daemon = "down" /\ owns' = TRUE /\ daemon' = "starting" /\ Goto("ready")
       \/ Abort /\ UNCHANGED <<owns, daemon>>
    /\ UNCHANGED <<next, toReconcile, autoStart, client, natsPort, nats, logger, ports, subs,
                   status, announced, device, storeVars, taken, died, histVars, cb>>

\* waitForISSDaemonReady polls DaemonStatus; after the timeout a daemon of the
\* hub is stopped by its command line (stopISSDaemonViaCLI), which may fail.
WaitForISSDaemonReady ==
    /\ At("ready")
    /\ \/ daemon = "up" /\ client' = TRUE /\ Goto("port") /\ UNCHANGED <<daemon, kept>>
       \/ Abort /\ client' = FALSE
          /\ \/ owns /\ daemon' = "down" /\ kept' = kept
             \/ owns /\ daemon' = daemon /\ kept' = TRUE
             \/ ~owns /\ UNCHANGED <<daemon, kept>>
    /\ UNCHANGED <<next, toReconcile, autoStart, owns, natsPort, nats, logger, ports, subs,
                   status, announced, device, storeVars, taken, died, found, signalled, cb>>

\* findAvailablePort and isPortAvailable: the first port nobody listens on,
\* the first of the range when all are taken.
FindAvailablePort ==
    /\ At("port")
    /\ natsPort' = IF \E i \in DOMAIN NatsPorts : NatsPorts[i] \notin taken
                   THEN NatsPorts[CHOOSE i \in DOMAIN NatsPorts :
                                    /\ NatsPorts[i] \notin taken
                                    /\ \A j \in 1..(i - 1) : NatsPorts[j] \in taken]
                   ELSE NatsPorts[1]
    /\ Goto("nats")
    /\ UNCHANGED <<next, toReconcile, autoStart, owns, client, nats, logger, ports, subs, status,
                   announced, device, storeVars, worldVars, histVars, cb>>

\* startEmbeddedNATS: fails when the port was taken in the meantime, or for a
\* reason of its own.
StartEmbeddedNATS ==
    /\ At("nats")
    /\ \/ natsPort \notin taken /\ nats' = TRUE /\ Goto("logger")
       \/ Abort /\ nats' = FALSE
    /\ UNCHANGED <<next, toReconcile, autoStart, owns, client, natsPort, logger, ports, subs, status,
                   announced, device, storeVars, worldVars, histVars, cb>>

\* The logger is created.
NewLogger ==
    /\ At("logger")
    /\ \/ logger' = TRUE /\ Goto("config")
       \/ Abort /\ logger' = FALSE
    /\ UNCHANGED <<next, toReconcile, autoStart, owns, client, natsPort, nats, ports, subs, status,
                   announced, device, storeVars, worldVars, histVars, cb>>

\* LoadDeviceConfig, NewConnectedPorts and NewManager: an error of
\* NewConnectedPorts is not looked at, the ports are nil then.
NewManager ==
    /\ At("config")
    /\ \/ ports' \in {"nil", "set"} /\ Goto("subscribe")
       \/ Abort /\ ports' = ports
    /\ UNCHANGED <<next, toReconcile, autoStart, owns, client, natsPort, nats, logger, subs, status,
                   announced, device, storeVars, worldVars, histVars, cb>>

\* StartCoreHandlers, one handler: Subscribe succeeds or ends the startup,
\* and the earlier subscriptions stay.
StartCoreHandlers ==
    /\ At("subscribe")
    /\ \/ /\ next < Len(Handlers)
          /\ next' = next + 1
          /\ subs' = subs \cup {Handlers[next + 1]}
          /\ Goto("subscribe")
       \/ next < Len(Handlers) /\ Abort /\ UNCHANGED <<next, subs>>
       \/ next = Len(Handlers) /\ Goto("reconcile") /\ UNCHANGED <<next, subs>>
    /\ UNCHANGED <<toReconcile, autoStart, owns, client, natsPort, nats, logger, ports, status,
                   announced, device, storeVars, worldVars, histVars, cb>>

\* Mutant: an instrument that does not start is skipped.
ReconcileSkipsFailure ==
    /\ At("reconcile")
    /\ Goto("status")
    /\ UNCHANGED <<runtimeVars, storeVars, worldVars, histVars, cb>>

\* reconcileInstruments, one instrument: it answers InstrumentStatus, or
\* StartInstrument starts it, or the startup ends.
ReconcileInstruments ==
    /\ At("reconcile")
    /\ \/ toReconcile = {} /\ Goto("status") /\ UNCHANGED toReconcile
       \/ \E i \in toReconcile :
            \/ daemon = "up" /\ toReconcile' = toReconcile \ {i} /\ Goto("reconcile")
            \/ Abort /\ UNCHANGED toReconcile
    /\ UNCHANGED <<next, autoStart, owns, client, natsPort, nats, logger, ports, subs, status,
                   announced, device, storeVars, worldVars, histVars, cb>>

\* StartStatus: StatusHandler.Start of a handler that is not running yet.
StartStatus ==
    /\ At("status")
    /\ status' = "running"
    /\ Goto("device")
    /\ UNCHANGED <<next, toReconcile, autoStart, owns, client, natsPort, nats, logger, ports, subs,
                   announced, device, storeVars, worldVars, histVars, cb>>

\* Mutant: the device state is not initialised.
StartupSkipsDeviceState ==
    /\ At("device") /\ Goto("run")
    /\ UNCHANGED <<runtimeVars, storeVars, worldVars, histVars, cb>>

\* devicestate.Startup, the last step of NewRuntime.
DeviceStateStartup ==
    /\ At("device")
    /\ device' = TRUE
    /\ Goto("run")
    /\ UNCHANGED <<next, toReconcile, autoStart, owns, client, natsPort, nats, logger, ports, subs,
                   status, announced, storeVars, worldVars, histVars, cb>>

-----------------------------------------------------------------------------
(* Shutdown: the signal, Runtime.Close and measurementdb.Close             *)

\* runServer returns when the signal arrives.
Signal ==
    /\ At("run")
    /\ Goto("stop") /\ signalled' = TRUE
    /\ UNCHANGED <<runtimeVars, storeVars, worldVars, found, kept, cb>>

\* A signal before runServer asked for it ends the process at once.
EarlySignal ==
    /\ exit = "no" /\ pc \in StartupSteps
    /\ exit' = "killed" /\ pc' = pc
    /\ UNCHANGED <<runtimeVars, storeVars, worldVars, histVars, cb>>

\* Manager.Stop: the status handler and the subscriptions, last one first.
\* Unsubscribe fails only on a closed connection, and this one is open;
\* callbacks that run are not waited for.
ManagerStop ==
    /\ At("stop")
    /\ \/ status = "running" /\ status' = "stopped" /\ Goto("stop") /\ UNCHANGED <<next, subs>>
       \/ /\ status # "running" /\ next > 0
          /\ subs' = subs \ {Handlers[next]} /\ next' = next - 1
          /\ Goto("stop") /\ UNCHANGED status
       \/ status # "running" /\ next = 0 /\ Goto("closeLogger") /\ UNCHANGED <<next, subs, status>>
    /\ UNCHANGED <<toReconcile, autoStart, owns, client, natsPort, nats, logger, ports, announced,
                   device, storeVars, worldVars, histVars, cb>>

\* Close: the logger.
CloseLogger ==
    /\ At("closeLogger") /\ Goto("closeNats")
    /\ logger' = FALSE
    /\ UNCHANGED <<next, toReconcile, autoStart, owns, client, natsPort, nats, ports, subs, status,
                   announced, device, storeVars, worldVars, histVars, cb>>

\* NATSManager.Close: connection and server.
CloseNATS ==
    /\ At("closeNats") /\ Goto(IF owns THEN "stopDaemon" ELSE "closeClient")
    /\ nats' = FALSE
    /\ UNCHANGED <<next, toReconcile, autoStart, owns, client, natsPort, logger, ports, subs, status,
                   announced, device, storeVars, worldVars, histVars, cb>>

\* Mutant: Close does not stop the daemon it started.
StopDaemonSkipped ==
    /\ At("stopDaemon") /\ Goto("closeClient")
    /\ UNCHANGED <<runtimeVars, storeVars, worldVars, histVars, cb>>

\* stopInstruments and StopDaemon of a daemon the hub owns; a failure is only
\* reported.
StopDaemon ==
    /\ At("stopDaemon") /\ Goto("closeClient")
    /\ \/ daemon' = "down" /\ kept' = kept
       \/ daemon' = daemon /\ kept' = TRUE
    /\ UNCHANGED <<runtimeVars, storeVars, taken, died, found, signalled, cb>>

\* Close of the client.
CloseClient ==
    /\ At("closeClient") /\ Goto("closeDevice")
    /\ client' = FALSE
    /\ UNCHANGED <<next, toReconcile, autoStart, owns, natsPort, nats, logger, ports, subs, status,
                   announced, device, storeVars, worldVars, histVars, cb>>

\* devicestate.Close.
CloseDeviceState ==
    /\ At("closeDevice") /\ Goto("closeDB")
    /\ device' = FALSE
    /\ UNCHANGED <<next, toReconcile, autoStart, owns, client, natsPort, nats, logger, ports, subs,
                   status, announced, storeVars, worldVars, histVars, cb>>

\* Mutant: measurementdb.Close stops the worker before it waits for the queue.
CloseStopsWorker ==
    /\ At("closeDB") /\ Goto("drain")
    /\ db' = "closed"
    /\ UNCHANGED <<runtimeVars, pending, inserts, worldVars, histVars, cb>>

\* measurementdb.Close refuses inserts from now on.
CloseDatabase ==
    /\ At("closeDB") /\ Goto("drain")
    /\ db' = "closing"
    /\ UNCHANGED <<runtimeVars, pending, inserts, worldVars, histVars, cb>>

\* Mutant: measurementdb.Close does not wait for the worker.
ExitWithoutDrain ==
    /\ At("drain")
    /\ db' = "closed" /\ pc' = "done"
    /\ exit' = IF signalled THEN "ok" ELSE "error"
    /\ UNCHANGED <<runtimeVars, pending, inserts, worldVars, histVars, cb>>

\* measurementdb.Close returns once the worker has drained the queue, and the
\* process ends.
DrainDatabase ==
    /\ At("drain") /\ pending = 0
    /\ db' = "closed" /\ pc' = "done"
    /\ exit' = IF signalled THEN "ok" ELSE "error"
    /\ UNCHANGED <<runtimeVars, pending, inserts, worldVars, histVars, cb>>

-----------------------------------------------------------------------------
(* The other goroutines                                                    *)

\* A panic in a callback ends the process.
Panic(cause) == exit' = cause /\ UNCHANGED <<pc, cb, runtimeVars, storeVars>>

\* The callback of h goes on to step s.
Callback(h, s) == cb' = [cb EXCEPT ![h] = s] /\ UNCHANGED <<pc, exit, runtimeVars, storeVars>>

\* NATS delivers a request to a subscribed handler whose callback is free.
Deliver(h) ==
    /\ exit = "no" /\ nats /\ h \in subs /\ cb[h] = "idle"
    /\ Callback(h, "begin")
    /\ UNCHANGED <<worldVars, histVars>>

\* handleDeviceConfigRequest answers from its own copy of the configuration; a
\* request that does not parse is dropped, here as in the next two.
AnswerDeviceConfig ==
    /\ exit = "no" /\ cb["config"] = "begin"
    /\ Callback("config", "idle")
    /\ UNCHANGED <<worldVars, histVars>>

\* handleDeviceStateRequest uses the device state although it may not be there
\* yet, or no longer.
AnswerDeviceState ==
    /\ exit = "no" /\ cb["state"] = "begin"
    /\ \/ Callback("state", "idle")
       \/ ~device /\ Panic("noDeviceState")
    /\ UNCHANGED <<worldVars, histVars>>

\* handlePortRequest uses the ports although they may be nil.
AnswerPortRequest ==
    /\ exit = "no" /\ cb["ports"] = "begin"
    /\ \/ Callback("ports", "idle")
       \/ ports = "nil" /\ Panic("noPorts")
    /\ UNCHANGED <<worldVars, histVars>>

\* A command that is refused: it does not parse, its ports do not resolve
\* (nil ports never do), a measurement finds no device state or database, or
\* the server does not accept the job.
CommandRefused(h) ==
    /\ exit = "no" /\ cb[h] = "begin" /\ h \in Commands
    /\ Callback(h, "idle")
    /\ UNCHANGED <<worldVars, histVars>>

\* A command's script becomes a job of the server.  The router has looked for
\* the device state and the database first when it is a measurement, and the
\* measurement keeps the device state it found.
CommandStartsJob(h) ==
    /\ exit = "no" /\ cb[h] = "begin" /\ h \in Commands
    /\ h = "measure" => device /\ db = "open"
    /\ ports = "set" /\ client /\ daemon = "up"
    /\ Callback(h, "job")
    /\ UNCHANGED <<worldVars, histVars>>

\* buildSetters looks up the directions of an axis for which the request has no
\* list (MeasurementPlan has the plan).
RequestUnplannable ==
    /\ exit = "no" /\ cb["measure"] = "begin" /\ device /\ db = "open" /\ ports = "set"
    /\ Panic("request")
    /\ UNCHANGED <<worldVars, histVars>>

\* The job ends with a result: a setting command is answered, a measurement
\* goes on.
JobEnds(h) ==
    /\ exit = "no" /\ cb[h] = "job" /\ client /\ daemon = "up"
    /\ Callback(h, IF h = "measure" THEN "update" ELSE "idle")
    /\ UNCHANGED <<worldVars, histVars>>

\* Measure returns an error: the job failed or the deadline has passed, or its
\* result cannot be collected any more.
JobFails(h) ==
    /\ exit = "no" /\ cb[h] = "job"
    /\ Callback(h, "idle")
    /\ UNCHANGED <<worldVars, histVars>>

\* checkJobStatus reads the nil response of a status call that failed: one of a
\* daemon that lives may fail as well, by its own timeout or with an error of
\* the server.
StatusCallFails(h) ==
    /\ exit = "no" /\ cb[h] = "job"
    /\ Panic(IF client /\ daemon = "up" THEN "statusCall" ELSE "noDaemon")
    /\ UNCHANGED <<worldVars, histVars>>

\* fromGrpcVariableValue panics on a value of the result it does not know.
ResultUnreadable(h) ==
    /\ exit = "no" /\ cb[h] = "job" /\ client /\ daemon = "up"
    /\ Panic("result")
    /\ UNCHANGED <<worldVars, histVars>>

\* UpdatePort of the device state the router found: after devicestate.Close
\* the update goes into a manager nobody sees any more.
UpdateDeviceState ==
    /\ exit = "no" /\ cb["measure"] = "update"
    /\ Callback("measure", "insert")
    /\ UNCHANGED <<worldVars, histVars>>

\* InsertAsync first asks Instance, which waits for a Close under way and then
\* finds no manager: the insert is refused.
CheckInstance ==
    /\ exit = "no" /\ cb["measure"] = "insert" /\ inserts < MaxInserts
    /\ Callback("measure", IF db = "open" THEN "send" ELSE "idle")
    /\ UNCHANGED <<worldVars, histVars>>

\* InsertAsync then sends without the lock: on a queue that Close has closed in
\* between this panics.
InsertAsync ==
    /\ exit = "no" /\ cb["measure"] = "send"
    /\ \/ /\ db = "open"
          /\ cb' = [cb EXCEPT !["measure"] = "idle"]
          /\ pending' = pending + 1 /\ inserts' = inserts + 1
          /\ UNCHANGED <<pc, exit, runtimeVars, db>>
       \/ db # "open" /\ Panic("closedQueue")
    /\ UNCHANGED <<worldVars, histVars>>

\* Mutant: the worker takes an entry from an empty queue.
PersistUnguarded ==
    /\ exit = "no" /\ db # "closed"
    /\ pending' = pending - 1
    /\ UNCHANGED <<pc, exit, runtimeVars, db, inserts, worldVars, histVars, cb>>

\* The worker persists an accepted insert.
Persist ==
    /\ exit = "no" /\ db # "closed" /\ pending > 0
    /\ pending' = pending - 1
    /\ UNCHANGED <<pc, exit, runtimeVars, db, inserts, worldVars, histVars, cb>>

\* publishStatus in publishStatusLoop.
PublishStatus ==
    /\ exit = "no" /\ status = "running" /\ nats
    /\ announced' = TRUE
    /\ UNCHANGED <<pc, exit, next, toReconcile, autoStart, owns, client, natsPort, nats, logger, ports,
                   subs, status, device, storeVars, worldVars, histVars, cb>>

\* A daemon that was started comes up; a daemon dies; another process takes a
\* port (external).
DaemonComesUp == /\ daemon = "starting" /\ daemon' = "up"
                 /\ UNCHANGED <<pc, exit, runtimeVars, storeVars, taken, died, histVars, cb>>
DaemonDies == /\ daemon # "down" /\ daemon' = "down" /\ died' = TRUE
              /\ UNCHANGED <<pc, exit, runtimeVars, storeVars, taken, histVars, cb>>
PortTaken == /\ ~nats
             /\ \E i \in DOMAIN NatsPorts : taken' = taken \cup {NatsPorts[i]}
             /\ UNCHANGED <<pc, exit, runtimeVars, storeVars, daemon, died, histVars, cb>>

MainStep ==
    \/ CheckEnvironment \/ OpenDatabase \/ TryAttach \/ StartISSDaemon
    \/ WaitForISSDaemonReady \/ FindAvailablePort \/ StartEmbeddedNATS \/ NewLogger
    \/ NewManager \/ StartCoreHandlers \/ ReconcileInstruments \/ StartStatus
    \/ DeviceStateStartup \/ ManagerStop \/ CloseLogger \/ CloseNATS \/ StopDaemon
    \/ CloseClient \/ CloseDeviceState \/ CloseDatabase \/ DrainDatabase

CallbackStep(h) ==
    \/ Deliver(h) \/ CommandRefused(h) \/ CommandStartsJob(h)
    \/ JobEnds(h) \/ JobFails(h) \/ StatusCallFails(h) \/ ResultUnreadable(h)

Next ==
    \/ MainStep \/ Signal \/ EarlySignal
    \/ \E h \in HandlerNames : CallbackStep(h)
    \/ AnswerDeviceConfig \/ AnswerDeviceState \/ AnswerPortRequest \/ RequestUnplannable
    \/ UpdateDeviceState \/ CheckInstance \/ InsertAsync \/ Persist \/ PublishStatus
    \/ DaemonComesUp \/ DaemonDies \/ PortTaken

\* The main goroutine and the database worker are scheduled.
Fairness == WF_vars(MainStep) /\ WF_vars(Persist)

Spec == Init /\ [][Next]_vars /\ Fairness

-----------------------------------------------------------------------------
(* Properties                                                              *)

\* STATUS is published only after every handler has subscribed and every
\* instrument was found running or started: what main.go and StartCoreHandlers
\* say STATUS.instrument-server means, as far as handlers and instruments go.
StatusAfterCore == (announced /\ ~signalled) => (subs = HandlerNames /\ toReconcile = {})

\* A daemon that was up when the hub started is never stopped by the hub,
\* whatever fails: only a daemon the hub started itself is.
ForeignDaemonSurvives == (found /\ ~died) => daemon = "up"

\* When the hub ends by itself every accepted insert is persisted, after a
\* shutdown and after a startup that failed with handlers subscribed.
DrainedOnReturn == exit \in {"ok", "error"} => pending = 0

\* After an orderly shutdown nothing of the runtime is left: no subscription,
\* no connection, and no daemon of the hub unless stopping it failed.
ReleasedOnExit ==
    exit = "ok" => /\ subs = {} /\ ~nats /\ ~logger /\ ~client /\ ~device /\ db = "closed"
                   /\ (owns /\ ~kept => daemon = "down")

\* What the hub itself takes away from its callbacks kills it only in a known
\* window: the device state is missing only before devicestate.Startup and
\* after devicestate.Close, the daemon, unless it died by itself, only after
\* Runtime.Close has stopped it or closed the client, and the insert queue is
\* closed under an insert only while measurementdb.Close waits.  Between the
\* end of NewRuntime and the signal this leaves two answers of a live server
\* (checkJobStatus and fromGrpcVariableValue in client.go), nil ports and a
\* request with fewer directions than axes.
PanicsInWindows ==
    /\ exit = "noDeviceState" => pc \in StartupSteps \cup {"closeDB", "drain"}
    /\ exit = "noDaemon" => died \/ pc \in {"closeClient", "closeDevice", "closeDB", "drain"}
    /\ exit = "closedQueue" => pc = "drain"

\* The shutdown signal ends the process.
ShutdownEnds == signalled ~> exit # "no"

\* A shutdown signal that the hub handles loses no accepted insert while the
\* daemon does its part, living on and answering, and requests can be planned:
\* the purpose nats.go gives for keeping signals away from the NATS server.
SignalDrains ==
    (signalled /\ ~died /\ exit \notin {"no", "request", "statusCall", "result"}) => pending = 0

=============================================================================
