------------------------- MODULE HubLifecycleProofs -------------------------
(***************************************************************************)
(* The safety properties of one run of the hub, for any instruments, any   *)
(* range of NATS ports and any number of inserts.                          *)
(*                                                                         *)
(* A property about the end of the run follows from what is open at each   *)
(* step of the main goroutine, on the way up and on the way down; the      *)
(* other goroutines only find those states.                                *)
(***************************************************************************)
EXTENDS HubLifecycle, TLAPS, WellFoundedInduction

CloseSteps == {"stop", "closeLogger", "closeNats", "stopDaemon", "closeClient", "closeDevice"}

\* The hub is connected from the end of tryAttach or waitForISSDaemonReady to
\* the end of StopDaemon.
ConnectedSteps == {"port", "nats", "logger", "config", "subscribe", "reconcile", "status", "device",
                   "run", "stop", "closeLogger", "closeNats", "stopDaemon"}

\* The steps before StartCoreHandlers.
QuietSteps == {"env", "db", "attach", "start", "ready", "port", "nats", "logger", "config"}

\* How the run ended: only at its last step can it end by itself, and with
\* success only after a signal that runServer received.
Ending ==
    /\ exit \in {"ok", "error"} => pc = "done"
    /\ pc = "done" => exit # "no"
    /\ exit = "ok" => signalled

\* Runtime.Close runs exactly after the signal: a startup that fails goes
\* straight to the database.
Signalling ==
    /\ signalled => pc \in ShutdownSteps
    /\ pc \in CloseSteps => signalled

\* The subscriptions are those of the first handlers, all of them from the
\* end of StartCoreHandlers to the signal and none after Manager.Stop.
Subscribing ==
    /\ subs = {Handlers[i] : i \in 1..next}
    /\ pc \in {"reconcile", "status", "device", "run"} => next = Len(Handlers)
    /\ signalled /\ pc # "stop" => next = 0

\* No callback runs before the first handler has subscribed.
Quiet == pc \in QuietSteps => next = 0 /\ \A h \in HandlerNames : cb[h] = "idle"

\* Reconciliation is over when the status loop starts, and the loop runs
\* only after it.
Announcing ==
    /\ pc \in {"status", "device", "run"} => toReconcile = {}
    /\ status # "off" => pc \in {"device", "run"} \/ signalled
    /\ announced => status # "off"

\* The hub owns a daemon only if there was none when it looked, or that one
\* died since; StopDaemon is for an owned daemon.
Owning ==
    /\ pc \in {"env", "db", "attach"} => ~owns /\ ~found
    /\ owns => ~found \/ died
    /\ pc = "stopDaemon" => owns

\* The daemon the hub is connected to is up unless it died by itself.
Connected == pc \in ConnectedSteps => client /\ (~died => daemon = "up")

\* The database is open from its startup to its Close, the device state from
\* the end of NewRuntime to its own.
Opened ==
    /\ pc \in {"env", "db"} => db = "closed" /\ pending = 0
    /\ pc \in Steps \ {"env", "db", "drain", "done"} => db = "open"
    /\ pc \in {"run"} \cup CloseSteps => device

\* What Runtime.Close has released so far.
Released ==
    signalled =>
        /\ pc \notin {"stop", "closeLogger"} => ~logger
        /\ pc \notin {"stop", "closeLogger", "closeNats"} => ~nats
        /\ pc \in ShutdownSteps \ {"stop", "closeLogger", "closeNats", "stopDaemon"} =>
              (owns /\ ~kept => daemon = "down")
        /\ pc \in {"closeDevice", "closeDB", "drain", "done"} => ~client
        /\ pc \in {"closeDB", "drain", "done"} => ~device
        /\ exit = "ok" => db = "closed"

\* TypeOK in two parts: the Boolean variables and the others.
Flags ==
    /\ autoStart \in BOOLEAN /\ owns \in BOOLEAN /\ client \in BOOLEAN
    /\ nats \in BOOLEAN /\ logger \in BOOLEAN /\ announced \in BOOLEAN /\ device \in BOOLEAN
    /\ found \in BOOLEAN /\ died \in BOOLEAN /\ kept \in BOOLEAN /\ signalled \in BOOLEAN
Values ==
    /\ pc \in Steps /\ exit \in Exits
    /\ next \in 0..Len(Handlers) /\ toReconcile \subseteq Instruments
    /\ natsPort \in Nat /\ taken \in SUBSET Nat
    /\ ports \in {"unset", "nil", "set"}
    /\ subs \subseteq HandlerNames /\ status \in {"off", "running", "stopped"}
    /\ db \in {"closed", "open", "closing"} /\ pending \in Nat /\ inserts \in Nat
    /\ daemon \in {"down", "starting", "up"}
    /\ cb \in [HandlerNames -> {"idle", "begin", "job", "update", "insert", "send"}]

IInv ==
    /\ TypeOK
    /\ Ending
    /\ Signalling
    /\ Subscribing
    /\ Quiet
    /\ Announcing
    /\ Owning
    /\ ForeignDaemonSurvives
    /\ Connected
    /\ Opened
    /\ DrainedOnReturn
    /\ Released
    /\ PanicsInWindows

-----------------------------------------------------------------------------
(* Facts about the constants.                                              *)

\* The five handlers.
LEMMA HandlerFacts ==
    /\ Len(Handlers) = 5 /\ DOMAIN Handlers = 1..5
    /\ HandlerNames = {Handlers[i] : i \in 1..5}
    /\ HandlerNames = {"config", "state", "measure", "ports", "setting"}
    /\ \A i, j \in 1..5 : Handlers[i] = Handlers[j] => i = j
<1>1. Len(Handlers) = 5 /\ DOMAIN Handlers = 1..5
  BY DEF Handlers
<1>2. HandlerNames = {Handlers[i] : i \in 1..5}
  BY <1>1 DEF HandlerNames
<1>3. /\ Handlers[1] = "config" /\ Handlers[2] = "state" /\ Handlers[3] = "measure"
      /\ Handlers[4] = "ports" /\ Handlers[5] = "setting"
  BY DEF Handlers
<1>4. 1..5 = {1, 2, 3, 4, 5}
  OBVIOUS
<1>5. HandlerNames = {"config", "state", "measure", "ports", "setting"}
  BY <1>2, <1>3, <1>4
<1>6. \A i, j \in 1..5 : Handlers[i] = Handlers[j] => i = j
  BY <1>3
<1> QED
  BY <1>1, <1>2, <1>5, <1>6

\* When a port of the range is free there is a first free one.
LEMMA FirstFreePort ==
    ASSUME NEW S, \E i \in DOMAIN NatsPorts : NatsPorts[i] \notin S
    PROVE  \E i \in DOMAIN NatsPorts : /\ NatsPorts[i] \notin S
                                       /\ \A j \in 1..(i - 1) : NatsPorts[j] \in S
<1> DEFINE Free == {i \in DOMAIN NatsPorts : NatsPorts[i] \notin S}
<1>1. DOMAIN NatsPorts \subseteq Nat /\ \A i \in DOMAIN NatsPorts : 1..(i - 1) \subseteq DOMAIN NatsPorts
  BY PortAssumption
<1>2. Free \subseteq Nat /\ Free # {}
  BY <1>1
<1>3. \E i \in Free : \A j \in Free : ~ (<<j, i>> \in OpToRel(<, Nat))
  <2> HIDE DEF Free
  <2> QED
    BY <1>2, WFMin, NatLessThanWellFounded
<1>4. PICK i \in Free : \A j \in Free : ~ (<<j, i>> \in OpToRel(<, Nat))
  BY <1>3
<1>5. \A j \in Free : ~ (j < i)
  BY <1>2, <1>4 DEF OpToRel
<1>6. \A j \in 1..(i - 1) : NatsPorts[j] \in S
  BY <1>1, <1>5
<1> QED
  BY <1>6

\* findAvailablePort returns a port of its range.
LEMMA ChosenPort ==
    ASSUME FindAvailablePort
    PROVE  natsPort' \in Nat
<1>1. \A i \in DOMAIN NatsPorts : NatsPorts[i] \in Nat
  BY PortAssumption
<1>2. CASE \E i \in DOMAIN NatsPorts : NatsPorts[i] \notin taken
  <2>1. \E i \in DOMAIN NatsPorts : /\ NatsPorts[i] \notin taken
                                    /\ \A j \in 1..(i - 1) : NatsPorts[j] \in taken
    BY <1>2, FirstFreePort
  <2> DEFINE k == CHOOSE i \in DOMAIN NatsPorts : /\ NatsPorts[i] \notin taken
                                                 /\ \A j \in 1..(i - 1) : NatsPorts[j] \in taken
  <2>2. k \in DOMAIN NatsPorts
    BY <2>1
  <2>3. natsPort' = NatsPorts[k]
    BY <1>2 DEF FindAvailablePort
  <2> QED
    BY <1>1, <2>2, <2>3
<1>3. CASE ~ \E i \in DOMAIN NatsPorts : NatsPorts[i] \notin taken
  <2>1. natsPort' = NatsPorts[1]
    BY <1>3 DEF FindAvailablePort
  <2> QED
    BY <2>1, PortAssumption
<1> QED
  BY <1>2, <1>3

\* The first n + 1 handlers are the first n and one more, which is another.
LEMMA PrefixGrows ==
    ASSUME NEW n \in 0..4
    PROVE  /\ {Handlers[i] : i \in 1..(n + 1)} = {Handlers[i] : i \in 1..n} \cup {Handlers[n + 1]}
           /\ Handlers[n + 1] \notin {Handlers[i] : i \in 1..n}
<1>1. 1..(n + 1) = (1..n) \cup {n + 1}
  OBVIOUS
<1>2. ASSUME NEW i \in 1..n PROVE Handlers[i] # Handlers[n + 1]
  BY HandlerFacts
<1> QED
  BY <1>1, <1>2

-----------------------------------------------------------------------------
(* Types.                                                                  *)

\* The initial values have their types.
LEMMA InitTyped == Init => TypeOK
<1> SUFFICES ASSUME Init PROVE TypeOK
  OBVIOUS
<1>1. Flags
  BY DEF Init, Flags
<1>2. Values
  BY HandlerFacts DEF Init, Values, Exits, Panics, Steps, StartupSteps
<1> QED
  BY <1>1, <1>2 DEF TypeOK, Flags, Values

\* The startup up to the connection to the daemon.
LEMMA AttachTyped ==
    ASSUME TypeOK, CheckEnvironment \/ OpenDatabase \/ TryAttach \/ StartISSDaemon \/ WaitForISSDaemonReady
    PROVE  TypeOK'
<1> USE DEF At, Goto, Abort, runtimeVars, storeVars, worldVars, histVars
<1>1. Flags /\ Values
  BY DEF TypeOK, Flags, Values
<1> SUFFICES Flags' /\ Values'
  BY DEF TypeOK, Flags, Values
<1>2. CASE CheckEnvironment
  <2>1. Flags'
    BY <1>1, <1>2 DEF Flags, CheckEnvironment
  <2>2. Values'
    BY <1>1, <1>2 DEF Values, Exits, Panics, Steps, StartupSteps, ShutdownSteps, CheckEnvironment
  <2> QED
    BY <2>1, <2>2
<1>3. CASE OpenDatabase
  <2>1. Flags'
    BY <1>1, <1>3 DEF Flags, OpenDatabase
  <2>2. Values'
    BY <1>1, <1>3 DEF Values, Exits, Panics, Steps, StartupSteps, ShutdownSteps, OpenDatabase
  <2> QED
    BY <2>1, <2>2
<1>4. CASE TryAttach
  <2>1. Flags'
    BY <1>1, <1>4 DEF Flags, TryAttach
  <2>2. Values'
    BY <1>1, <1>4 DEF Values, Exits, Panics, Steps, StartupSteps, ShutdownSteps, TryAttach
  <2> QED
    BY <2>1, <2>2
<1>5. CASE StartISSDaemon
  <2>1. Flags'
    BY <1>1, <1>5 DEF Flags, StartISSDaemon
  <2>2. Values'
    BY <1>1, <1>5 DEF Values, Exits, Panics, Steps, StartupSteps, ShutdownSteps, StartISSDaemon
  <2> QED
    BY <2>1, <2>2
<1>6. CASE WaitForISSDaemonReady
  <2>1. Flags'
    BY <1>1, <1>6 DEF Flags, WaitForISSDaemonReady
  <2>2. Values'
    BY <1>1, <1>6 DEF Values, Exits, Panics, Steps, StartupSteps, ShutdownSteps, WaitForISSDaemonReady
  <2> QED
    BY <2>1, <2>2
<1> QED
  BY <1>2, <1>3, <1>4, <1>5, <1>6

\* The startup from the NATS port to the managers.
LEMMA BuildTyped ==
    ASSUME TypeOK, FindAvailablePort \/ StartEmbeddedNATS \/ NewLogger \/ NewManager
    PROVE  TypeOK'
<1> USE DEF At, Goto, Abort, runtimeVars, storeVars, worldVars, histVars
<1>1. Flags /\ Values
  BY DEF TypeOK, Flags, Values
<1> SUFFICES Flags' /\ Values'
  BY DEF TypeOK, Flags, Values
<1>2. CASE FindAvailablePort
  <2>1. Flags'
    BY <1>1, <1>2 DEF Flags, FindAvailablePort
  <2>2. Values'
    BY <1>1, <1>2, ChosenPort DEF Values, Exits, Panics, Steps, StartupSteps, ShutdownSteps, FindAvailablePort
  <2> QED
    BY <2>1, <2>2
<1>3. CASE StartEmbeddedNATS
  <2>1. Flags'
    BY <1>1, <1>3 DEF Flags, StartEmbeddedNATS
  <2>2. Values'
    BY <1>1, <1>3 DEF Values, Exits, Panics, Steps, StartupSteps, ShutdownSteps, StartEmbeddedNATS
  <2> QED
    BY <2>1, <2>2
<1>4. CASE NewLogger
  <2>1. Flags'
    BY <1>1, <1>4 DEF Flags, NewLogger
  <2>2. Values'
    BY <1>1, <1>4 DEF Values, Exits, Panics, Steps, StartupSteps, ShutdownSteps, NewLogger
  <2> QED
    BY <2>1, <2>2
<1>5. CASE NewManager
  <2>1. Flags'
    BY <1>1, <1>5 DEF Flags, NewManager
  <2>2. Values'
    BY <1>1, <1>5 DEF Values, Exits, Panics, Steps, StartupSteps, ShutdownSteps, NewManager
  <2> QED
    BY <2>1, <2>2
<1> QED
  BY <1>2, <1>3, <1>4, <1>5

\* The startup from the handlers to the device state.
LEMMA CoreTyped ==
    ASSUME TypeOK, StartCoreHandlers \/ ReconcileInstruments \/ StartStatus \/ DeviceStateStartup
    PROVE  TypeOK'
<1> USE DEF At, Goto, Abort, runtimeVars, storeVars, worldVars, histVars
<1>1. Flags /\ Values
  BY DEF TypeOK, Flags, Values
<1> SUFFICES Flags' /\ Values'
  BY DEF TypeOK, Flags, Values
<1>2. CASE StartCoreHandlers
  <2>1. Flags'
    BY <1>1, <1>2 DEF Flags, StartCoreHandlers
  <2>2. Values'
    <3>1. Len(Handlers) = 5 /\ (next < 5 => Handlers[next + 1] \in HandlerNames)
      BY <1>1, HandlerFacts DEF Values
    <3>2. next' \in 0..Len(Handlers) /\ subs' \subseteq HandlerNames
      BY <1>1, <1>2, <3>1 DEF Values, StartCoreHandlers
    <3>3. pc' \in Steps /\ exit' = exit
      BY <1>2 DEF StartCoreHandlers, Steps, StartupSteps, ShutdownSteps
    <3>4. UNCHANGED <<toReconcile, natsPort, taken, ports, status, db, pending, inserts, daemon, cb>>
      BY <1>2 DEF StartCoreHandlers
    <3> QED
      BY <1>1, <3>2, <3>3, <3>4 DEF Values
  <2> QED
    BY <2>1, <2>2
<1>3. CASE ReconcileInstruments
  <2>1. Flags'
    BY <1>1, <1>3 DEF Flags, ReconcileInstruments
  <2>2. Values'
    BY <1>1, <1>3 DEF Values, Exits, Panics, Steps, StartupSteps, ShutdownSteps, ReconcileInstruments
  <2> QED
    BY <2>1, <2>2
<1>4. CASE StartStatus
  <2>1. Flags'
    BY <1>1, <1>4 DEF Flags, StartStatus
  <2>2. Values'
    BY <1>1, <1>4 DEF Values, Exits, Panics, Steps, StartupSteps, ShutdownSteps, StartStatus
  <2> QED
    BY <2>1, <2>2
<1>5. CASE DeviceStateStartup
  <2>1. Flags'
    BY <1>1, <1>5 DEF Flags, DeviceStateStartup
  <2>2. Values'
    BY <1>1, <1>5 DEF Values, Exits, Panics, Steps, StartupSteps, ShutdownSteps, DeviceStateStartup
  <2> QED
    BY <2>1, <2>2
<1> QED
  BY <1>2, <1>3, <1>4, <1>5

\* The signals and Manager.Stop.
LEMMA StopTyped ==
    ASSUME TypeOK, Signal \/ EarlySignal \/ ManagerStop
    PROVE  TypeOK'
<1> USE DEF At, Goto, Abort, runtimeVars, storeVars, worldVars, histVars
<1>1. Flags /\ Values
  BY DEF TypeOK, Flags, Values
<1> SUFFICES Flags' /\ Values'
  BY DEF TypeOK, Flags, Values
<1>2. CASE Signal
  <2>1. Flags'
    BY <1>1, <1>2 DEF Flags, Signal
  <2>2. Values'
    BY <1>1, <1>2 DEF Values, Exits, Panics, Steps, StartupSteps, ShutdownSteps, Signal
  <2> QED
    BY <2>1, <2>2
<1>3. CASE EarlySignal
  <2>1. Flags'
    BY <1>1, <1>3 DEF Flags, EarlySignal
  <2>2. Values'
    BY <1>1, <1>3 DEF Values, Exits, Panics, Steps, StartupSteps, ShutdownSteps, EarlySignal
  <2> QED
    BY <2>1, <2>2
<1>4. CASE ManagerStop
  <2>1. Flags'
    BY <1>1, <1>4 DEF Flags, ManagerStop
  <2>2. Values'
    <3>0. Len(Handlers) = 5
      BY HandlerFacts
    <3>1. next' \in 0..Len(Handlers) /\ subs' \subseteq HandlerNames /\ status' \in {"off", "running", "stopped"}
      BY <1>1, <1>4, <3>0 DEF Values, ManagerStop
    <3>2. pc' \in Steps /\ exit' = exit
      BY <1>4 DEF ManagerStop, Steps, ShutdownSteps
    <3>3. UNCHANGED <<toReconcile, natsPort, taken, ports, db, pending, inserts, daemon, cb>>
      BY <1>4 DEF ManagerStop
    <3> QED
      BY <1>1, <3>1, <3>2, <3>3 DEF Values
  <2> QED
    BY <2>1, <2>2
<1> QED
  BY <1>2, <1>3, <1>4

\* The rest of Runtime.Close and of measurementdb.Close.
LEMMA CloseTyped ==
    ASSUME TypeOK, CloseLogger \/ CloseNATS \/ StopDaemon \/ CloseClient \/ CloseDeviceState \/ CloseDatabase \/ DrainDatabase
    PROVE  TypeOK'
<1> USE DEF At, Goto, Abort, runtimeVars, storeVars, worldVars, histVars
<1>1. Flags /\ Values
  BY DEF TypeOK, Flags, Values
<1> SUFFICES Flags' /\ Values'
  BY DEF TypeOK, Flags, Values
<1>2. CASE CloseLogger
  <2>1. Flags'
    BY <1>1, <1>2 DEF Flags, CloseLogger
  <2>2. Values'
    BY <1>1, <1>2 DEF Values, Exits, Panics, Steps, StartupSteps, ShutdownSteps, CloseLogger
  <2> QED
    BY <2>1, <2>2
<1>3. CASE CloseNATS
  <2>1. Flags'
    BY <1>1, <1>3 DEF Flags, CloseNATS
  <2>2. Values'
    BY <1>1, <1>3 DEF Values, Exits, Panics, Steps, StartupSteps, ShutdownSteps, CloseNATS
  <2> QED
    BY <2>1, <2>2
<1>4. CASE StopDaemon
  <2>1. Flags'
    BY <1>1, <1>4 DEF Flags, StopDaemon
  <2>2. Values'
    BY <1>1, <1>4 DEF Values, Exits, Panics, Steps, StartupSteps, ShutdownSteps, StopDaemon
  <2> QED
    BY <2>1, <2>2
<1>5. CASE CloseClient
  <2>1. Flags'
    BY <1>1, <1>5 DEF Flags, CloseClient
  <2>2. Values'
    BY <1>1, <1>5 DEF Values, Exits, Panics, Steps, StartupSteps, ShutdownSteps, CloseClient
  <2> QED
    BY <2>1, <2>2
<1>6. CASE CloseDeviceState
  <2>1. Flags'
    BY <1>1, <1>6 DEF Flags, CloseDeviceState
  <2>2. Values'
    BY <1>1, <1>6 DEF Values, Exits, Panics, Steps, StartupSteps, ShutdownSteps, CloseDeviceState
  <2> QED
    BY <2>1, <2>2
<1>7. CASE CloseDatabase
  <2>1. Flags'
    BY <1>1, <1>7 DEF Flags, CloseDatabase
  <2>2. Values'
    BY <1>1, <1>7 DEF Values, Exits, Panics, Steps, StartupSteps, ShutdownSteps, CloseDatabase
  <2> QED
    BY <2>1, <2>2
<1>8. CASE DrainDatabase
  <2>1. Flags'
    BY <1>1, <1>8 DEF Flags, DrainDatabase
  <2>2. Values'
    BY <1>1, <1>8 DEF Values, Exits, Panics, Steps, StartupSteps, ShutdownSteps, DrainDatabase
  <2> QED
    BY <2>1, <2>2
<1> QED
  BY <1>2, <1>3, <1>4, <1>5, <1>6, <1>7, <1>8

\* A step of the handlers' callbacks.
LEMMA CallbackTyped ==
    ASSUME TypeOK, NEW h \in HandlerNames, CallbackStep(h)
    PROVE  TypeOK'
<1> USE DEF Callback, Panic, runtimeVars, storeVars, worldVars, histVars
<1>1. Flags /\ Values
  BY DEF TypeOK, Flags, Values
<1>2. UNCHANGED <<autoStart, owns, client, nats, logger, announced, device, found, died, kept, signalled>>
  BY DEF CallbackStep, Deliver, CommandRefused, CommandStartsJob, JobEnds, JobFails, StatusCallFails,
         ResultUnreadable
<1>3. exit' \in Exits
  BY <1>1 DEF Values, CallbackStep, Deliver, CommandRefused, CommandStartsJob, JobEnds, JobFails,
              StatusCallFails, ResultUnreadable, Exits, Panics
<1>4. cb' \in [HandlerNames -> {"idle", "begin", "job", "update", "insert", "send"}]
  BY <1>1 DEF Values, CallbackStep, Deliver, CommandRefused, CommandStartsJob, JobEnds, JobFails,
              StatusCallFails, ResultUnreadable, Exits, Panics
<1>5. UNCHANGED <<pc, next, toReconcile, natsPort, taken, ports, subs, status, db, pending, inserts, daemon>>
  BY DEF CallbackStep, Deliver, CommandRefused, CommandStartsJob, JobEnds, JobFails, StatusCallFails,
         ResultUnreadable
<1>6. Flags'
  BY <1>1, <1>2 DEF Flags
<1>7. Values'
  BY <1>1, <1>3, <1>4, <1>5 DEF Values
<1> QED
  BY <1>6, <1>7 DEF TypeOK, Flags, Values

\* The other steps of the callbacks, the database worker, the status loop and
\* the world.
LEMMA OthersTyped ==
    ASSUME TypeOK,
           \/ AnswerDeviceConfig \/ AnswerDeviceState \/ AnswerPortRequest \/ UpdateDeviceState
           \/ CheckInstance \/ InsertAsync \/ RequestUnplannable \/ Persist \/ PublishStatus
           \/ DaemonComesUp \/ DaemonDies \/ PortTaken
    PROVE  TypeOK'
<1> USE DEF Callback, Panic, runtimeVars, storeVars, worldVars, histVars
<1>1. Flags /\ Values
  BY DEF TypeOK, Flags, Values
<1> SUFFICES Flags' /\ Values'
  BY DEF TypeOK, Flags, Values
<1>2. CASE AnswerDeviceConfig \/ AnswerDeviceState \/ AnswerPortRequest
  <2>1. Flags'
    BY <1>1, <1>2 DEF Flags, AnswerDeviceConfig, AnswerDeviceState, AnswerPortRequest
  <2>2. Values'
    BY <1>1, <1>2 DEF Values, Exits, Panics, AnswerDeviceConfig, AnswerDeviceState, AnswerPortRequest
  <2> QED
    BY <2>1, <2>2
<1>3. CASE UpdateDeviceState \/ CheckInstance \/ InsertAsync \/ RequestUnplannable
  <2>1. Flags'
    BY <1>1, <1>3 DEF Flags, UpdateDeviceState, CheckInstance, InsertAsync, RequestUnplannable
  <2>2. pending' \in Nat /\ inserts' \in Nat /\ exit' \in Exits
    BY <1>1, <1>3 DEF Values, Exits, Panics, UpdateDeviceState, CheckInstance, InsertAsync, RequestUnplannable
  <2>3. cb' \in [HandlerNames -> {"idle", "begin", "job", "update", "insert", "send"}]
    BY <1>1, <1>3 DEF Values, UpdateDeviceState, CheckInstance, InsertAsync, RequestUnplannable
  <2>4. UNCHANGED <<pc, next, toReconcile, natsPort, taken, ports, subs, status, db, daemon>>
    BY <1>3 DEF UpdateDeviceState, CheckInstance, InsertAsync, RequestUnplannable
  <2>5. Values'
    BY <1>1, <2>2, <2>3, <2>4 DEF Values
  <2> QED
    BY <2>1, <2>5
<1>4. CASE Persist \/ PublishStatus
  <2>1. Flags'
    BY <1>1, <1>4 DEF Flags, Persist, PublishStatus
  <2>2. pending' \in Nat
    BY <1>1, <1>4 DEF Values, Persist, PublishStatus
  <2>3. UNCHANGED <<pc, exit, next, toReconcile, natsPort, taken, ports, subs, status, db, inserts, daemon, cb>>
    BY <1>4 DEF Persist, PublishStatus
  <2>4. Values'
    BY <1>1, <2>2, <2>3 DEF Values
  <2> QED
    BY <2>1, <2>4
<1>5. CASE DaemonComesUp \/ DaemonDies
  <2>1. Flags'
    BY <1>1, <1>5 DEF Flags, DaemonComesUp, DaemonDies
  <2>2. Values'
    BY <1>1, <1>5 DEF Values, DaemonComesUp, DaemonDies
  <2> QED
    BY <2>1, <2>2
<1>6. CASE PortTaken
  <2>1. Flags'
    BY <1>1, <1>6 DEF Flags, PortTaken
  <2>2. \A i \in DOMAIN NatsPorts : NatsPorts[i] \in Nat
    BY PortAssumption
  <2>3. Values'
    BY <1>1, <1>6, <2>2 DEF Values, PortTaken
  <2> QED
    BY <2>1, <2>3
<1> QED
  BY <1>2, <1>3, <1>4, <1>5, <1>6

-----------------------------------------------------------------------------
(* The steps of the main goroutine keep the invariant.                     *)

\* The process starts with nothing open.
LEMMA InitIInv == Init => IInv
<1> SUFFICES ASSUME Init PROVE IInv
  OBVIOUS
<1>1. {Handlers[i] : i \in 1..0} = {}
  OBVIOUS
<1> USE HandlerFacts DEF Init, CloseSteps, ConnectedSteps, ShutdownSteps, StartupSteps, Steps
<1>2. TypeOK
  BY InitTyped
<1>3. Ending /\ Signalling /\ Subscribing /\ Announcing
  BY <1>1 DEF Ending, Signalling, Subscribing, Announcing
<1>6. Quiet
  BY DEF Quiet
<1>4. Owning /\ ForeignDaemonSurvives /\ Connected /\ Opened
  BY DEF Owning, ForeignDaemonSurvives, Connected, Opened
<1>5. DrainedOnReturn /\ Released /\ PanicsInWindows
  BY DEF DrainedOnReturn, Released, PanicsInWindows
<1> QED
  BY <1>2, <1>3, <1>4, <1>5, <1>6 DEF IInv

\* The startup up to the connection to the daemon.
LEMMA AttachIInv ==
    ASSUME IInv, CheckEnvironment \/ OpenDatabase \/ TryAttach \/ StartISSDaemon \/ WaitForISSDaemonReady
    PROVE  IInv'
<1> USE DEF At, Goto, Abort, runtimeVars, storeVars, worldVars, histVars,
            StartupSteps, ShutdownSteps, Steps, CloseSteps, ConnectedSteps
<1>1. TypeOK'
  BY AttachTyped DEF IInv
<1>2. Ending' /\ Signalling'
  BY DEF IInv, TypeOK, Ending, Signalling, CheckEnvironment, OpenDatabase, TryAttach,
         StartISSDaemon, WaitForISSDaemonReady
<1>3. Subscribing' /\ Announcing'
  BY DEF IInv, TypeOK, Signalling, Subscribing, Announcing, CheckEnvironment, OpenDatabase,
         TryAttach, StartISSDaemon, WaitForISSDaemonReady
<1>4. Owning' /\ ForeignDaemonSurvives' /\ Connected'
  BY DEF IInv, TypeOK, Owning, ForeignDaemonSurvives, Connected, CheckEnvironment, OpenDatabase,
         TryAttach, StartISSDaemon, WaitForISSDaemonReady
<1>5. Opened' /\ DrainedOnReturn' /\ Released' /\ PanicsInWindows'
  BY DEF IInv, TypeOK, Ending, Signalling, Opened, DrainedOnReturn, Released, PanicsInWindows,
         CheckEnvironment, OpenDatabase, TryAttach, StartISSDaemon, WaitForISSDaemonReady
<1>6. Quiet'
  BY DEF IInv, TypeOK, Quiet, QuietSteps, CheckEnvironment, OpenDatabase, TryAttach,
         StartISSDaemon, WaitForISSDaemonReady
<1> QED
  BY <1>1, <1>2, <1>3, <1>4, <1>5, <1>6 DEF IInv

\* The startup from the NATS port to the managers.
LEMMA BuildIInv ==
    ASSUME IInv, FindAvailablePort \/ StartEmbeddedNATS \/ NewLogger \/ NewManager
    PROVE  IInv'
<1> USE DEF At, Goto, Abort, runtimeVars, storeVars, worldVars, histVars,
            StartupSteps, ShutdownSteps, Steps, CloseSteps, ConnectedSteps
<1>1. TypeOK'
  BY BuildTyped DEF IInv
<1>2. Ending' /\ Signalling'
  BY DEF IInv, TypeOK, Ending, Signalling, FindAvailablePort, StartEmbeddedNATS, NewLogger,
         NewManager
<1>3. Subscribing' /\ Announcing'
  BY DEF IInv, TypeOK, Signalling, Subscribing, Announcing, FindAvailablePort, StartEmbeddedNATS,
         NewLogger, NewManager
<1>4. Owning' /\ ForeignDaemonSurvives' /\ Connected'
  BY DEF IInv, TypeOK, Owning, ForeignDaemonSurvives, Connected, FindAvailablePort,
         StartEmbeddedNATS, NewLogger, NewManager
<1>5. Opened' /\ DrainedOnReturn' /\ Released' /\ PanicsInWindows'
  BY DEF IInv, TypeOK, Ending, Signalling, Opened, DrainedOnReturn, Released, PanicsInWindows,
         FindAvailablePort, StartEmbeddedNATS, NewLogger, NewManager
<1>6. Quiet'
  BY DEF IInv, TypeOK, Quiet, QuietSteps, FindAvailablePort, StartEmbeddedNATS, NewLogger,
         NewManager
<1> QED
  BY <1>1, <1>2, <1>3, <1>4, <1>5, <1>6 DEF IInv

\* The startup from the handlers to the device state.
LEMMA CoreIInv ==
    ASSUME IInv, StartCoreHandlers \/ ReconcileInstruments \/ StartStatus \/ DeviceStateStartup
    PROVE  IInv'
<1> USE DEF At, Goto, Abort, runtimeVars, storeVars, worldVars, histVars,
            StartupSteps, ShutdownSteps, Steps, CloseSteps, ConnectedSteps
<1>1. TypeOK'
  BY CoreTyped DEF IInv
<1>2. Ending' /\ Signalling'
  BY DEF IInv, TypeOK, Ending, Signalling, StartCoreHandlers, ReconcileInstruments, StartStatus,
         DeviceStateStartup
<1>3. Subscribing' /\ Announcing'
  BY DEF IInv, TypeOK, Signalling, Subscribing, Announcing, StartCoreHandlers,
         ReconcileInstruments, StartStatus, DeviceStateStartup
<1>4. Owning' /\ ForeignDaemonSurvives' /\ Connected'
  BY DEF IInv, TypeOK, Owning, ForeignDaemonSurvives, Connected, StartCoreHandlers,
         ReconcileInstruments, StartStatus, DeviceStateStartup
<1>5. Opened' /\ DrainedOnReturn' /\ Released' /\ PanicsInWindows'
  BY DEF IInv, TypeOK, Ending, Signalling, Opened, DrainedOnReturn, Released, PanicsInWindows,
         StartCoreHandlers, ReconcileInstruments, StartStatus, DeviceStateStartup
<1>6. Quiet'
  BY DEF IInv, TypeOK, Quiet, QuietSteps, StartCoreHandlers, ReconcileInstruments, StartStatus,
         DeviceStateStartup
<1> QED
  BY <1>1, <1>2, <1>3, <1>4, <1>5, <1>6 DEF IInv

\* The signals and Manager.Stop.
LEMMA StopIInv ==
    ASSUME IInv, Signal \/ EarlySignal \/ ManagerStop
    PROVE  IInv'
<1> USE DEF At, Goto, Abort, runtimeVars, storeVars, worldVars, histVars,
            StartupSteps, ShutdownSteps, Steps, CloseSteps, ConnectedSteps
<1>1. TypeOK'
  BY StopTyped DEF IInv
<1>2. Ending' /\ Signalling'
  BY DEF IInv, TypeOK, Ending, Signalling, Signal, EarlySignal, ManagerStop
<1>3. Subscribing' /\ Announcing'
  <2>1. CASE Signal \/ EarlySignal
    BY <2>1 DEF IInv, TypeOK, Signalling, Subscribing, Announcing, Signal, EarlySignal
  <2>2. CASE ManagerStop
    <3>1. ASSUME next > 0, subs' = subs \ {Handlers[next]}, next' = next - 1
          PROVE  subs' = {Handlers[i] : i \in 1..next'}
      <4>1. next - 1 \in 0..4 /\ (next - 1) + 1 = next
        BY <3>1, HandlerFacts DEF IInv, TypeOK
      <4>2. /\ {Handlers[i] : i \in 1..next} = {Handlers[i] : i \in 1..(next - 1)} \cup {Handlers[next]}
            /\ Handlers[next] \notin {Handlers[i] : i \in 1..(next - 1)}
        BY <4>1, PrefixGrows
      <4> QED
        BY <3>1, <4>2 DEF IInv, Subscribing
    <3>2. subs' = {Handlers[i] : i \in 1..next'}
      BY <2>2, <3>1 DEF IInv, Subscribing, ManagerStop
    <3>3. pc' # "stop" => next' = 0
      BY <2>2 DEF ManagerStop
    <3>4. pc' \in {"stop", "closeLogger"} /\ signalled' /\ announced' = announced
      BY <2>2 DEF IInv, Signalling, ManagerStop
    <3>5. announced' => status' # "off"
      BY <2>2 DEF IInv, Announcing, ManagerStop
    <3> QED
      BY <3>2, <3>3, <3>4, <3>5 DEF Subscribing, Announcing
  <2> QED
    BY <2>1, <2>2
<1>4. Owning' /\ ForeignDaemonSurvives' /\ Connected'
  BY DEF IInv, TypeOK, Owning, ForeignDaemonSurvives, Connected, Signal, EarlySignal, ManagerStop
<1>5. Opened' /\ DrainedOnReturn' /\ Released' /\ PanicsInWindows'
  BY DEF IInv, TypeOK, Ending, Signalling, Opened, DrainedOnReturn, Released, PanicsInWindows,
         Signal, EarlySignal, ManagerStop
<1>6. Quiet'
  BY DEF IInv, TypeOK, Quiet, QuietSteps, Signal, EarlySignal, ManagerStop
<1> QED
  BY <1>1, <1>2, <1>3, <1>4, <1>5, <1>6 DEF IInv

\* The rest of Runtime.Close and of measurementdb.Close.
LEMMA CloseIInv ==
    ASSUME IInv, CloseLogger \/ CloseNATS \/ StopDaemon \/ CloseClient \/ CloseDeviceState \/ CloseDatabase \/ DrainDatabase
    PROVE  IInv'
<1> USE DEF At, Goto, Abort, runtimeVars, storeVars, worldVars, histVars,
            StartupSteps, ShutdownSteps, Steps, CloseSteps, ConnectedSteps
<1>1. TypeOK'
  BY CloseTyped DEF IInv
<1>2. Ending' /\ Signalling'
  BY DEF IInv, TypeOK, Ending, Signalling, CloseLogger, CloseNATS, StopDaemon, CloseClient,
         CloseDeviceState, CloseDatabase, DrainDatabase
<1>3. Subscribing' /\ Announcing'
  BY DEF IInv, TypeOK, Signalling, Subscribing, Announcing, CloseLogger, CloseNATS, StopDaemon,
         CloseClient, CloseDeviceState, CloseDatabase, DrainDatabase
<1>4. Owning' /\ ForeignDaemonSurvives' /\ Connected'
  BY DEF IInv, TypeOK, Owning, ForeignDaemonSurvives, Connected, CloseLogger, CloseNATS,
         StopDaemon, CloseClient, CloseDeviceState, CloseDatabase, DrainDatabase
<1>5. Opened' /\ DrainedOnReturn' /\ Released' /\ PanicsInWindows'
  BY DEF IInv, TypeOK, Ending, Signalling, Opened, DrainedOnReturn, Released, PanicsInWindows,
         CloseLogger, CloseNATS, StopDaemon, CloseClient, CloseDeviceState, CloseDatabase,
         DrainDatabase
<1>6. Quiet'
  BY DEF IInv, TypeOK, Quiet, QuietSteps, CloseLogger, CloseNATS, StopDaemon, CloseClient,
         CloseDeviceState, CloseDatabase, DrainDatabase
<1> QED
  BY <1>1, <1>2, <1>3, <1>4, <1>5, <1>6 DEF IInv

-----------------------------------------------------------------------------
(* The other goroutines and the world keep the invariant.                  *)

\* The fact all callbacks share: they move neither the main goroutine nor
\* what it has opened.
LEMMA CallbackKeeps ==
    ASSUME IInv, UNCHANGED <<pc, runtimeVars, db, worldVars, histVars>>,
           exit = "no", exit' \in {"no"} \cup Panics,
           pending' # pending => db = "open"
    PROVE  /\ Ending' /\ Signalling' /\ Subscribing' /\ Announcing' /\ Owning'
           /\ ForeignDaemonSurvives' /\ Connected' /\ Opened' /\ DrainedOnReturn' /\ Released'
<1> USE DEF runtimeVars, worldVars, histVars
<1>1. Ending' /\ Signalling' /\ Subscribing' /\ Announcing' /\ Owning'
  BY DEF IInv, Panics, Ending, Signalling, Subscribing, Announcing, Owning
<1>2. ForeignDaemonSurvives' /\ Connected' /\ Opened' /\ DrainedOnReturn' /\ Released'
  BY DEF IInv, Panics, ForeignDaemonSurvives, Connected, Opened, DrainedOnReturn, Released
<1> QED
  BY <1>1, <1>2

\* A step of a handler's callback changes nothing but the callback and, when
\* it panics, the end of the run.  While the hub is connected the daemon of a
\* job that is running is there unless it died.
LEMMA CallbackIInv ==
    ASSUME IInv, NEW h \in HandlerNames, CallbackStep(h)
    PROVE  IInv'
<1> USE DEF Callback, Panic, runtimeVars, storeVars, worldVars, histVars
<1>1. TypeOK'
  BY CallbackTyped DEF IInv
<1>2. /\ UNCHANGED <<pc, runtimeVars, storeVars, worldVars, histVars>>
      /\ exit = "no" /\ exit' \in {"no"} \cup Panics
      /\ pc \in Steps
  BY DEF IInv, TypeOK, Panics, CallbackStep, Deliver, CommandRefused, CommandStartsJob, JobEnds,
         JobFails, StatusCallFails, ResultUnreadable
<1>3. /\ Ending' /\ Signalling' /\ Subscribing' /\ Announcing' /\ Owning'
      /\ ForeignDaemonSurvives' /\ Connected' /\ Opened' /\ DrainedOnReturn' /\ Released'
  BY <1>2, CallbackKeeps
<1>4. pc \notin QuietSteps
  <2>1. pc \in QuietSteps => cb[h] = "idle" /\ subs = {}
    BY DEF IInv, Quiet, Subscribing
  <2> QED
    BY <2>1 DEF CallbackStep, Deliver, CommandRefused, CommandStartsJob, JobEnds, JobFails,
                StatusCallFails, ResultUnreadable
<1>5. Quiet'
  BY <1>2, <1>4 DEF Quiet
<1>6. /\ exit' = "noDaemon" => ~client \/ daemon # "up"
      /\ exit' \notin {"noDeviceState", "closedQueue"}
  BY <1>2 DEF CallbackStep, Deliver, CommandRefused, CommandStartsJob, JobEnds, JobFails,
              StatusCallFails, ResultUnreadable
<1>7. pc # "done"
  BY <1>2 DEF IInv, Ending
<1>8. PanicsInWindows'
  BY <1>2, <1>4, <1>6, <1>7 DEF IInv, PanicsInWindows, Connected, ConnectedSteps, QuietSteps, Steps,
                                StartupSteps, ShutdownSteps
<1> QED
  BY <1>1, <1>3, <1>5, <1>8 DEF IInv

\* The requests that read the hub's state, and the last steps of a measurement:
\* what devicestate.Startup and measurementdb.Startup opened stays open until
\* its own Close.
LEMMA AnswerIInv ==
    ASSUME IInv,
           \/ AnswerDeviceConfig \/ AnswerDeviceState \/ AnswerPortRequest \/ UpdateDeviceState
           \/ CheckInstance \/ InsertAsync \/ RequestUnplannable
    PROVE  IInv'
<1> USE DEF Callback, Panic, runtimeVars, storeVars, worldVars, histVars
<1>1. TypeOK'
  BY OthersTyped DEF IInv
<1>2. /\ UNCHANGED <<pc, runtimeVars, db, worldVars, histVars>>
      /\ exit = "no" /\ exit' \in {"no"} \cup Panics
      /\ pending' # pending => db = "open"
  BY DEF Panics, AnswerDeviceConfig, AnswerDeviceState, AnswerPortRequest, UpdateDeviceState,
         CheckInstance, InsertAsync, RequestUnplannable
<1>3. /\ Ending' /\ Signalling' /\ Subscribing' /\ Announcing' /\ Owning'
      /\ ForeignDaemonSurvives' /\ Connected' /\ Opened' /\ DrainedOnReturn' /\ Released'
  BY <1>2, CallbackKeeps
<1>4. \E h \in HandlerNames : cb[h] # "idle"
  BY HandlerFacts DEF AnswerDeviceConfig, AnswerDeviceState, AnswerPortRequest, UpdateDeviceState,
                      CheckInstance, InsertAsync, RequestUnplannable
<1>5. pc \in Steps /\ pc \notin QuietSteps /\ pc # "done"
  BY <1>2, <1>4 DEF IInv, TypeOK, Quiet, Ending
<1>6. Quiet'
  BY <1>2, <1>5 DEF Quiet
<1>7. /\ exit' = "noDeviceState" => ~device
      /\ exit' = "closedQueue" => db # "open"
      /\ exit' # "noDaemon"
  BY <1>2 DEF AnswerDeviceConfig, AnswerDeviceState, AnswerPortRequest, UpdateDeviceState,
              CheckInstance, InsertAsync, RequestUnplannable
<1>8. /\ pc \in {"run"} \cup CloseSteps => device
      /\ pc \notin {"env", "db", "drain", "done"} => db = "open"
  BY <1>5 DEF IInv, Opened
<1>9. PanicsInWindows'
  BY <1>2, <1>5, <1>7, <1>8 DEF PanicsInWindows, CloseSteps, QuietSteps, Steps, StartupSteps, ShutdownSteps
<1> QED
  BY <1>1, <1>3, <1>6, <1>9 DEF IInv

\* The database worker, the status loop and the world.
LEMMA BackgroundIInv ==
    ASSUME IInv, Persist \/ PublishStatus \/ DaemonComesUp \/ DaemonDies \/ PortTaken
    PROVE  IInv'
<1> USE DEF runtimeVars, storeVars, worldVars, histVars
<1>1. TypeOK'
  BY OthersTyped DEF IInv
<1>2. Ending' /\ Signalling' /\ Subscribing' /\ Announcing'
  BY DEF IInv, Ending, Signalling, Subscribing, Announcing, Persist, PublishStatus, DaemonComesUp,
         DaemonDies, PortTaken
<1>3. Owning' /\ ForeignDaemonSurvives' /\ Connected'
  BY DEF IInv, Owning, ForeignDaemonSurvives, Connected, Persist, PublishStatus, DaemonComesUp,
         DaemonDies, PortTaken
<1>4. Opened' /\ DrainedOnReturn' /\ Released' /\ PanicsInWindows'
  BY DEF IInv, TypeOK, Opened, DrainedOnReturn, Released, PanicsInWindows, Persist, PublishStatus,
         DaemonComesUp, DaemonDies, PortTaken
<1>5. Quiet'
  BY DEF IInv, Quiet, Persist, PublishStatus, DaemonComesUp, DaemonDies, PortTaken
<1> QED
  BY <1>1, <1>2, <1>3, <1>4, <1>5 DEF IInv

\* Every step keeps the invariant.
LEMMA NextIInv == IInv /\ [Next]_vars => IInv'
<1> SUFFICES ASSUME IInv, [Next]_vars PROVE IInv'
  OBVIOUS
<1>1. CASE MainStep
  BY <1>1, AttachIInv, BuildIInv, CoreIInv, StopIInv, CloseIInv DEF MainStep
<1>2. CASE Signal \/ EarlySignal
  BY <1>2, StopIInv
<1>3. ASSUME NEW h \in HandlerNames, CallbackStep(h) PROVE IInv'
  BY <1>3, CallbackIInv
<1>4. CASE \/ AnswerDeviceConfig \/ AnswerDeviceState \/ AnswerPortRequest \/ UpdateDeviceState
           \/ CheckInstance \/ InsertAsync \/ RequestUnplannable
  BY <1>4, AnswerIInv
<1>5. CASE Persist \/ PublishStatus \/ DaemonComesUp \/ DaemonDies \/ PortTaken
  BY <1>5, BackgroundIInv
<1>6. CASE UNCHANGED vars
  BY <1>6 DEF vars, runtimeVars, storeVars, worldVars, histVars, IInv, TypeOK, Ending, Signalling,
              Subscribing, Quiet, Announcing, Owning, ForeignDaemonSurvives, Connected, Opened,
              DrainedOnReturn, Released, PanicsInWindows
<1> QED
  BY <1>1, <1>2, <1>3, <1>4, <1>5, <1>6 DEF Next

-----------------------------------------------------------------------------
(* The theorems.                                                           *)

\* What is open at each step of the main goroutine, in every state of every run.
THEOREM Invariance == Spec => []IInv
  BY InitIInv, NextIInv, PTL DEF Spec

\* Every variable of the hub has its type.
THEOREM TypeCorrect == Spec => []TypeOK
<1>1. IInv => TypeOK
  BY DEF IInv
<1> QED
  BY <1>1, Invariance, PTL

\* The status loop publishes STATUS only once StartCoreHandlers has subscribed
\* every handler and reconcileInstruments has passed every instrument.
THEOREM StatusMeansReady == Spec => []StatusAfterCore
<1>1. IInv => StatusAfterCore
  BY HandlerFacts DEF IInv, StatusAfterCore, Announcing, Subscribing
<1> QED
  BY <1>1, Invariance, PTL

\* No path through startISSDaemon, waitForISSDaemonReady and Close stops a
\* daemon that tryAttachISSDaemon found running.
THEOREM ForeignDaemonIsKept == Spec => []ForeignDaemonSurvives
<1>1. IInv => ForeignDaemonSurvives
  BY DEF IInv
<1> QED
  BY <1>1, Invariance, PTL

\* Whenever main returns, measurementdb.Close has let the worker persist every
\* accepted insert.
THEOREM NothingPendingOnReturn == Spec => []DrainedOnReturn
<1>1. IInv => DrainedOnReturn
  BY DEF IInv
<1> QED
  BY <1>1, Invariance, PTL

\* Runtime.Close releases everything that NewRuntime acquired.
THEOREM CloseReleasesAll == Spec => []ReleasedOnExit
<1>1. {Handlers[i] : i \in 1..0} = {}
  OBVIOUS
<1>2. ASSUME IInv, exit = "ok" PROVE signalled /\ pc = "done"
  BY <1>2 DEF IInv, Ending
<1>3. ASSUME IInv, exit = "ok"
      PROVE  /\ subs = {} /\ ~nats /\ ~logger /\ ~client /\ ~device /\ db = "closed"
             /\ (owns /\ ~kept => daemon = "down")
  BY <1>1, <1>2, <1>3 DEF IInv, Subscribing, Released, ShutdownSteps
<1>4. IInv => ReleasedOnExit
  BY <1>3 DEF ReleasedOnExit
<1> QED
  BY <1>4, Invariance, PTL

\* A callback finds the device state, the daemon or the insert queue taken away
\* by the hub only outside the span in which NewRuntime and Runtime.Close keep
\* it: between the end of NewRuntime and the signal never.
THEOREM PanicsOnlyInWindows == Spec => []PanicsInWindows
<1>1. IInv => PanicsInWindows
  BY DEF IInv
<1> QED
  BY <1>1, Invariance, PTL

=============================================================================
