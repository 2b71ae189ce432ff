# Verification of the Falcon Instrument Hub

The Instrument Hub is a Go program that sits between a tuning client, which
speaks NATS, and the instruments of a quantum-dot laboratory, which an
*instrument script server* (ISS) drives by running Lua scripts. This directory
holds TLA+ models of the hub's core, the configurations that check them with
TLC, and proofs that TLAPS checks. Paths below are relative to
`src/runtime/internal/` unless they start with `cmd/`.

## 1. Inventory

| Component | State it keeps | Operations | Talks to | What is hard | What makes it correct |
|---|---|---|---|---|---|
| Measure handler (`handlers/measure`) | none of its own; locks the guard, sets the busy flag | `handleMessage` | measurement router, JetStream, NATS | a dozen error returns under a lock; runs beside the setting handler | guard always released; answered means recorded |
| Setting handler (`handlers/setting`) | none | `handleMessage` | setting router, NATS | runs beside a measurement | a bounded overlap with measurements |
| Settings guard, busy flag (`handlers/settingguard`, `handlers/manager.go`) | two booleans | lock, unlock, test; set, test | both handlers | test and use are separate | see findings |
| Measurement router (`interpreter`), cartesian handler (`cartesianmeasure`) | one measurement's plan, samples, voltages | `Handle`: plan, read sample count, run primitives, read voltages, update device state, average, record | dispatcher, setting router, device state, database | a sample count read once and used for the whole plan; partial failure | average over what was taken; device state is one reading |
| Planner, decoder (`planner.go`, `primitive_code.go`, `target_series.go`) | none | build and execute a recursive plan, decode results | dispatcher | axis order, sample counts | result order and length |
| Setting router and settings (`settingrouter`, `settings`) | none | `Handle`, getters, setters | dispatcher, guard | first error ends a half-done request | writes blocked during measurements |
| Dispatcher, data buffers (`dispatcher`, `databuffer`) | measurement id counter, map of tracked buffers, references in a C library | `RunAll`, `RegisterBuffer`, `ConsumeSamples`, `ReleaseRequestor` | ISS, shared memory | reference counts over three calls that may each fail; two goroutines | no leak, no double release, one owner |
| Measurement database (`measurementdb`) | insert queue, worker, SQLite catalog, HDF5 files | `Startup`, `Close`, `InsertAsync`, `Insert`, `Validate` | file system | crash between file and row; close against insert; queue limit | catalog backed by files; what was accepted is settled |
| Device state (`devicestate`, `handlers/devicestate`) | voltage of every port | `Startup`, `UpdatePort`, `Snapshot`, `Close` | measurement router, STATE_REQUEST | requests before startup | one complete reading |
| ISS client (`instrumentserver`) | gRPC connection, calls in flight | submit, poll, collect, release | ISS | time-outs, jobs that outlive their caller | no false time-out; every call ends; values keep their type |
| Lifecycle (`cmd/main.go`, `handlers/manager.go`, `handlers/status_handler.go`) | what has been started | start, stop, readiness | everything | order of start and stop, failure half way | ready means ready; everything started is stopped |
| Configuration (`config`) | connected ports | load, validate, resolve | files | what validation accepts against what is served | a port resolves to the channel its gate is wired to |
| Port and device-configuration requests (`handlers`) | fixed at start | answer a request | NATS | conversions in both directions | an advertised port leads back to its channel |
| Logger (`logging`) | bounded queue, writer goroutine, statistics | log, drain, close | files | queue full, log against close, a drain that callers keep going | nothing accepted before Close is lost |
| NATS connection (`networking`), messages (`api`, `falconcore`, `issproto`), tools (`cmd/dataviewer`, `cmd/schema-gen`) | connection | connect, convert, view | - | pure I/O, conversions, generated code | - |

A MEASURE_COMMAND goes: measure handler -> measurement router -> cartesian
handler -> dispatcher -> ISS, back with buffers, into the device state and the
database, then to JetStream and to the client. A SETTING_COMMAND goes: setting
handler -> setting router -> dispatcher -> ISS and back. Each NATS subscription
has one goroutine that handles its messages one after the other, so at most one
measurement and one setting request run at a time, and they run concurrently.

`PROJECT.json` lists the hazards of the code line by line, each with the
properties that would catch it going wrong, or with the reason why none does.

## 2. Modules

| Module | Models | Uses |
|---|---|---|
| `MeasurementBuffers` | dispatcher and data buffers | - |
| `MeasurementDB` | measurement database, crashes and restarts | implements `AcceptedInserts` |
| `AcceptedInserts` | what the database promises (abstract) | - |
| `CommandHandlers` | both handlers, both routers, cartesian handler, guard, busy flag, device state | - |
| `VariableValues` | the conversions of values to and from the ISS | - |
| `IssJobs` | `ScriptServerClient.Measure`: jobs, polls and deadlines | `VariableValues` |
| `HubLifecycle` | start and stop of the hub, its request callbacks, its daemon | - |
| `Logger` | the asynchronous logger | - |
| `FalconMessages` | the conversions between falcon-core and the hub | - |
| `PortConfiguration` | configuration, port library, wiremap, port resolution, choice of getters and setters | `FalconMessages` |
| `MeasurementPlan` | planner, encoder, decoder, averaging | `PortConfiguration` |
| `CartesianMeasurement` | composes the last three: from the configuration to settings, measurements and replies | `MeasurementPlan` |
| `MC...` | small instances for TLC | the module of that name |
| `...Proofs` | theorems | the module of that name |

The mutated definitions in the modules (marked "Mutant") are not part of the
specifications: each is a plausible mistake in the definition after it and
shows that a property notices it.

### MeasurementBuffers

A *caller* is the goroutine of a handler. `pc[c]` is its place in one `RunAll`:
`StartRun` takes the next id, `MeasureReturns` is the script's answer,
`GetBuffer`, `GetMetadata`, `ReleaseAtISS` and `Track` are the four calls of
`RegisterBuffer` (the map's lock covers only the last), `ConsumeSamples` runs
under the lock, and `Finish` is the return with the deferred
`ReleaseMeasurementBuffers`, which only a primitive measurement has. `tracked`
is `DataBufferManager.buffers`, `hubRefs` the references the hub holds in the
buffer library, `issHolds` those of the ISS. Every call may fail, and a
`ReleaseBuffer` that fails may have been carried out all the same. A script may
return a buffer twice, or one it returned earlier.
Assumed: a failing `Measure` hands out no buffers, and the ISS gives every
buffer it creates an id of its own.

### MeasurementDB and AcceptedInserts

`phase` stands for `globalManager`, the channel and `globalMu`: `closing` is
the time in which `Close` holds the lock and waits for the worker.
`InsertAsync` is two steps, the check of `Instance` and the send, because the
lock is released in between; a send after the channel was closed panics
(`SendOnClosed`). The worker's insert is four steps with a crash possible after
each one (the end of the process, not of the machine: what was written stays
written). A path is the time of its write (files are named by `UnixNano`, and
the wall clock is taken to be strictly monotone). `mishap` records that a crash,
a broken write, an encoding error or a failing removal happened, the only ways
in which the code leaves a file without a row.

`AcceptedInserts` knows only the pending and the stored inserts. The mapping
makes pending what is in the queue or in the worker's hands.

### CommandHandlers

`mpc` and `spc` are the places of the two goroutines; a step is one call that
another goroutine can observe. `instr` is what the instruments are set to.
`RunPrimitive` is one job of the plan: it moves the gates (`Sweep`), and returns
some number of samples per position; `Decoded` is the length test of
`DecodeTargets`. `captured` and `admitted` are history.
Abstracted: a script is one atomic job, which may fail after its effect; there
is one getter, hence one NumberOfSamples port; a command is known by its number,
which stands for its timestamp; measured values are left out, their number kept.

### IssJobs and VariableValues

A caller is a goroutine in `Measure`. The deadline is computed once, when the
wait begins, from the calls in flight at that moment; time is counted in poll
intervals (`Tick`), and a tick needs every waiting caller to have polled. The
server runs its jobs one after the other, the first of `queue` at most `JobTime`
ticks unless it hangs. `CurrentMeasurementTimeout` keeps the code's product of
calls and base timeout. Faults: a request whose answer is lost, a job that
hangs, a job someone cancels, a failing status call, the daemon's death, and a
hub that is started again while the daemon still works on the old jobs.
`mishap` records that one of them happened. Values are known by their Go kind,
their form on the wire and their declared Lua type. Both type switches panic on
what they do not know: `LuaType` on kinds of arguments, `FromGrpc` on a mixed
array and on a value whose oneof is not set, alone or in a map. A script returns
a value in the form of the type it declares or in one of `OtherForms`. `hub` is
`"up"` or the reason why it died: an `"argument"`, a `"statusCall"`, a `"result"`.

### HubLifecycle

`pc` is the main goroutine's place in `NewRunHub`, `NewRuntime`, `runServer` and
the deferred calls; every step that can fail has its error path, which closes
the database and nothing else before `runtime.Close` is deferred. Handlers are
subscribed one by one, and from then on `Deliver` may start a callback of each.
A callback is a few steps (`begin`, `job`, `update`, `insert`, `send`), enough to
be overtaken by every step of `Close`. The daemon is `down`, `starting` or `up`,
may be there before the hub, and may die. `exit` is a panic's cause, `"killed"`,
or how main returned; a panic and a kill run no deferred call. A status call may
fail at any time: with the daemon at hand (its own time-out, an error of the
server) the cause is `"statusCall"`, otherwise `"noDaemon"`. A `"result"` is one
that `fromGrpcVariableValue` does not know, a `"request"` one with fewer
directions than axes. `found`, `died`, `kept` and `signalled` are history.

### Logger

Log calls and the writer share `logQueue`; a statistic is updated in a step
after the send. A batch is full after `BatchEntries` entries, which stands for
`batchBytes`. `accepted` is what was queued before `Close` closed the done
channel. Every write may fail. Only `MaxEntries` entries of each caller are
followed to the file and through the statistics; beside them the callers log as
much and as long as they like. Of those entries the model knows how many are in
the queue (`others`): they take room (`LogMore`), may fill a batch, and keep the
writer draining (`TakeOther`).

### FalconMessages, PortConfiguration, MeasurementPlan, CartesianMeasurement

Conversions, configuration and planning are pure code, modelled as operators; a
conversion that can fail is the set of its results, empty on failure. Names the
code builds by formatting are tuples of their parts. `CartesianMeasurement`
loads a configuration and then serves one request at a time: settings, ports,
the device state, and measurements step by step (plan, sample counts, primitive
scripts, voltages, record). A sample is the channel it was read from and the
voltages on the setters at that moment, so that `AnswerIsGrid` can compare every
value of an answer with the request as the client wrote it. It is stated for
requests that mean a grid (`WellPosed`): every axis has ports to sweep, a positive
step and a domain that is not empty, every gate has a name, one direction and
channels of its own. A gate on the channel of another is a case the hub does not
reject and does not serve (see the hazards); for the rest of what `WellPosed`
leaves out there is no grid to compare with. Scripts are
external: they may fail, take one or the configured number of samples, and
return values of other channels or commands on the way. A request with fewer
lists of directions than axes makes `buildSetters` index beyond their end and
ends the hub (`PlanPanics`). Floating point is replaced by integers on grids that
divide evenly.

## 3. Runs

| Run | Shows |
|---|---|
| `buffers` | the hub's references are its map entries plus its registrations under way (`RefsAccounted`); a buffer has one claimant, so the unchecked map assignment never overwrites (`ExclusiveClaim`); a primitive measurement leaves nothing tracked on any path (`NothingLeftBehind`); samples go to one measurement (`DeliveredOnce`); only the owner removes an entry (`OnlyOwnerReleases`) |
| `measurement_db` | rows always name readable files (`CatalogBacked`); recording order is acceptance order (`RecordedInOrder`); a refused row leaves no file (`NoOrphanWithoutMishap`); what `Validate` reports at the next start (`HealthyAtStartup`); the refinement, with which a closed database has nothing pending (`KeepsPromise`); Close ends (`CloseTerminates`) |
| `command_handlers` | what the guard guarantees: only the request already past its check writes during a measurement (`OnlyEarlierRequestWrites`); it is always released (`GuardReleased`); answered means stored and accepted (`RespondedIsRecorded`); averages divide by the number of samples taken even when that number is changed under way (`AveragesMatch`); the device state never mixes two readings (`DeviceStateIsCapture`); every command ends (`CommandsFinish`) |
| `iss_jobs` | the deadline covers the jobs queued in front in every order of entering, submitting and returning (`NoFalseTimeout`); no argument of the hub's callers makes `Measure` panic, and of the server's answers only a failing status call or a result that is not the encoding of its declared type does (`DiesOnlyOfAnswers`); a value returned as the type it declares has the kind that type names (`ResultKeepsType`); every call returns, whatever the server does (`CallsReturn`) |
| `lifecycle` | what STATUS means (`StatusAfterCore`); a daemon of someone else survives (`ForeignDaemonSurvives`); a hub that returns has persisted what it accepted (`DrainedOnReturn`) and released everything (`ReleasedOnExit`); what the hub takes away from its own callbacks kills it only in known windows: the device state during start-up and after its Close, a living daemon once `Runtime.Close` has stopped it or closed the client, the insert queue while the database closes (`PanicsInWindows`); the signal ends it (`ShutdownEnds`) |
| `logger` | what was queued before Close is in the file or in a batch whose write failed (`AcceptedIsWritten`); entries and statistics balance (`EntriesBalance`); Close returns once the callers fall silent (`CloseReturns`) |
| `planning` | an answered measurement is the requested grid, in the answer and in the file (`AnswerIsGrid`); replies about ports and voltages can be used (`RepliesReadBack`); a setting acts on the channel its gate is wired to, and is served when it can be (`SettingsServed`) |
| `guard_race` | violation: the guard's comment promises more than a test before the first setter gives |
| `setting_read_back` | violation: a measurement's sweep comes between a write and its read-back |
| `shutdown_drain` | violation: a callback that outlives `Runtime.Close` panics before the database is drained |
| `limit_getters` | violation: a limit that validation accepts can never be read |
| `fixed_axis` | violation: the held gate of a nested plan gets a unit-space coordinate instead of a voltage |

The five violations are findings: the code disagrees with one of its comments
or tests. `AveragesMatch` shows that the first does not corrupt an average: when
the sample count changes under a measurement, the decoder refuses the result, or
the result has the expected length all the same. `AnswerIsGrid` is stated for
what the code does with a held axis (the coordinate), so that it checks
everything else about nested plans. The busy flag, which both handlers set and
clear by a deferred call (`handlers/measure/measure_command_handler.go:306`,
`handlers/setting/setting_handler.go:211`), is modelled too, but nothing in the
hub reads it.

A hub that has started and was not signalled can still be ended by a request:
by a status call that fails, also with a daemon that lives; by a result with a
value `fromGrpcVariableValue` does not know; by nil ports; and by a request with
fewer directions than axes. The models have these panics and no property claims
their absence. `SignalDrains` (the run `shutdown_drain`) leaves the first two and
the last out, so that its counterexample is the hub's own doing.

`CloseReturns` has the premise that callers log only finitely often, because
without it the property is false: `drainQueueAndWrite` ends only when it finds
the queue empty, and callers that always add an entry in time keep the last drain
going. `Runtime.Close` stops the handlers before it closes the logger, but waits
for no callback.

Deadlock is not checked: the hub may wait for commands for ever or end, and
every run bounds the number of commands or starts. `CommandsFinish`,
`CloseTerminates`, `CallsReturn`, `ShutdownEnds` and `CloseReturns` say what must
not get stuck.

### Bounds

- `buffers`: the two goroutines that call `RunAll`, two buffers (symmetric),
  three measurements, up to two returned ids. Two measurements can overlap and a
  third can name what either left; a result may name two buffers, or one twice.
- `measurement_db`: two callers (production has one; two make the order of
  acceptance differ from the order of the checks), three inserts of which two
  share a key (entries that could not be built have the empty key), a queue of
  two places, so that it fills while the worker is busy, and two starts, so that
  a second start finds what a first left, orderly or not.
- `command_handlers`: two gates, two voltages, initial sample counts 1 and 2,
  plans of up to two primitives (a change between two primitives needs two), two
  measure commands and one setting command drawn from four requests: a read, a
  set with read-back, two setters, and a sample count of zero. `admitted` names a
  single command, so a second setting command adds nothing to one measurement;
  the proofs cover any number.
- `iss_jobs`: two callers, as the hub has; jobs of at most two ticks and a base
  timeout of three, the smallest that covers a job and the poll that notices it;
  three jobs, so that a call meets a job its predecessor left and another call's.
  `OtherForms` are a string, a map, a mixed array and an unset value: a form that
  can be converted, one with items, and the two that cannot.
- `lifecycle`: one instrument, the five handlers, two ports (one of each of
  `findAvailablePort`'s ranges) and one accepted insert, which is enough to be lost.
- `logger`: three callers with one followed entry each and any number of others, a
  queue of two and batches of two: the queue fills, entries arrive before, during
  and after `Close`, and a batch ends in the middle of a drain. Entries of one
  caller and of several are alike to the queue. Only the followed entries are
  bounded (`MaxEntries`); `CloseReturns` does not rest on the bound.
- `planning`: a source with three channels and a meter with two, twelve
  configurations that differ from the standard one in one thing (two gates on a
  channel, other roles, commands without group, a missing, doubled or mistyped
  instrument, unknown gates), ten requests (one, two and three axes, coupled
  gates, falling sweeps, one getter twice, a gate on two axes, and messages with
  parts missing, among them all directions or those of the last axis), script sets from none to all of the three, sample counts -1 to 2.

### Fairness

Weak fairness of the database worker, of the end of `Close`, of the main
goroutine and of the log writer: goroutines run while the process lives, and a
crash or a panic ends the obligation. Weak fairness of each handler's steps and
of each call of `Measure`: a callback runs to its end because every ISS call and
every publish has a time-out. In `IssJobs` time passes and a job that does not
hang ends. In `Logger` the step in which the writer sees the closed done channel
is strongly fair: Go's `select` picks at random among the ready cases, so it does
not prefer the ticker for ever. Nothing is assumed of the arrival of commands,
of signals, of starts, of calls of `Close` or of log calls, which may go on for
ever or stop; `CloseReturns` speaks of the behaviours in which they stop.

## 4. Proofs

All theorems hold for any values of the constants under the named assumptions
(`...Assumption`): finite sets of callers (`MeasurementBuffers`, `IssJobs`), a
`NoBuffer` and a `NoItem` apart from the real ones, natural bounds and
capacities, requests that name known ports and natural values, at least one NATS
port, a base timeout larger than a job takes. `KindAssumption` of `IssJobs` says
which Go kinds the hub's callers pass to a script and which types they use of its
results; it is what the setter registry, the primitive scripts' variables, the
sample decoder and the getter registry do, and without it `LuaType` panics
(`bigUint64`) and a call stack comes back as a string. Of `OtherForms`, the
forms in which scripts send what is not of its declared type, it says only that the
protocol has them.
In `CartesianMeasurement`, `ConfigAssumption` says that the instruments of a
configuration are a list, `ScriptSetsAssumption` that a primitive script sweeps no,
one or two axes (`Dim0` to `Dim2` of `cartesianmeasure/primitiveMeasurementRegistry.go`),
and `RequestAssumption` that the lists of a request that can be read are lists, its
coordinates integers and its directions pairs, which is what falcon-core's types
are, and that it has fewer than 256 axes: the planner counts axes in 8 bits
(`cartesianmeasure/planner.go:341`), the model in numbers without a bound.

No invariant below is inductive by itself. Each `...Proofs` module states the
strengthening `IInv` as a conjunction of named parts, proves it for the initial
states and step by step for every action, and derives the properties from it.
TLC has checked each `IInv` on the instance of the component's run.

- `MeasurementBuffersProofs`. The step of `ReleaseAtISS` needs to know what
  `holding` is at each `pc` (`Attaching`), that
  a buffer claimed or tracked is no longer held by the ISS and has been handed out
  (`Known`, `Claimed`), that a caller has an id exactly while it runs and that a
  run that is not a setting's releases (`Identified`), and for `DeliveredOnce`
  that a delivered buffer is gone for good (`Spent`). The reference count is a
  cardinality, handled by lemmas on adding and removing one holder. Results:
  `TypeCorrect` (references never fall below zero), `ReferencesAccounted`,
  `ClaimsExclusive`, `SamplesDeliveredOnce`, `Cleanup` and the action property
  `OwnerReleases`.
- `MeasurementDBProofs`. The strengthening says what the worker has in hand at
  each step (`InHand`: between write and row its file is readable and unnamed),
  that all paths lie in the past (`Past`: a new file never reuses a name, so
  removing a refused insert's file never hits a catalogued one) and that nothing
  is in flight without a process (`Quiet`). Results: `TypeCorrect`,
  `CatalogIsBacked`, `RefusedRowLeavesNoFile`, `StoreIsHealthy`.
  For the order of the rows and the refinement one picture carries both results:
  the worker's insert followed by the queue is always the tail of the history of accepted
  inserts (`InFlight`), no insert is in that history twice or while it is still
  offered (`Once`), rows belong to inserts before that tail, and the file being
  inserted is the latest (`Recorded`). A crash only shortens the tail. Results:
  `OrderIsKept` (`RecordedInOrder`), and `ImplementsPromise`: the initial states
  map to those of `AcceptedInserts` and every step to a step of it or a stutter
  (a send is `Accept`, which needs `Once`; the end of an insert, stored or not, is
  `Settle`; `EndClose` is `Close`, with nothing pending; exit and crash are `Stop`).
- `CommandHandlersProofs`. `Locking` ties the guard to the measure handler's
  place, `Setting` ties the setters still to run to the request, `Recording`,
  `Averaging` and `Capturing` say what each output is at each place. Results:
  `TypeCorrect`, `GuardBoundsInterference`, `GuardIsReleased`,
  `AnswersAreRecorded`, `AveragesAreSound`, `DeviceStateSound`.
- `HubLifecycleProofs`. The strengthening is a table of what is open, subscribed
  (`Subscribing`), connected (`Connected`), owned (`Owning`) and released so far
  (`Released`) at each step of the main goroutine, up and down. That
  `findAvailablePort` finds a free port when there is one is a least-element
  argument.
  Results: `TypeCorrect`, `StatusMeansReady`, `ForeignDaemonIsKept`,
  `NothingPendingOnReturn`, `CloseReleasesAll`, and `PanicsOnlyInWindows`: no callback
  runs before the handlers are subscribed (`Quiet`), by when the database is open
  and the client connected, and each is there until its own step of `Close`.
- `LoggerProofs`. An accepted entry is in the queue, the builder, the file or a
  failed batch (`Kept`); the last drain begins after the done channel was closed,
  so what it leaves in the queue was not accepted (`LastDrain`); Close is past its
  wait only when the writer has returned (`Waited`); what the statistics count and
  what the calls between send and count still owe is what is in those four places
  (`Balance`, with a cardinality). Results: `TypeCorrect`, `CloseFlushesAccepted`,
  `StatisticsBalance`.
- `IssJobsProofs`. `inflight` counts the calls that have not returned
  (`Counted`); without a fault every queued job has a call that waits for it
  (`Owned`), so the queue is no longer than the calls in flight: an injection from
  positions to callers, with the library's theorem on cardinalities. Hence the
  deadline computed when the wait begins covers every job in front, and from then
  on a tick takes one from the deadline and one from the work left (`Covered`).
  Results: `TypeCorrect`, `DeadlineIsEnough`, `ResultTypeIsKept`, and `ValuesNeverKill`
  (`DiesOnlyOfAnswers`): every argument has a Lua type, and a result in the form of
  its declared type is one the type switch knows.
- `CartesianMeasurementProofs`. Validation and the port library are shown to
  leave only sound entries (`Sound`: a known unit, the attributes its role
  implies, a channel group for a local scripted characteristic, a named
  instrument of the configuration); of several global IOs of one name there is a
  first, a least-element argument. So every port of the catalogue is sound, has
  the gate of a wire to its own channel or none, and ports of one name share a
  channel (`Catalogued`). The conversions give back a sound port as it was, which
  carries `RepliesReadBack` for ports and, with the matching, brings a setting to
  its channel. The device state has every wired gate under its own name
  (`Voltages`); capturing voltages keeps that because a gate of the catalogue that
  the state does not know can only be the one without a name. Answers are kept
  only while the hub is idle (`Waiting`). Results: `AdvertisedPortsReadBack`,
  `SettingsReachTheirChannel`.
- `MeasurementPlanProofs` and, for `AnswerIsGrid`, `CartesianMeasurementProofs`.
  Two facts about the planner, for grids of any number and length of axes.
  `PlanRowMajor`: `BuildPlan` fixes the fewest axes that leave a number for which
  there is a script (`Fixed`), and its leaves are the combinations of their points
  in row-major order. `Measured`: what the leaves take, n samples at a position
  and one leaf after the other, averages to one value for every position of the
  whole grid, in order, at the voltages of that position. The arithmetic is that
  of digits in a mixed base: the index of a position splits into the index of its
  leaf and the index within the leaf (`Nested`, `Digit`, `BlockSplit`).
  `GridInv` carries this through a run: while scripts are left (`UnderWay`), every
  channel has exactly the samples of the leaves that ran, in order, all leaves with
  the same number of samples, and the request in hand is the client's (`Taking`).
  A script may add a call for a channel or unit that is not asked for, and the
  decoder drops it; it may take one sample where more were announced, and then the
  decoder refuses the result. When no leaf is left, the arrays are a
  right answer (`RightAnswer`), and writing and reading them, for the client and
  for the file, gives them back (`ArrayKept`, `LabelKept`). Results:
  `GridInvariance`, `AnswersAreGrids` (`AnswerIsGrid`).
- `LimitsNeverRead`, also in `CartesianMeasurementProofs`, is the other side of the
  run `limit_getters`: the run shows one limit that cannot be read, the theorem
  that after validation none can, in any configuration.

Recursion and induction. `BuildPlan`, `Product`, `SamplesOf` and the joining of
leaves are recursive functions, that is, a choice of some function with an
equation. Each proof builds a function that has the equation (`FoldExists`,
`PlanUnfolds`, the latter from the deepest fixings upwards), so the chosen one has
it too, and then inducts. The library's induction theorems take an operator for
the predicate, which the provers cannot instantiate; `Induction` takes a set
instead, and follows from the existence of a least element.

Only model-checked: liveness (`CommandsFinish`, `CloseTerminates`, `CallsReturn`,
`ShutdownEnds`, `CloseReturns`) and the fairness half of `KeepsPromise` (an
accepted insert is settled unless the process ends). Reasoning about fairness and
ENABLED is out of the prover's reach. Every invariant and every action property
of the runs that pass is a theorem.

## 5. Not modelled, and what is left

Not modelled:

- The generated protocol code (`issproto`): messages and stubs without logic of
  the hub; what the hub does with them is in `IssJobs`.
- The stand-alone tools (`cmd/dataviewer`, `cmd/schema-gen`, the C++ validator):
  they take no part in the running hub.
- YAML and JSON parsing, paths, defaults and the wording of messages and log lines.
- The searches of the database, the listings of the buffer manager and the types
  of `falconcore` that no handler uses.
- The layout of an HDF5 file, SQL, NATS and JetStream themselves.
- Floating point: rounding in the points of a sweep and in averages, and the
  truncation of database ids to 32 bits.

`CommandHandlers` keeps a script as one atomic job. `IssJobs` shows when a job
outlives its call (a time-out, a lost answer, a restart of the hub); composing
the two, so that such a job moves gates under a later command, would say
something about scripts the repository does not contain.

What is left: the composition above, and the parts of the hub that no handler
calls.
