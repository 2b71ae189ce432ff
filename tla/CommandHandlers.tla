--------------------------- MODULE CommandHandlers ---------------------------
(***************************************************************************)
(* MEASURE_COMMAND and SETTING_COMMAND, handled side by side.              *)
(*                                                                         *)
(* Each of the two NATS subscriptions has a goroutine that handles one     *)
(* command after the other.  The two share the instruments, the settings   *)
(* guard and the busy flag; a measurement also updates the device state,   *)
(* hands its data to the database and to JetStream, and answers.           *)
(*                                                                         *)
(* Modelled code: the measure and setting handlers, interpreter.Router,    *)
(* CartesianMeasurementHandler, settingrouter.Router, settingguard and the *)
(* busy flag of the handler manager.  The instruments, NATS and the scripts*)
(* are external; a script runs as one job of the instrument server.        *)
(* Abstracted: one getter, so one NumberOfSamples port, and a command is   *)
(* known by its number, which stands for its timestamp.                    *)
(***************************************************************************)
EXTENDS Naturals, FiniteSets

CONSTANTS
    Gates,           \* the source-voltage ports of ports.Settings
    Samples,         \* the NumberOfSamples port of the getter
    GateValues,      \* voltages
    SampleCounts,    \* sample counts an instrument can be set to
    Requests,        \* setting requests: [set : port -> value, get : ports]
    MaxPrimitives,   \* bound: primitive measurements of one plan
    MaxMeasure,      \* bound: measure commands received
    MaxSetting       \* bound: setting commands received

Ports == Gates \cup {Samples}

ASSUME PortAssumption == Samples \notin Gates
ASSUME ValueAssumption == GateValues \subseteq Nat /\ SampleCounts \subseteq Nat
ASSUME RequestAssumption ==
    \A r \in Requests :
        /\ DOMAIN r.set \subseteq Ports
        /\ r.set \in [DOMAIN r.set -> Nat]
        /\ r.get \subseteq Ports
ASSUME BoundAssumption == MaxPrimitives \in Nat /\ MaxMeasure \in Nat /\ MaxSetting \in Nat

VARIABLES
    mpc,           \* where the measure handler is
    mcmd,          \* number of the last measure command
    points,        \* numberOfPoints of the current measurement, 0 if not read
    left,          \* primitive measurements of the plan still to run
    chunks,        \* samples per position in the primitives decoded so far
    toRead,        \* source voltages still to read
    voltages,      \* those read
    toUpdate,      \* ports of the device state still to update
    spc,           \* where the setting handler is
    scmd,          \* number of the last setting command
    req,           \* its request
    toSet, toGet,  \* setters and getters of the request still to run
    got,           \* getter values collected for its response
    isBusy,        \* Manager.isBusy
    writesLocked,  \* settingguard.Guard
    instr,         \* what the instruments are set to
    deviceState,   \* devicestate.Manager
    inserted,      \* measure commands whose InsertAsync returned nil
    data,          \* measure commands with data in JetStream
    responded,     \* measure commands answered
    captured,      \* history: the last complete reading of the source voltages
    admitted       \* history: the setting command past the guard's check when
                   \* the guard was locked, 0 if there was none

measureVars == <<mpc, mcmd, points, left, chunks, toRead, voltages, toUpdate>>
settingVars == <<spc, scmd, req, toSet, toGet, got>>
outputs == <<deviceState, inserted, data, responded, captured>>
vars == <<measureVars, settingVars, isBusy, writesLocked, instr, outputs, admitted>>

MeasureSteps == {"idle", "parse", "route", "points", "primitive", "voltages",
                 "update", "record", "publish", "respond", "unlock", "busyOff"}
SettingSteps == {"idle", "parse", "check", "set", "get", "publish", "busyOff"}

\* The request of an idle setting handler.
NoRequest == [set |-> << >>, get |-> {}]

\* Every variable has its type.
TypeOK ==
    /\ mpc \in MeasureSteps /\ spc \in SettingSteps
    /\ mcmd \in Nat /\ scmd \in Nat
    /\ points \in Nat /\ left \in Nat /\ chunks \in SUBSET Nat
    /\ toRead \in SUBSET Gates /\ toUpdate \in SUBSET Gates
    /\ voltages \in [Gates -> Nat]
    /\ req \in Requests \cup {NoRequest}
    /\ toSet \in SUBSET Ports /\ toGet \in SUBSET Ports
    /\ got \in [Ports -> Nat]
    /\ isBusy \in BOOLEAN /\ writesLocked \in BOOLEAN
    /\ instr \in [Ports -> Nat]
    /\ deviceState \in [Gates -> Nat] /\ captured \in [Gates -> Nat]
    /\ inserted \in SUBSET Nat /\ data \in SUBSET Nat /\ responded \in SUBSET Nat
    /\ admitted \in Nat

\* The hub starts with the configured device state, whatever the instruments
\* are set to.
Init ==
    /\ mpc = "idle" /\ spc = "idle"
    /\ mcmd = 0 /\ scmd = 0
    /\ points = 0 /\ left = 0 /\ chunks = {}
    /\ toRead = {} /\ toUpdate = {}
    /\ req = NoRequest
    /\ toSet = {} /\ toGet = {}
    /\ got = [p \in Ports |-> 0]
    /\ isBusy = FALSE /\ writesLocked = FALSE
    /\ \E n \in SampleCounts, v \in GateValues :
          instr = [p \in Ports |-> IF p = Samples THEN n ELSE v]
    /\ \E v \in GateValues : deviceState = [g \in Gates |-> v]
    /\ voltages = [g \in Gates |-> 0]
    /\ captured = deviceState
    /\ inserted = {} /\ data = {} /\ responded = {}
    /\ admitted = 0

-----------------------------------------------------------------------------
(* The measure handler.                                                    *)

\* A command with a non-empty request.  Others are ignored.
ReceiveMeasure ==
    /\ mpc = "idle"
    /\ mcmd < MaxMeasure
    /\ mcmd' = mcmd + 1
    /\ isBusy' = TRUE
    /\ mpc' = "parse"
    /\ UNCHANGED <<points, left, chunks, toRead, voltages, toUpdate, settingVars,
                   writesLocked, instr, outputs, admitted>>

\* The request does not parse, or the guard is locked.
LockWrites ==
    /\ mpc = "parse"
    /\ \/ /\ mpc' = "busyOff"
          /\ UNCHANGED <<writesLocked, admitted>>
       \/ /\ mpc' = "route"
          /\ writesLocked' = TRUE
          /\ admitted' = IF spc = "set" THEN scmd ELSE 0
    /\ UNCHANGED <<mcmd, points, left, chunks, toRead, voltages, toUpdate,
                   settingVars, isBusy, instr, outputs>>

\* Mutant: an error return that does not unlock the guard.
FailKeepsLock == mpc' = "busyOff"

\* Any error after LockWrites: return through the deferred calls.
Fail == mpc' = "unlock"

\* Router.Handle and the planner: no handler or plan, no device state or
\* database, or a plan (an axis without points makes an empty one).  When the
\* only script is the 0D one, the number of samples is not read.
Route ==
    /\ mpc = "route"
    /\ \/ /\ Fail
          /\ UNCHANGED left
       \/ /\ mpc' \in {"points", "primitive"}
          /\ left' \in 0..MaxPrimitives
    /\ UNCHANGED <<mcmd, points, chunks, toRead, voltages, toUpdate, settingVars, isBusy,
                   writesLocked, instr, outputs, admitted>>

ReadNumberOfPoints ==
    /\ mpc = "points"
    /\ \/ /\ points' = instr[Samples]
          /\ mpc' = "primitive"
       \/ /\ Fail
          /\ UNCHANGED points
    /\ UNCHANGED <<mcmd, left, chunks, toRead, voltages, toUpdate, settingVars,
                   isBusy, writesLocked, instr, outputs, admitted>>

\* Samples per position that decodePrimitive expects and averageData divides by.
Divisor == IF points = 0 THEN 1 ELSE points

\* A sweep leaves the gates at any voltage.
Sweep == \E swept \in [Gates -> GateValues] :
            instr' = [p \in Ports |-> IF p = Samples THEN instr[p] ELSE swept[p]]

\* Mutant: a decoder that takes any number of samples.
DecodedAny(n) == n > 0

\* DecodeTargets accepts a result of exactly the expected length.
Decoded(n) == n = Divisor

\* Mutant: the end of the plan is not noticed.
RunPrimitiveAgain ==
    /\ mpc = "primitive"
    /\ Sweep
    /\ left' = left - 1
    /\ UNCHANGED <<mpc, mcmd, points, chunks, toRead, voltages, toUpdate, settingVars,
                   isBusy, writesLocked, outputs, admitted>>

\* One job: a buffered script returns as many samples per position as the
\* instrument is set to, the 0D script one.
RunPrimitive ==
    /\ mpc = "primitive"
    /\ left > 0
    /\ Sweep
    /\ \/ \E n \in {1, instr[Samples]} :
             /\ Decoded(n)
             /\ chunks' = chunks \cup {n}
             /\ left' = left - 1
             /\ UNCHANGED mpc
       \/ /\ Fail
          /\ UNCHANGED <<chunks, left>>
    /\ UNCHANGED <<mcmd, points, toRead, voltages, toUpdate, settingVars, isBusy,
                   writesLocked, outputs, admitted>>

PlanExecuted ==
    /\ mpc = "primitive"
    /\ left = 0
    /\ mpc' = "voltages"
    /\ toRead' = Gates
    /\ UNCHANGED <<mcmd, points, left, chunks, voltages, toUpdate, settingVars, isBusy,
                   writesLocked, instr, outputs, admitted>>

\* Mutant: the port stays in the list.
ReadVoltageAgain(g) ==
    /\ mpc = "voltages"
    /\ g \in toRead
    /\ voltages' = [voltages EXCEPT ![g] = instr[g]]
    /\ UNCHANGED <<mpc, mcmd, points, left, chunks, toRead, toUpdate, settingVars, isBusy,
                   writesLocked, instr, outputs, admitted>>

\* readSourceVoltages, one getter after the other.
ReadVoltage(g) ==
    /\ mpc = "voltages"
    /\ g \in toRead
    /\ \/ /\ voltages' = [voltages EXCEPT ![g] = instr[g]]
          /\ toRead' = toRead \ {g}
          /\ UNCHANGED mpc
       \/ /\ Fail
          /\ UNCHANGED <<voltages, toRead>>
    /\ UNCHANGED <<mcmd, points, left, chunks, toUpdate, settingVars, isBusy,
                   writesLocked, instr, outputs, admitted>>

VoltagesRead ==
    /\ mpc = "voltages"
    /\ toRead = {}
    /\ mpc' = "update"
    /\ toUpdate' = Gates
    /\ captured' = voltages
    /\ UNCHANGED <<mcmd, points, left, chunks, toRead, voltages, settingVars, isBusy,
                   writesLocked, instr, deviceState, inserted, data, responded, admitted>>

\* Mutant: the device state is updated with what the instrument says now.
UpdatePortLate(g) ==
    /\ mpc = "update"
    /\ g \in toUpdate
    /\ deviceState' = [deviceState EXCEPT ![g] = instr[g]]
    /\ toUpdate' = toUpdate \ {g}
    /\ UNCHANGED <<mpc, mcmd, points, left, chunks, toRead, voltages, settingVars,
                   isBusy, writesLocked, instr, inserted, data, responded, captured,
                   admitted>>

\* UpdatePort never returns an error.
UpdatePort(g) ==
    /\ mpc = "update"
    /\ g \in toUpdate
    /\ deviceState' = [deviceState EXCEPT ![g] = voltages[g]]
    /\ toUpdate' = toUpdate \ {g}
    /\ UNCHANGED <<mpc, mcmd, points, left, chunks, toRead, voltages, settingVars,
                   isBusy, writesLocked, instr, inserted, data, responded, captured,
                   admitted>>

\* averageData: an error is not possible, every chunk has Divisor samples.
Average ==
    /\ mpc = "update"
    /\ toUpdate = {}
    /\ mpc' = "record"
    /\ UNCHANGED <<mcmd, points, left, chunks, toRead, voltages, toUpdate, settingVars,
                   isBusy, writesLocked, instr, outputs, admitted>>

\* Mutant: a failing insert is only logged.
RecordIgnoresError ==
    /\ mpc = "record"
    /\ inserted' \in {inserted, inserted \cup {mcmd}}
    /\ mpc' = "publish"
    /\ UNCHANGED <<mcmd, points, left, chunks, toRead, voltages, toUpdate, settingVars,
                   isBusy, writesLocked, instr, deviceState, data, responded, captured,
                   admitted>>

\* recorder.Insert, which the database may refuse.  Afterwards Router.Handle
\* fails when no port was updated, and the response may not convert to JSON.
Record ==
    /\ mpc = "record"
    /\ \/ /\ inserted' = inserted \cup {mcmd}
          /\ \/ Gates # {} /\ mpc' = "publish"
             \/ Fail
       \/ /\ Fail
          /\ UNCHANGED inserted
    /\ UNCHANGED <<mcmd, points, left, chunks, toRead, voltages, toUpdate, settingVars,
                   isBusy, writesLocked, instr, deviceState, data, responded, captured,
                   admitted>>

\* js.Publish: an error return may hide a stored message.
PublishData ==
    /\ mpc = "publish"
    /\ \/ /\ data' = data \cup {mcmd}
          /\ mpc' = "respond"
       \/ /\ data' \in {data, data \cup {mcmd}}
          /\ Fail
    /\ UNCHANGED <<mcmd, points, left, chunks, toRead, voltages, toUpdate, settingVars,
                   isBusy, writesLocked, instr, deviceState, inserted, responded, captured,
                   admitted>>

PublishResponse ==
    /\ mpc = "respond"
    /\ responded' \in {responded, responded \cup {mcmd}}
    /\ mpc' = "unlock"
    /\ UNCHANGED <<mcmd, points, left, chunks, toRead, voltages, toUpdate, settingVars,
                   isBusy, writesLocked, instr, deviceState, inserted, data, captured,
                   admitted>>

\* The deferred calls, last one first.  The local variables are gone.
UnlockWrites ==
    /\ mpc = "unlock"
    /\ writesLocked' = FALSE
    /\ admitted' = 0
    /\ mpc' = "busyOff"
    /\ UNCHANGED <<mcmd, points, left, chunks, toRead, voltages, toUpdate, settingVars,
                   isBusy, instr, outputs>>

MeasureReturns ==
    /\ mpc = "busyOff"
    /\ isBusy' = FALSE
    /\ mpc' = "idle"
    /\ points' = 0 /\ left' = 0 /\ chunks' = {}
    /\ toRead' = {} /\ voltages' = [g \in Gates |-> 0]
    /\ UNCHANGED <<mcmd, toUpdate, settingVars,
                   writesLocked, instr, outputs, admitted>>

MeasureStep ==
    \/ LockWrites
    \/ Route
    \/ ReadNumberOfPoints
    \/ RunPrimitive
    \/ PlanExecuted
    \/ \E g \in Gates : ReadVoltage(g) \/ UpdatePort(g)
    \/ VoltagesRead
    \/ Average
    \/ Record
    \/ PublishData
    \/ PublishResponse
    \/ UnlockWrites
    \/ MeasureReturns

-----------------------------------------------------------------------------
(* The setting handler.                                                    *)

ReceiveSetting(r) ==
    /\ spc = "idle"
    /\ scmd < MaxSetting
    /\ scmd' = scmd + 1
    /\ req' = r
    /\ isBusy' = TRUE
    /\ spc' = "parse"
    /\ UNCHANGED <<measureVars, toSet, toGet, got, writesLocked, instr, outputs, admitted>>

ParseSetting ==
    /\ spc = "parse"
    /\ spc' \in {"check", "busyOff"}
    /\ UNCHANGED <<measureVars, scmd, req, toSet, toGet, got, isBusy, writesLocked, instr,
                   outputs, admitted>>

\* Mutant: the guard is not asked.
CheckGuardOpen ==
    /\ spc = "check"
    /\ spc' = IF DOMAIN req.set = {} THEN "get" ELSE "set"
    /\ toSet' = DOMAIN req.set
    /\ toGet' = req.get
    /\ UNCHANGED <<measureVars, scmd, req, got, isBusy, writesLocked, instr, outputs, admitted>>

\* settingrouter.Router.Handle asks the guard once, before the first setter.
CheckGuard ==
    /\ spc = "check"
    /\ spc' = IF DOMAIN req.set = {} THEN "get"
              ELSE IF writesLocked THEN "busyOff" ELSE "set"
    /\ toSet' = DOMAIN req.set
    /\ toGet' = req.get
    /\ UNCHANGED <<measureVars, scmd, req, got, isBusy, writesLocked, instr, outputs, admitted>>

\* The first error ends the request; the script may have written all the same.
SetPort(p) ==
    LET written == [instr EXCEPT ![p] = req.set[p]] IN
    /\ spc = "set"
    /\ p \in toSet
    /\ \/ /\ instr' = written
          /\ toSet' = toSet \ {p}
          /\ spc' = IF toSet' = {} THEN "get" ELSE spc
       \/ /\ instr' \in {instr, written}
          /\ spc' = "busyOff"
          /\ UNCHANGED toSet
    /\ UNCHANGED <<measureVars, scmd, req, toGet, got, isBusy, writesLocked, outputs,
                   admitted>>

GetPort(p) ==
    /\ spc = "get"
    /\ p \in toGet
    /\ \/ /\ got' = [got EXCEPT ![p] = instr[p]]
          /\ toGet' = toGet \ {p}
          /\ UNCHANGED spc
       \/ /\ spc' = "busyOff"
          /\ UNCHANGED <<got, toGet>>
    /\ UNCHANGED <<measureVars, scmd, req, toSet, isBusy, writesLocked, instr, outputs,
                   admitted>>

GetsDone ==
    /\ spc = "get"
    /\ toGet = {}
    /\ spc' = "publish"
    /\ UNCHANGED <<measureVars, scmd, req, toSet, toGet, got, isBusy, writesLocked, instr,
                   outputs, admitted>>

\* The response is published, or cannot be encoded or sent.
PublishSetting ==
    /\ spc = "publish"
    /\ spc' = "busyOff"
    /\ UNCHANGED <<measureVars, scmd, req, toSet, toGet, got, isBusy, writesLocked, instr,
                   outputs, admitted>>

SettingReturns ==
    /\ spc = "busyOff"
    /\ isBusy' = FALSE
    /\ spc' = "idle"
    /\ req' = NoRequest
    /\ toSet' = {} /\ toGet' = {} /\ got' = [p \in Ports |-> 0]
    /\ UNCHANGED <<measureVars, scmd, writesLocked, instr, outputs,
                   admitted>>

SettingStep ==
    \/ ParseSetting
    \/ CheckGuard
    \/ \E p \in Ports : SetPort(p) \/ GetPort(p)
    \/ GetsDone
    \/ PublishSetting
    \/ SettingReturns

-----------------------------------------------------------------------------
Next ==
    \/ ReceiveMeasure
    \/ MeasureStep
    \/ \E r \in Requests : ReceiveSetting(r)
    \/ SettingStep

\* The goroutine of a subscription runs its callback to the end: every call it
\* makes returns or times out.  Commands need not arrive.
Spec == Init /\ [][Next]_vars /\ WF_vars(MeasureStep) /\ WF_vars(SettingStep)

-----------------------------------------------------------------------------
(* Properties.                                                             *)

\* While a measurement holds the settings guard, a setting command writes only
\* if it had passed the guard's check before the guard was locked: at most one
\* request, the one that was under way, overlaps a measurement.
OnlyEarlierRequestWrites == writesLocked /\ spc = "set" => scmd = admitted

\* The measure handler never leaves the settings guard locked, on whatever
\* path it returns.
GuardReleased == mpc \in {"idle", "parse", "busyOff"} => ~writesLocked

\* A command is answered only when its data is in JetStream and the database
\* has accepted it.
RespondedIsRecorded == responded \subseteq data /\ data \subseteq inserted

\* What averageData divides by is the number of samples taken at every
\* position of every primitive, also when a setting command changes the number
\* of samples between two primitives of the same plan.
AveragesMatch ==
    mpc \in {"record", "publish", "respond"} => chunks \subseteq {Divisor}

\* The device state is one complete reading of the source voltages, taken by
\* one measurement, except while the next is being copied into it.
DeviceStateIsCapture ==
    \A g \in Gates \ toUpdate : deviceState[g] = captured[g]

\* Every command received is handled to the end.
CommandsFinish ==
    /\ mpc # "idle" ~> mpc = "idle"
    /\ spc # "idle" ~> spc = "idle"

(* Statements of the repository that the code does not keep.               *)

\* handlers/manager.go: the guard blocks writes when measurements are occurring,
\* so that a measurement can query settings without fear of overwriting: the
\* number of samples it has read stays in effect until its plan is executed.
SettingsHeld == mpc = "primitive" /\ points # 0 => instr[Samples] = points

\* settingrouter/router.go: the reads of a request observe the final state
\* established by the writes of the same request.
ReadsObserveWrites ==
    spc = "publish" => \A p \in DOMAIN req.set \cap req.get : got[p] = req.set[p]

=============================================================================
