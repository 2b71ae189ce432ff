------------------------ MODULE CommandHandlersProofs ------------------------
(***************************************************************************)
(* The safety properties of the two command handlers, for any instruments, *)
(* requests, plans and number of commands.                                 *)
(***************************************************************************)
EXTENDS CommandHandlers, TLAPS

\* The measure handler holds the settings guard exactly from LockWrites to
\* UnlockWrites.
Locking == writesLocked <=> mpc \notin {"idle", "parse", "busyOff"}

\* The setters still to run are setters of the request.
Setting == spc = "set" => toSet \subseteq DOMAIN req.set

\* Database before JetStream before answer.
Recording ==
    /\ responded \subseteq data /\ data \subseteq inserted
    /\ mpc = "publish" => mcmd \in inserted
    /\ mpc = "respond" => mcmd \in data

\* Only chunks of the expected size are collected, from the plan's start on.
Averaging ==
    /\ mpc \in {"idle", "parse", "route", "points"} => chunks = {}
    /\ mpc \in {"primitive", "voltages", "update", "record", "publish", "respond"} =>
          chunks \subseteq {Divisor}

\* The device state is behind the last capture only while it is being updated.
Capturing ==
    /\ mpc # "update" => toUpdate = {}
    /\ mpc = "update" => captured = voltages
    /\ DeviceStateIsCapture

IInv ==
    /\ TypeOK
    /\ Locking
    /\ Setting
    /\ OnlyEarlierRequestWrites
    /\ Recording
    /\ Averaging
    /\ Capturing

-----------------------------------------------------------------------------
(* Types.                                                                  *)

\* What a request asks to write is a value for a port.
LEMMA RequestTyped ==
    ASSUME TypeOK, NEW p \in DOMAIN req.set
    PROVE  p \in Ports /\ req.set[p] \in Nat
<1>1. CASE req \in Requests
  BY <1>1, RequestAssumption
<1>2. CASE req = NoRequest
  BY <1>2 DEF NoRequest
<1> QED
  BY <1>1, <1>2 DEF TypeOK

\* A sweep leaves every port at a value.
LEMMA SweepTyped ==
    ASSUME TypeOK, Sweep
    PROVE  instr' \in [Ports -> Nat]
<1>1. PICK swept \in [Gates -> GateValues] :
         instr' = [p \in Ports |-> IF p = Samples THEN instr[p] ELSE swept[p]]
  BY DEF Sweep
<1>2. ASSUME NEW p \in Ports PROVE (IF p = Samples THEN instr[p] ELSE swept[p]) \in Nat
  BY ValueAssumption DEF Ports, TypeOK
<1> QED
  BY <1>1, <1>2

\* The steps of the measure handler keep the types.
LEMMA MeasureTyped ==
    ASSUME TypeOK, ReceiveMeasure \/ MeasureStep
    PROVE  TypeOK'
<1> USE DEF TypeOK, measureVars, settingVars, outputs, Fail, MeasureSteps
<1>1. CASE ReceiveMeasure
  BY <1>1 DEF ReceiveMeasure
<1>2. CASE LockWrites
  <2>1. writesLocked' \in BOOLEAN
    BY <1>2 DEF LockWrites
  <2>2. admitted' \in Nat /\ mpc' \in MeasureSteps
    BY <1>2 DEF LockWrites
  <2>3. UNCHANGED <<mcmd, points, left, chunks, toRead, voltages, toUpdate,
                    settingVars, isBusy, instr, outputs>>
    BY <1>2 DEF LockWrites
  <2> QED
    BY <2>1, <2>2, <2>3
<1>3. CASE Route
  BY <1>3, BoundAssumption DEF Route
<1>4. CASE ReadNumberOfPoints
  BY <1>4 DEF ReadNumberOfPoints, Ports
<1>5. CASE RunPrimitive
  <2>1. instr' \in [Ports -> Nat]
    BY <1>5, SweepTyped DEF RunPrimitive
  <2>2. instr[Samples] \in Nat
    BY DEF Ports
  <2>3. left' \in Nat /\ mpc' \in MeasureSteps
    BY <1>5 DEF RunPrimitive
  <2>4. chunks' \in SUBSET Nat
    <3>1. ASSUME NEW n \in {1, instr[Samples]}, chunks' = chunks \cup {n}
          PROVE  chunks' \in SUBSET Nat
      BY <2>2, <3>1
    <3> QED
      BY <1>5, <3>1 DEF RunPrimitive
  <2> QED
    BY <1>5, <2>1, <2>3, <2>4 DEF RunPrimitive
<1>6. CASE PlanExecuted
  BY <1>6 DEF PlanExecuted
<1>7. ASSUME NEW g \in Gates, ReadVoltage(g) PROVE TypeOK'
  BY <1>7 DEF ReadVoltage, Ports
<1>8. ASSUME NEW g \in Gates, UpdatePort(g) PROVE TypeOK'
  BY <1>8 DEF UpdatePort
<1>9. CASE VoltagesRead
  BY <1>9 DEF VoltagesRead
<1>10. CASE Average
  BY <1>10 DEF Average
<1>11. CASE Record
  BY <1>11 DEF Record
<1>12. CASE PublishData
  BY <1>12 DEF PublishData
<1>13. CASE PublishResponse
  BY <1>13 DEF PublishResponse
<1>14. CASE UnlockWrites
  BY <1>14 DEF UnlockWrites
<1>15. CASE MeasureReturns
  BY <1>15 DEF MeasureReturns
<1> QED
  BY <1>1, <1>2, <1>3, <1>4, <1>5, <1>6, <1>7, <1>8, <1>9, <1>10, <1>11, <1>12, <1>13,
     <1>14, <1>15 DEF MeasureStep

\* So do those of the setting handler.
LEMMA SettingTyped ==
    ASSUME TypeOK, Setting, (\E r \in Requests : ReceiveSetting(r)) \/ SettingStep
    PROVE  TypeOK'
<1> USE DEF TypeOK, measureVars, settingVars, outputs, SettingSteps
<1>1. ASSUME NEW r \in Requests, ReceiveSetting(r) PROVE TypeOK'
  BY <1>1 DEF ReceiveSetting
<1>2. CASE ParseSetting
  BY <1>2 DEF ParseSetting
<1>3. CASE CheckGuard
  <2>1. DOMAIN req.set \subseteq Ports
    BY RequestTyped
  <2>2. req.get \subseteq Ports
    BY RequestAssumption DEF NoRequest
  <2> QED
    BY <1>3, <2>1, <2>2 DEF CheckGuard
<1>4. ASSUME NEW p \in Ports, SetPort(p) PROVE TypeOK'
  <2>1. req.set[p] \in Nat
    BY <1>4, RequestTyped DEF SetPort, Setting
  <2> QED
    BY <1>4, <2>1 DEF SetPort
<1>5. ASSUME NEW p \in Ports, GetPort(p) PROVE TypeOK'
  BY <1>5 DEF GetPort
<1>6. CASE GetsDone
  BY <1>6 DEF GetsDone
<1>7. CASE PublishSetting
  BY <1>7 DEF PublishSetting
<1>8. CASE SettingReturns
  BY <1>8 DEF SettingReturns
<1> QED
  BY <1>1, <1>2, <1>3, <1>4, <1>5, <1>6, <1>7, <1>8 DEF SettingStep

-----------------------------------------------------------------------------
(* The other parts of the invariant.                                       *)

\* The start of the hub.
LEMMA InitIInv == Init => IInv
<1> SUFFICES ASSUME Init PROVE IInv
  OBVIOUS
<1>1. instr \in [Ports -> Nat]
  BY ValueAssumption DEF Init
<1>2. deviceState \in [Gates -> Nat]
  BY ValueAssumption DEF Init
<1>3. TypeOK
  BY <1>1, <1>2 DEF Init, TypeOK, MeasureSteps, SettingSteps
<1>4. Locking /\ Setting /\ OnlyEarlierRequestWrites /\ Recording /\ Averaging
  BY DEF Init, Locking, Setting, OnlyEarlierRequestWrites, Recording, Averaging
<1>5. Capturing
  BY DEF Init, Capturing, DeviceStateIsCapture
<1> QED
  BY <1>3, <1>4, <1>5 DEF IInv

\* The steps of the measure handler keep the other parts.
LEMMA MeasureIInv ==
    ASSUME IInv, ReceiveMeasure \/ MeasureStep
    PROVE  IInv'
<1>1. TypeOK'
  BY MeasureTyped DEF IInv
<1> DEFINE Rest == Locking /\ Setting /\ OnlyEarlierRequestWrites /\ Recording
                   /\ Averaging /\ Capturing
<1> SUFFICES Rest'
  BY <1>1 DEF IInv
<1> USE DEF IInv, Locking, Setting, OnlyEarlierRequestWrites, Recording, Averaging,
            Capturing, DeviceStateIsCapture, Divisor,
            measureVars, settingVars, outputs, Fail
<1>2. CASE ReceiveMeasure
  BY <1>2 DEF ReceiveMeasure
<1>3. CASE LockWrites
  BY <1>3 DEF LockWrites
<1>4. CASE Route
  BY <1>4 DEF Route
<1>5. CASE ReadNumberOfPoints
  BY <1>5 DEF ReadNumberOfPoints
<1>6. CASE RunPrimitive
  BY <1>6 DEF RunPrimitive, Decoded
<1>7. CASE PlanExecuted
  BY <1>7 DEF PlanExecuted
<1>8. ASSUME NEW g \in Gates, ReadVoltage(g) PROVE Rest'
  BY <1>8 DEF ReadVoltage
<1>9. ASSUME NEW g \in Gates, UpdatePort(g) PROVE Rest'
  BY <1>9 DEF UpdatePort, TypeOK
<1>10. CASE VoltagesRead
  BY <1>10 DEF VoltagesRead
<1>11. CASE Average
  BY <1>11 DEF Average
<1>12. CASE Record
  BY <1>12 DEF Record
<1>13. CASE PublishData
  BY <1>13 DEF PublishData
<1>14. CASE PublishResponse
  BY <1>14 DEF PublishResponse
<1>15. CASE UnlockWrites
  BY <1>15 DEF UnlockWrites
<1>16. CASE MeasureReturns
  BY <1>16 DEF MeasureReturns
<1> QED
  BY <1>2, <1>3, <1>4, <1>5, <1>6, <1>7, <1>8, <1>9, <1>10, <1>11, <1>12, <1>13,
     <1>14, <1>15, <1>16 DEF MeasureStep

\* The steps of the setting handler do too.  The guard's check is the step that
\* decides whether a request may write under a lock.
LEMMA SettingIInv ==
    ASSUME IInv, (\E r \in Requests : ReceiveSetting(r)) \/ SettingStep
    PROVE  IInv'
<1>1. TypeOK'
  BY SettingTyped DEF IInv
<1>2. UNCHANGED <<mpc, mcmd, points, left, chunks, toRead, voltages, toUpdate, writesLocked,
                  deviceState, inserted, data, responded, captured, admitted>>
  BY DEF SettingStep, ReceiveSetting, ParseSetting, CheckGuard, SetPort, GetPort, GetsDone,
         PublishSetting, SettingReturns, measureVars, outputs
<1>3. Locking' /\ Recording' /\ Averaging' /\ Capturing'
  BY <1>2 DEF IInv, Locking, Recording, Averaging, Capturing, DeviceStateIsCapture, Divisor
<1>4. Setting' /\ OnlyEarlierRequestWrites'
  <2> USE <1>2 DEF IInv, Setting, OnlyEarlierRequestWrites
  <2>1. CASE CheckGuard
    BY <2>1 DEF CheckGuard
  <2>2. ASSUME NEW p \in Ports, SetPort(p) PROVE Setting' /\ OnlyEarlierRequestWrites'
    BY <2>2 DEF SetPort
  <2>3. CASE ~CheckGuard /\ ~(\E p \in Ports : SetPort(p))
    <3>1. spc' # "set"
      BY <2>3 DEF SettingStep, ReceiveSetting, ParseSetting, GetPort, GetsDone,
                  PublishSetting, SettingReturns
    <3> QED
      BY <3>1
  <2> QED
    BY <2>1, <2>2, <2>3
<1> QED
  BY <1>1, <1>3, <1>4 DEF IInv

\* Every step keeps the invariant.
LEMMA NextIInv == IInv /\ [Next]_vars => IInv'
<1> SUFFICES ASSUME IInv, [Next]_vars PROVE IInv'
  OBVIOUS
<1>1. CASE ReceiveMeasure \/ MeasureStep
  BY <1>1, MeasureIInv
<1>2. CASE (\E r \in Requests : ReceiveSetting(r)) \/ SettingStep
  BY <1>2, SettingIInv
<1>3. CASE UNCHANGED vars
  BY <1>3 DEF IInv, TypeOK, Locking, Setting, OnlyEarlierRequestWrites, Recording, Averaging,
              Capturing, DeviceStateIsCapture, Divisor, vars, measureVars, settingVars, outputs
<1> QED
  BY <1>1, <1>2, <1>3 DEF Next

\* The inductive invariant holds in every reachable state.
THEOREM Invariance == Spec => []IInv
  BY InitIInv, NextIInv, PTL DEF Spec

-----------------------------------------------------------------------------
(* What follows from it.                                                   *)

\* The types of the handlers' state.
THEOREM TypeCorrect == Spec => []TypeOK
<1>1. IInv => TypeOK
  BY DEF IInv
<1> QED
  BY <1>1, Invariance, PTL

\* At most the request that was past the guard's check when a measurement began
\* writes while it runs.
THEOREM GuardBoundsInterference == Spec => []OnlyEarlierRequestWrites
<1>1. IInv => OnlyEarlierRequestWrites
  BY DEF IInv
<1> QED
  BY <1>1, Invariance, PTL

\* Whatever a measurement ends with, the guard is not left locked.
THEOREM GuardIsReleased == Spec => []GuardReleased
<1>1. IInv => GuardReleased
  BY DEF IInv, Locking, GuardReleased
<1> QED
  BY <1>1, Invariance, PTL

\* An answered command is in JetStream and was accepted by the database.
THEOREM AnswersAreRecorded == Spec => []RespondedIsRecorded
<1>1. IInv => RespondedIsRecorded
  BY DEF IInv, Recording, RespondedIsRecorded
<1> QED
  BY <1>1, Invariance, PTL

\* Averages are taken over the samples of one position, whatever the setting
\* handler does to the sample count meanwhile.
THEOREM AveragesAreSound == Spec => []AveragesMatch
<1>1. IInv => AveragesMatch
  BY DEF IInv, Averaging, AveragesMatch
<1> QED
  BY <1>1, Invariance, PTL

\* The device state never mixes two captures except while it is updated.
THEOREM DeviceStateSound == Spec => []DeviceStateIsCapture
<1>1. IInv => DeviceStateIsCapture
  BY DEF IInv, Capturing
<1> QED
  BY <1>1, Invariance, PTL

=============================================================================
