------------------------- MODULE CartesianMeasurement -------------------------
(***************************************************************************)
(* The hub from its configuration to its answers: it loads a               *)
(* configuration, connects the ports, and serves setting requests and      *)
(* cartesian measurements one after the other.  Which commands may overlap *)
(* is the subject of CommandHandlers; here one is served at a time.        *)
(*                                                                         *)
(* The instruments, the scripts and falcon-core are external.  A script    *)
(* may fail, may take one sample or the configured number of samples at a  *)
(* position, and may call other channels and other commands on the way.    *)
(***************************************************************************)
EXTENDS MeasurementPlan

CONSTANTS
    Configs,        \* the configurations the hub may be started with
    ScriptSets,     \* the dimensions the installed measurement scripts may have
    Requests,       \* the measurement requests clients send
    SampleCounts    \* the numbers of samples an instrument may report

ASSUME SampleCountsAssumption == SampleCounts \subseteq Int

\* The hub has scripts for no, one and two axes.
ASSUME ScriptSetsAssumption == \A d \in ScriptSets : d \subseteq 0..2

\* The instruments of a configuration are a list.
ASSUME ConfigAssumption == \A c \in Configs : DOMAIN c.instruments \subseteq Nat

\* The lists of a request that can be read are lists, the numbers of its
\* unit space integers and its directions pairs.  It has fewer axes than the
\* planner's 8-bit counters (Dimensionality, primitiveAxis) can tell apart.
IsList(s) == Len(s) \in Nat /\ DOMAIN s = 1..Len(s)
ASSUME RequestAssumption ==
    \A m \in Requests : MeasurementRequestFromFalcon(m) # {} =>
        /\ IsList(m.getters) /\ IsList(m.waveforms)
        /\ \A i \in DOMAIN m.waveforms :
             LET space == m.waveforms[i].space
             IN  /\ IsList(space.axes) /\ Len(space.axes) < 256
                 /\ \A j \in DOMAIN space.axes : IsList(space.axes[j])
                 /\ space.space.domain.lo \in Int /\ space.space.domain.hi \in Int
                 /\ \A j \in DOMAIN space.space.items : space.space.items[j].delta \in Int
                 /\ \A j \in DOMAIN space.increasing :
                      /\ IsList(space.increasing[j])
                      /\ \A k \in DOMAIN space.increasing[j] :
                           space.increasing[j][k] \in {space.increasing[j][k][1]} \X BOOLEAN

VARIABLES
    cfg,        \* the configuration
    dims,       \* the dimensions of the measurement scripts that are installed
    stage,      \* what the hub is doing
    wiremap,    \* the resolved wiremap
    ports,      \* the connected ports, none when they could not be built
    state,      \* the device state by gate
    msg,        \* the measurement request, as its client sent it
    req,        \* the same, as the hub read it
    plan,       \* the primitive scripts to run
    points,     \* the number of samples of every getter, 0 when it was not read
    output,     \* the samples by getter
    stored,     \* the row and the file of the measurement
    reply       \* the answer to the last request

vars == <<cfg, dims, stage, wiremap, ports, state, msg, req, plan, points, output,
          stored, reply>>
hub == <<cfg, dims, wiremap, ports>>

None == [kind |-> "none"]
Refused == [kind |-> "measure", ok |-> FALSE]

Init ==
    /\ cfg \in Configs
    /\ dims \in ScriptSets
    /\ stage = "load"
    /\ wiremap = {} /\ ports = {} /\ state = << >>
    /\ msg = None /\ req = None /\ plan = << >> /\ points = << >> /\ output = << >>
    /\ stored = None /\ reply = None

\* LoadConfig and NewRuntime: a configuration that is not valid ends the hub;
\* the error of NewConnectedPorts is not looked at.
Load ==
    /\ stage = "load"
    /\ IF ValidConfig(cfg)
       THEN /\ stage' = "idle"
            /\ wiremap' = Only(ResolveWiremap(cfg))
            /\ ports' = IF LibraryFails(cfg.instruments) THEN {}
                        ELSE ConnectWireMap(wiremap', BuildPortLibrary(cfg.instruments))
            /\ state' = InitialDeviceVoltageState(wiremap', Only(DefaultToZero(cfg)))
       ELSE stage' = "rejected" /\ UNCHANGED <<wiremap, ports, state>>
    /\ UNCHANGED <<cfg, dims, msg, req, plan, points, output, stored, reply>>

-----------------------------------------------------------------------------
(* Settings                                                                *)

\* The channel a getter or setter script is handed.
SettingTarget(port) == Target(Only(ResolvePort(port, ports)))

\* MeasurementCharacteristicGetter.Get and the limit getters: the channels a
\* value can come from, none when the read fails whatever the script does.
Readable(port) ==
    CASE GetterFor(port, cfg, ports) \in {"min", "max"} ->
           {SettingTarget(port) : k \in {l \in {"min", "max"} : LimitGets(port, cfg.instruments, ports, l)}}
      [] GetterFor(port, cfg, ports) = "measurement" /\ Serializable(SettingTarget(port)) ->
           {SettingTarget(port)}
      [] OTHER -> {}

\* MeasurementCharacteristicSetter.Set, the same for a write.
Writable(port) ==
    IF SetterFor(port, cfg, ports) = "measurement" /\ Serializable(SettingTarget(port))
    THEN {SettingTarget(port)} ELSE {}

\* What a getter script may return (external): the value in the unit of the
\* port, after the return of another command or not, or another kind of value.
ScriptReturns(port) ==
    LET value == [unit |-> port.unit,
                  kind |-> IF port.char = Base("number_of_samples") THEN "int" ELSE "float"]
        other == [unit |-> "K", kind |-> "float"]
    IN  {<<value>>, <<other, value>>, <<other>>}

\* The voltage an instrument reports for a channel (external).
Reported(t) == 100 + t[3]

\* Router.Handle for a request with one getter, and the answer.
GetReply(p, returns) ==
    LET read == PortsFromFalcon(<<Advertised(p)>>)
        on == UNION {Readable(r[1]) : r \in read}
        decoded == {r[1] : r \in {s \in read : \/ GetterFor(s[1], cfg, ports) # "measurement"
                                               \/ Decodable(returns, s[1])}}
        sent == {NewFalconSettingResponse(port :> [value |-> Reported(t), unit |-> port.unit])
                 : port \in decoded, t \in on}
    IN  [kind |-> "get", port |-> Advertised(p), on |-> IF decoded = {} THEN {} ELSE on,
         possible |-> on # {}, sent |-> UNION sent]

\* Router.Handle for a request with one setter.
SetReply(p) ==
    LET read == SettingRequestFromFalcon([setters |-> << <<Advertised(p), [value |-> 1, unit |-> p.unit]>> >>,
                                          getters |-> << >>])
        on == UNION {UNION {Writable(port) : port \in DOMAIN r.setters} : r \in read}
    IN  [kind |-> "set", port |-> Advertised(p), on |-> on, possible |-> on # {}, sent |-> {}]

GetSetting(p) ==
    /\ stage = "idle"
    /\ \E returns \in ScriptReturns(p) : reply' = GetReply(p, returns)
    /\ msg' = None /\ req' = None /\ stored' = None
    /\ UNCHANGED <<hub, stage, state, plan, points, output>>

\* The device state is not brought up to date by a setter.
SetSetting(p) ==
    /\ stage = "idle"
    /\ reply' = SetReply(p)
    /\ msg' = None /\ req' = None /\ stored' = None
    /\ UNCHANGED <<hub, stage, state, plan, points, output>>

-----------------------------------------------------------------------------
(* What the hub tells about itself                                         *)

\* handlePortRequest.
PortRequest ==
    /\ stage = "idle"
    /\ reply' = [kind |-> "ports", sent |-> {Advertised(p) : p \in ports}]
    /\ msg' = None /\ req' = None /\ stored' = None
    /\ UNCHANGED <<hub, stage, state, plan, points, output>>

\* sendDeviceStateResponse.
StateRequest ==
    /\ stage = "idle"
    /\ reply' = [kind |-> "state", sent |-> NewFalconVoltageStateResponse(state)]
    /\ msg' = None /\ req' = None /\ stored' = None
    /\ UNCHANGED <<hub, stage, state, plan, points, output>>

-----------------------------------------------------------------------------
(* Measurements                                                            *)

\* The end of a measurement: its plan and its samples are gone.
Answer(r) ==
    /\ stage' = "idle" /\ reply' = r
    /\ plan' = << >> /\ points' = << >> /\ output' = << >>
Refuse == Answer(Refused)

\* handleMeasureCommand up to the handler: the request is read, and only the
\* cartesian handler can take it.
MeasureCommand(m) ==
    /\ stage = "idle"
    /\ msg' = m
    /\ LET read == MeasurementRequestFromFalcon(m)
       IN  IF read = {} THEN Refuse /\ req' = None
           ELSE /\ req' = Only(read)
                /\ IF CanHandle(req', ports)
                   THEN stage' = "plan" /\ reply' = None /\ UNCHANGED <<plan, points, output>>
                   ELSE Refuse
    /\ stored' = None
    /\ UNCHANGED <<hub, state>>

\* BuildMeasurementRegistry and BuildPlan; no number of samples is read when
\* the only script is measure_get_set.
BuildMeasurementPlan ==
    /\ stage = "plan" /\ (dims = {} \/ ~SettersPanic(req))
    /\ LET built == BuildPlan(req, ports, << >>, dims)
       IN  IF dims = {} \/ ~built.ok THEN Refuse
           ELSE /\ plan' = built.leaves
                /\ points' = [t \in {GetterTargets(req, ports)[i] : i \in DOMAIN req.getters} |-> 0]
                /\ output' = [t \in DOMAIN points' |-> << >>]
                /\ stage' = IF dims = {0} THEN "run" ELSE "points"
                /\ UNCHANGED reply
    /\ UNCHANGED <<hub, state, msg, req, stored>>

\* The panic of buildSetters ends the hub.
PlanPanics ==
    /\ stage = "plan" /\ dims # {} /\ SettersPanic(req)
    /\ stage' = "dead"
    /\ UNCHANGED <<hub, state, msg, req, plan, points, output, stored, reply>>

\* numberOfSamplesPorts: the setting of the getter's channel, else a global
\* one of its instrument.
SamplePorts(t) ==
    LET all == {p \in Settings(ports) : p.char = Base("number_of_samples") /\ p.instrument = t[1]}
        local == {p \in all : p.scope = "local" /\ Target(p) = t}
    IN  IF local # {} THEN local ELSE {p \in all : p.scope = "global"}

\* readNumberOfPoints: one reading for every setting that is needed; each may
\* fail.
ReadNumberOfPoints ==
    /\ stage = "points"
    /\ IF \E t \in DOMAIN points : \A p \in SamplePorts(t) : Readable(InstrumentPort(p)) = {}
       THEN Refuse
       ELSE \/ Refuse
            \/ \E reading \in [UNION {Readable(InstrumentPort(Only(SamplePorts(t)))) : t \in DOMAIN points}
                                 -> SampleCounts] :
                 /\ points' = [t \in DOMAIN points |->
                                 reading[Only(Readable(InstrumentPort(Only(SamplePorts(t)))))]]
                 /\ stage' = "run" /\ UNCHANGED <<plan, output, reply>>
    /\ UNCHANGED <<hub, state, msg, req, stored>>

UnitOf(t) == GetterPort(req, ports, t).unit

\* The unit a configuration call returns for a getter of unit u, and a channel
\* that is no getter's (external).
OtherUnit(u) == IF u = "K" THEN "T" ELSE "K"
NoChannel == <<"", "", 0>>

\* The calls of a script that ends well (external).
ScriptCalls(input) ==
    LET n(t) == IF points[t] = 0 THEN 1 ELSE points[t]
        Call(t, m) == [on |-> t, unit |-> UnitOf(t), samples |-> Samples(input, t, m),
                       kind |-> IF input.choice = 0 THEN "scalar" ELSE "buffer"]
        reads(m) == [i \in DOMAIN input.getters |-> Call(input.getters[i], m[input.getters[i]])]
        config == [on |-> input.getters[1], unit |-> OtherUnit(UnitOf(input.getters[1])),
                   samples |-> <<"configuration">>, kind |-> "scalar"]
        foreign == [on |-> NoChannel, unit |-> UnitOf(input.getters[1]),
                    samples |-> <<"foreign">>, kind |-> IF input.choice = 0 THEN "scalar" ELSE "buffer"]
        counts == {[t \in DOMAIN points |-> 1], [t \in DOMAIN points |-> n(t)]}
    IN  UNION {{reads(m), <<config>> \o reads(m), <<foreign>> \o reads(m)} : m \in counts}

Leaf == plan[1]
GetterUnits == [t \in DOMAIN points |-> UnitOf(t)]

\* Run, for the next primitive script of the plan: a negative number of
\* samples, an input that cannot be encoded, a script that fails and returns
\* that do not fit the shape end the measurement.
RunPrimitive ==
    /\ stage = "run" /\ plan # << >>
    /\ IF (\E t \in DOMAIN points : points[t] < 0) \/ ~Encodes(Leaf) THEN Refuse
       ELSE \/ Refuse
            \/ \E calls \in ScriptCalls(Leaf) :
                 IF Decodes(calls, Leaf, points, GetterUnits)
                 THEN /\ output' = Merge(output, calls, Leaf, GetterUnits)
                      /\ plan' = Tail(plan)
                      /\ UNCHANGED <<stage, points, reply>>
                 ELSE Refuse
    /\ UNCHANGED <<hub, state, msg, req, stored>>

\* sourceVoltagePorts.
SourceVoltagePorts == {InstrumentPort(p) : p \in {q \in Settings(ports) : q.char = Base("source_voltage")}}

\* UpdatePort: the connection that is known for the name stays, an unknown
\* name gets the zero connection.
UpdatePort(old, gate, quantity) ==
    (gate :> [gate |-> IF gate \in DOMAIN old THEN old[gate].gate ELSE NoGate,
              value |-> quantity.value, unit |-> quantity.unit]) @@ old

\* readSourceVoltages and the update of the device state.  A reading may fail,
\* and of two channels of one gate either may be the last.
CaptureVoltages ==
    /\ stage = "run" /\ plan = << >>
    /\ IF \E p \in SourceVoltagePorts : Readable(p) = {} THEN Refuse /\ UNCHANGED state
       ELSE \/ Refuse /\ UNCHANGED state
            \/ \E last \in [{p.gate : p \in SourceVoltagePorts} -> SourceVoltagePorts] :
                 /\ \A g \in DOMAIN last : last[g].gate = g
                 /\ state' = [g \in DOMAIN state \cup DOMAIN last |->
                                IF g \in DOMAIN last
                                THEN UpdatePort(state, g, [value |-> Reported(Only(Readable(last[g]))),
                                                           unit |-> last[g].unit])[g]
                                ELSE state[g]]
                 /\ stage' = "record" /\ UNCHANGED <<plan, points, output, reply>>
    /\ UNCHANGED <<hub, msg, req, stored>>

\* The averaged samples of a getter; without a number of samples they are
\* passed on as they are.
Averaged(t) ==
    IF points[t] = 0 THEN [k \in DOMAIN output[t] |-> [data |-> {output[t][k]}]]
    ELSE Average(output[t], points[t])

\* buildWiremap, buildGetterInfo and buildSweepInfo: a sweep is recorded from
\* its lesser to its greater bound.
BuildWiremap(port) == [gate |-> port.gate, on |-> Target(Only(ResolvePort(port, ports)))]
BuildGetterInfo == [i \in DOMAIN req.getters |->
                      [wiremap |-> BuildWiremap(req.getters[i]), unit |-> req.getters[i].unit]]
BuildSweepInfo ==
    {[wiremap |-> BuildWiremap(Labelled(req, s).port), axis |-> s[1], points |-> Len(AxisValues(req, s[1])),
      start |-> Labelled(req, s).domain.lo, end |-> Labelled(req, s).domain.hi] : s \in Slots(req)}

\* BuildInsertEntry.
BuildInsertEntry(shape) == [setters |-> BuildSweepInfo, getters |-> BuildGetterInfo, shape |-> shape]

\* buildRanges: an array for every getter, as long as the shape says.
BuildRanges(shape) ==
    LET targets == GetterTargets(req, ports)
        Range(t) == [gate |-> GetterPort(req, ports, t).gate, unit |-> UnitOf(t),
                     type |-> GetterPort(req, ports, t).type, data |-> Averaged(t), shape |-> shape]
    IN  IF \E t \in DOMAIN output : Len(Averaged(t)) # Product(shape) THEN {}
        ELSE {[i \in DOMAIN targets |-> Range(targets[i])]}

\* buildMetadata.
BuildMetadata == [g \in {p.gate : p \in SourceVoltagePorts} |-> state[g].value]

EmptyEntry == [shape |-> << >>, unitDomain |-> << >>, labels |-> << >>, ranges |-> << >>, metadata |-> << >>]

\* BuildDatabaseEntry, whose error is not looked at: without ranges or unit
\* domain the entry is empty.
BuildDatabaseEntry(shape) ==
    LET entries == {[shape |-> shape, unitDomain |-> u, labels |-> Axes(req), ranges |-> r,
                     metadata |-> BuildMetadata]
                    : r \in BuildRanges(shape), u \in CreateArray(Space(req).space, [i \in DOMAIN shape |-> i])}
    IN  IF entries = {} THEN EmptyEntry ELSE Only(entries)

\* The rest of Handle: averaging, the entry, its insertion, which may be
\* refused, and the answer; a measurement that updated no gate is refused
\* after it was stored.
RecordMeasurement ==
    /\ stage = "record"
    /\ IF \E t \in DOMAIN output : points[t] # 0 /\ Len(output[t]) % points[t] # 0
       THEN Refuse /\ UNCHANGED stored
       ELSE LET shape == PlanShape(req, ports, dims)
                entry == BuildDatabaseEntry(shape)
                sent == NewFalconMeasurementResponse([arrays |-> entry.ranges])
            IN  \/ Refuse /\ UNCHANGED stored
                \/ /\ stored' = [row |-> BuildInsertEntry(shape), file |-> NewFalconDatabaseEntry(entry)]
                   /\ IF SourceVoltagePorts = {} \/ sent = {} THEN Refuse
                      ELSE Answer([kind |-> "measure", ok |-> TRUE, sent |-> Only(sent)])
    /\ UNCHANGED <<hub, state, msg, req>>

Next ==
    \/ Load
    \/ \E p \in Settings(ports) : GetSetting(p) \/ SetSetting(p)
    \/ PortRequest
    \/ StateRequest
    \/ \E m \in Requests : MeasureCommand(m)
    \/ BuildMeasurementPlan
    \/ PlanPanics
    \/ ReadNumberOfPoints
    \/ RunPrimitive
    \/ CaptureVoltages
    \/ RecordMeasurement

Spec == Init /\ [][Next]_vars

-----------------------------------------------------------------------------
(* Properties                                                              *)

\* The channels a gate is wired to.
ChannelsOf(gate) == {<<w.instrument, w.group, w.channel>> : w \in {v \in wiremap : v.gate = gate}}

Answered == reply.kind = "measure" /\ reply.ok

\* The axes the scripts sweep themselves: as many of the last ones as the
\* largest script there is can take.
NativeAxes(m) ==
    LET n == Len(ClientSpace(m).axes)
        d == CHOOSE k \in dims : k <= n /\ \A j \in dims : j <= n => j <= k
    IN  (n - d + 1)..n

\* The voltage on the channel of a slot when a value was measured.
VoltageAt(value, m, s) ==
    UNION {{x.volts[t] : t \in DOMAIN x.volts \cap ChannelsOf(ClientPort(m, s).port.gate)}
           : x \in value.data}

\* The swept gates of a request have channels of their own; the planner keeps
\* one input for a channel.
ChannelsDistinct(m) ==
    \A s, r \in ClientSlots(m) :
        s # r => ChannelsOf(ClientPort(m, s).port.gate) \cap ChannelsOf(ClientPort(m, r).port.gate) = {}

\* A request that means a grid: every axis has a port to sweep and a positive
\* step through a domain that is not empty, every port has a gate, and every
\* gate of an axis one direction and channels of its own.
NamesGate(port) == port.scope = "local" /\ port.gate # NoGate
WellPosed(m) ==
    LET space == ClientSpace(m)
    IN  /\ space.space.domain.lo <= space.space.domain.hi
        /\ \A i \in DOMAIN space.axes :
             /\ DOMAIN space.axes[i] # {}
             /\ i \in DOMAIN space.space.items /\ space.space.items[i].delta > 0
             /\ i \in DOMAIN space.increasing
             /\ \A j, k \in DOMAIN space.increasing[i] :
                  space.increasing[i][j][1] = space.increasing[i][k][1]
                    => space.increasing[i][j] = space.increasing[i][k]
        /\ \A s \in ClientSlots(m) : NamesGate(ClientPort(m, s).port)
        /\ \A i \in DOMAIN m.getters : NamesGate(m.getters[i])
        /\ ChannelsDistinct(m)

\* A measurement of a well-posed request that is answered is
\* complete and in order: there is one array for the gate of every getter, of
\* the shape of the requested grid, whose k-th value comes only from samples
\* taken on the channel wired to that gate while every swept gate had the
\* voltage of the k-th position in row-major order and every gate that a plan
\* of several scripts holds had the coordinate of that position.  The same
\* arrays are in the file, which can be read back.  It is about the planner's
\* division of the grid, the decoding, merging and averaging of samples, the
\* ignored errors of the database entry and the conversions on both ends.
AnswerIsGrid ==
    Answered /\ WellPosed(msg) =>
        LET m == msg
            arrays == MeasurementResponseFromFalcon(reply.sent)
            shape == ClientShape(m)
        IN  /\ \A a \in arrays : \A i \in DOMAIN m.getters :
                  \E j \in DOMAIN a.arrays :
                    LET array == a.arrays[j]
                    IN  /\ array.gate = m.getters[i].gate /\ array.shape = shape
                        /\ Len(array.data) = Product(shape)
                        /\ \A k \in DOMAIN array.data :
                             /\ {x.on : x \in array.data[k].data} \subseteq ChannelsOf(array.gate)
                             /\ \A s \in ClientSlots(m) :
                                  VoltageAt(array.data[k], m, s) =
                                    {IF s[1] \in NativeAxes(m) THEN ClientVoltage(m, s, k)
                                     ELSE ClientPoints(m, s[1])[GridIndex(shape, k)[s[1]] + 1]}
            /\ arrays # {}
            /\ \E file \in UNION {DatabaseEntryFromFalcon(f) : f \in stored.file} :
                 \A a \in arrays : file.ranges = a.arrays /\ file.shape = shape

\* In an answer every gate that is held while a script sweeps the others has
\* the voltage of its own domain, as the planner's comment on nested plans has
\* it (P1 in [-1,1] is held at -1, 0 and 1).
FixedAxisVoltage ==
    Answered /\ ChannelsDistinct(msg) =>
        \A a \in MeasurementResponseFromFalcon(reply.sent) : \A j \in DOMAIN a.arrays :
            \A k \in DOMAIN a.arrays[j].data : \A s \in ClientSlots(msg) :
                VoltageAt(a.arrays[j].data[k], msg, s) = {ClientVoltage(msg, s, k)}

\* What the hub tells about itself can be used.  Every port of the answer to a
\* port request leads back to its own entry of the catalogue when a client
\* sends it, except a knob that is both input and output: a knob is advertised
\* as write only.  The answer to a state request, read back, has the voltage of
\* every gate under the gate's own name, after any number of measurements.  It
\* is about the attributes of roles, the connection to the wiremap,
\* falcon-core's constructors, the matching and UpdatePort's connections.
RepliesReadBack ==
    /\ reply.kind = "ports" =>
         /\ \A p \in ports : Advertised(p) \in reply.sent
         /\ \A h \in reply.sent : \E p \in ports :
              /\ Advertised(p) = h
              /\ \/ p.role = "knob" /\ p.access # "write"
                 \/ \E port \in InstrumentPortFromFalcon(h) :
                      /\ p \in ResolvePort(port, ports)
                      /\ \A q \in ResolvePort(port, ports) : q.name = p.name /\ Target(q) = Target(p)
    /\ reply.kind = "state" => UNION {VoltageStatesResponseFromFalcon(h) : h \in reply.sent} = {state}

\* A setting request that is served acts on the channel its gate is wired to,
\* and only on that, and a value that is read arrives at the client under the
\* port it asked for; a local setting of a base quantity whose script is there
\* and that has the access it takes is never turned away.
SettingsServed ==
    reply.kind \in {"get", "set"} =>
        /\ reply.port.scope = "local" /\ reply.port.gate # NoGate =>
             reply.on \subseteq ChannelsOf(reply.port.gate)
        /\ reply.kind = "get" =>
             UNION {SettingResponseFromFalcon(h) : h \in reply.sent} =
               {{<<port, [value |-> Reported(t), unit |-> reply.port.unit]>>}
                : port \in InstrumentPortFromFalcon(reply.port), t \in reply.on}
        /\ /\ reply.port.scope = "local" /\ reply.port.char \in ScriptedCharacteristics
           /\ <<reply.kind, reply.port.char>> \in cfg.scripts
           /\ reply.kind = "set" => reply.port.access # "read"
           => reply.possible

\* A limit that the configuration accepts can be read: validation lets a
\* minimum or maximum come from the bound of a parameter.
LimitsReadable ==
    reply.kind = "get" /\ reply.port.char \in LimitCharacteristics("min") \cup LimitCharacteristics("max")
      => reply.possible

=============================================================================
