-------------------------- MODULE PortConfiguration --------------------------
(***************************************************************************)
(* From the hub's configuration to the catalogue of connected ports:       *)
(* validation of the instruments and their characteristics, the port       *)
(* library, its connection to the gates of the wiremap, the attributes a   *)
(* client sees and the resolution of a client's port.                      *)
(*                                                                         *)
(* A configuration is a record [gates, wiremap, initial, instruments,      *)
(* scripts]: the connections of the device, what they are wired to, their  *)
(* initial voltages by name, the instruments in the order of the file and  *)
(* the setting scripts that are installed.  An instrument is a record      *)
(*   [name, type, groups, io, ioConfig, commands, chars]                   *)
(* after its config and API files were parsed.  Names that the code builds *)
(* by formatting are tuples of their parts: the IO analog1_voltage of a    *)
(* channel is <<"analog", 1, "voltage">>, a global IO is <<"temperature">>. *)
(* A characteristic is a pair <<quantity, kind>> with kind "base", "min"   *)
(* or "max".  NoName and "" stand for what is left out.                    *)
(***************************************************************************)
EXTENDS FalconMessages, FiniteSets

NoName == << >>

-----------------------------------------------------------------------------
(* Validation                                                              *)

Base(q) == <<q, "base">>
Limits(q) == {<<q, "min">>, <<q, "max">>}
Full(q) == {Base(q)} \cup Limits(q)
FullAll(qs) == UNION {Full(q) : q \in qs}

Quantities == {"sample_rate", "source_voltage", "voltage_ramp_slope", "source_current",
               "current_ramp_slope", "source_frequency", "sink_frequency", "ac_amplitude",
               "number_of_samples", "magnet_strength"}

\* validCharacteristicNames: the identifiers ParseCharacteristic knows.
ParseableCharacteristics == FullAll(Quantities) \cup {Base("temperature")}

\* ValidCharacteristics: what an instrument of a type may have; a clock has none.
ValidCharacteristics ==
    [t \in {"dc_voltage_source", "voltage_source"} |->
        FullAll({"source_voltage", "voltage_ramp_slope"})]
    @@ [t \in {"current_source", "dc_current_source"} |->
        FullAll({"source_current", "current_ramp_slope"})]
    @@ ("hf_voltage_source" :>
        Limits("source_voltage") \cup FullAll({"ac_amplitude", "source_frequency"}))
    @@ ("hf_current_source" :>
        Limits("source_current") \cup FullAll({"ac_amplitude", "source_frequency"}))
    @@ [t \in {"amnmeter", "voltmeter"} |-> FullAll({"sample_rate", "number_of_samples"})]
    @@ ("lockin" :> FullAll({"ac_amplitude", "source_frequency", "sink_frequency",
                             "number_of_samples"}))
    @@ ("magnet" :> Full("magnet_strength"))
    @@ ("thermometer" :> {Base("temperature")})
    @@ ("discrete" :> {Base("number_of_samples")})
    @@ ("fpga" :> FullAll({"sample_rate", "ac_amplitude", "source_frequency",
                           "sink_frequency", "number_of_samples"}))
    @@ ("clock" :> {})

\* validInstrumentTypes and ParseInstrumentType.
InstrumentTypes == DOMAIN ValidCharacteristics

\* Empty: neither a command nor a parameter.
Empty(c) == c.command = "" /\ c.param = NoName

\* findParameter: an IO of that name, else a channel IO with that suffix.
Parameters(inst, name) ==
    IF name \in DOMAIN inst.io THEN {inst.io[name]}
    ELSE {io \in UNION {g.ios : g \in inst.groups} : <<io.suffix>> = name}

\* APIParseCharacteristic.Validate: a reducer goes with a parameter only, and
\* the parameter has the bound the reducer picks.
ValidCommand(inst, c) ==
    /\ c.reducer \in {"", "min", "max"}
    /\ IF c.command # ""
       THEN c.param = NoName /\ c.reducer = "" /\ c.command \in DOMAIN inst.commands
       ELSE \E io \in Parameters(inst, c.param) :
              /\ c.reducer = "min" => io.min # ""
              /\ c.reducer = "max" => io.max # ""

\* InstrumentCharacteristic.Validate.
ValidCharacteristic(inst, c) ==
    /\ c.id \in ParseableCharacteristics
    /\ c.id \in ValidCharacteristics[inst.type]
    /\ ~Empty(c.read) \/ ~Empty(c.write)
    /\ \A cmd \in {c.read, c.write} : Empty(cmd) \/ ValidCommand(inst, cmd)

\* InstrumentConfig.Validate and Resolve; ParseInstrumentConfig refuses a file
\* without an instrument name.
ValidInstrument(inst) ==
    /\ inst.name # ""
    /\ inst.type \in InstrumentTypes
    /\ \A i \in DOMAIN inst.chars : ValidCharacteristic(inst, inst.chars[i])

\* InstrumentServerConfig.Validate.
ValidServer(instruments) ==
    instruments # << >> /\ \A i \in DOMAIN instruments : ValidInstrument(instruments[i])

\* acquireAllDeviceConns: the connections of the device by name.
DeviceConns(cfg) ==
    {[n \in {c[i][2] : i \in DOMAIN c} |-> c[CHOOSE i \in DOMAIN c : c[i][2] = n]]
     : c \in ConnectionsFromFalcon(cfg.gates)}

\* ResolveWiremap: every entry names a connection of the device and gets it.
ResolveWiremap(cfg) ==
    {{[gate |-> conns[w.device], instrument |-> w.instrument, group |-> w.group, channel |-> w.channel]
      : w \in cfg.wiremap}
     : conns \in {c \in DeviceConns(cfg) : \A w \in cfg.wiremap : w.device \in DOMAIN c}}

\* NewZeroState.
ZeroState == [value |-> 0, unit |-> "V"]

\* FindMatchingDeviceNames and DefaultToZero: a voltage for every connection;
\* one for a connection that is not there is refused.
DefaultToZero(cfg) ==
    {cfg.initial @@ [n \in DOMAIN conns |-> ZeroState]
     : conns \in {c \in DeviceConns(cfg) : DOMAIN cfg.initial \subseteq DOMAIN c}}

\* quantityFromConfig: a voltage of the configuration in volts.  The values of
\* the model count microvolts.
QuantityFromConfig(v) ==
    [value |-> v.value * (CASE v.unit = "V" -> 1000000 [] v.unit = "mV" -> 1000 [] OTHER -> 1), unit |-> "V"]

\* buildInitialDeviceVoltageState: the wired gates only.
InitialDeviceVoltageState(wiremap, voltages) ==
    [g \in {w.gate : w \in wiremap} |-> [gate |-> g] @@ QuantityFromConfig(voltages[g[2]])]

\* Validate: the hub's configuration.
ValidConfig(cfg) ==
    ResolveWiremap(cfg) # {} /\ ValidServer(cfg.instruments) /\ DefaultToZero(cfg) # {}

-----------------------------------------------------------------------------
(* The port library                                                        *)

\* ParseIORole and portAttributesFromRole: port type and access of a role.
RoleAttributes ==
    [r \in {"output", "trigger-out", "clock-out"} |-> <<"knob", "write">>]
    @@ [r \in {"input", "trigger-in", "clock-in"} |-> <<"meter", "read">>]
    @@ ("inout" :> <<"knob", "readwrite">>)
    @@ ("setting" :> <<"setting", "readwrite">>)

\* addIOPort: the entry of an IO, or a reason to give up.  The scope is left
\* at its zero value, which is local.
IoEntryOK(inst, io) ==
    /\ io.role \in DOMAIN RoleAttributes
    /\ (IF io.name \in DOMAIN inst.ioConfig THEN inst.ioConfig[io.name] ELSE io.unit) \in KnownUnits
IoEntry(inst, group, channel, io) ==
    [instrument |-> inst.name, type |-> inst.type, group |-> group, channel |-> channel,
     role |-> RoleAttributes[io.role][1], access |-> RoleAttributes[io.role][2],
     scope |-> "local", char |-> NoName,
     unit |-> IF io.name \in DOMAIN inst.ioConfig THEN inst.ioConfig[io.name] ELSE io.unit]

\* buildExpandedIONames: the IO names the channel groups stand for.
ExpandedNames(inst) ==
    UNION {{<<g.name, c, io.suffix>> : c \in g.min..g.max, io \in g.ios} : g \in inst.groups}

\* parameterLocation compares with the channel parameters of the groups.
ParameterLocation(inst, name) ==
    IF \E g \in inst.groups : g.param = name
    THEN (CHOOSE g \in inst.groups : g.param = name).name ELSE ""

\* commandLocation: the channel group of a command, "" for a global one.
CommandLocation(inst, command) == inst.commands[command]

\* characteristicLocation: the first of the commands and parameters that is
\* given decides.
Location(inst, c) ==
    IF c.read.command # "" THEN CommandLocation(inst, c.read.command)
    ELSE IF c.write.command # "" THEN CommandLocation(inst, c.write.command)
    ELSE ParameterLocation(inst, IF c.read.param # NoName THEN c.read.param ELSE c.write.param)

\* characteristicAccess.
CharacteristicAccess(c) ==
    CASE Empty(c.write) -> "read" [] Empty(c.read) -> "write" [] OTHER -> "readwrite"

\* characteristicTypes: the unit of a base quantity; there is none for the
\* slope of a current.
CharacteristicUnits ==
    [q \in {"sample_rate", "source_frequency", "sink_frequency"} |-> "Hz"]
    @@ [q \in {"source_voltage", "ac_amplitude"} |-> "V"]
    @@ ("voltage_ramp_slope" :> "VoltsPerSecond") @@ ("source_current" :> "A")
    @@ ("number_of_samples" :> "") @@ ("temperature" :> "K") @@ ("magnet_strength" :> "T")

\* getUnitMatchingCharacteristic: the units a characteristic can have, none
\* when the library cannot be built with it.
Units(inst, c) ==
    LET param == IF c.read.param # NoName THEN c.read.param ELSE c.write.param
    IN  IF c.id[1] = "current_ramp_slope" THEN {}
        ELSE IF c.id[2] = "base" THEN {CharacteristicUnits[c.id[1]]}
        ELSE {io.unit : io \in Parameters(inst, param)} \cap KnownUnits

\* The entry of a characteristic, on a channel or, with group "", global.
CharacteristicEntry(inst, c, group, channel) ==
    [instrument |-> inst.name, type |-> inst.type, group |-> group, channel |-> channel,
     role |-> "setting", access |-> CharacteristicAccess(c),
     scope |-> IF group = "" THEN "global" ELSE "local",
     char |-> c.id, unit |-> CHOOSE u \in Units(inst, c) : TRUE]

Channels(inst, group) == UNION {g.min..g.max : g \in {h \in inst.groups : h.name = group}}

\* What BuildPortLibrary adds for one instrument, with where it comes from:
\* the channel IOs, the IOs that are not expanded ones, the characteristics.
ChannelPorts(inst) ==
    UNION {{[name |-> <<inst.name, g.name, c, io.suffix>>, from |-> <<"channel", g.name>>,
             entry |-> IoEntry(inst, g.name, c, io)]
            : c \in g.min..g.max, io \in g.ios} : g \in inst.groups}
GlobalPorts(inst) ==
    {[name |-> <<inst.name>> \o n, from |-> <<"global">>,
      entry |-> IoEntry(inst, "", 0, inst.io[n])] : n \in DOMAIN inst.io \ ExpandedNames(inst)}
CharacteristicPorts(inst) ==
    UNION {LET c == inst.chars[i]
               g == Location(inst, c)
           IN  IF g = ""
               THEN {[name |-> <<inst.name, "characteristic">> \o c.id, from |-> <<"char", i>>,
                      entry |-> CharacteristicEntry(inst, c, "", 0)]}
               ELSE {[name |-> <<inst.name, "characteristic", g, ch>> \o c.id, from |-> <<"char", i>>,
                      entry |-> CharacteristicEntry(inst, c, g, ch)] : ch \in Channels(inst, g)}
           : i \in DOMAIN inst.chars}

\* BuildPortLibrary gives up: a group without name or with no channel, an IO
\* without suffix or with an unknown role or unit, an expanded IO that is not
\* listed, a characteristic without unit or with an unknown group.
InstrumentFails(inst) ==
    \/ \E g \in inst.groups :
         \/ g.name = "" \/ g.min > g.max
         \/ \E io \in g.ios : io.suffix = "" \/ ~IoEntryOK(inst, io)
    \/ ~(ExpandedNames(inst) \subseteq DOMAIN inst.io)
    \/ \E n \in DOMAIN inst.io \ ExpandedNames(inst) : n = NoName \/ ~IoEntryOK(inst, inst.io[n])
    \/ \E i \in DOMAIN inst.chars :
         \/ Units(inst, inst.chars[i]) = {}
         \/ Location(inst, inst.chars[i]) \notin {""} \cup {g.name : g \in inst.groups}

Additions(instruments) ==
    UNION {{[p EXCEPT !.from = <<i>> \o p.from]
            : p \in ChannelPorts(instruments[i]) \cup GlobalPorts(instruments[i])
                                                 \cup CharacteristicPorts(instruments[i])}
           : i \in DOMAIN instruments}

\* addPort: a name that is there already ends the construction, except that
\* a global IO is then skipped.
LibraryFails(instruments) ==
    \/ \E i \in DOMAIN instruments : InstrumentFails(instruments[i])
    \/ \E p, q \in Additions(instruments) :
         p.name = q.name /\ p.from # q.from /\ ~(p.from[2] = "global" /\ q.from[2] = "global")

\* BuildPortLibrary: entries by port name, the first one of a global IO.
BuildPortLibrary(instruments) ==
    LET added == Additions(instruments)
        First(n) == CHOOSE p \in added :
                      p.name = n /\ \A q \in added : q.name = n => p.from[1] <= q.from[1]
    IN  [n \in {p.name : p \in added} |-> First(n).entry]

-----------------------------------------------------------------------------
(* Connection and resolution                                               *)

Connected(name, entry, gate) ==
    [name |-> name, gate |-> gate, instrument |-> entry.instrument, type |-> entry.type,
     group |-> entry.group, channel |-> entry.channel, role |-> entry.role,
     access |-> entry.access, scope |-> entry.scope, char |-> entry.char, unit |-> entry.unit]

Wired(w, entry) ==
    entry.instrument = w.instrument /\ entry.group = w.group /\ entry.channel = w.channel

\* Mutant: a port is wired to every gate of its instrument.
ConnectWireMapByInstrument(wiremap, lib) ==
    (UNION {{Connected(n, lib[n], w.gate) : n \in {m \in DOMAIN lib : lib[m].instrument = w.instrument}}
            : w \in wiremap})
    \cup {Connected(n, lib[n], NoGate)
          : n \in {m \in DOMAIN lib : \A w \in wiremap : lib[m].instrument # w.instrument}}

\* ConnectWireMap: a port of a wired channel once for every entry of its
\* channel, every other port without gate.
ConnectWireMap(wiremap, lib) ==
    (UNION {{Connected(n, lib[n], w.gate) : n \in {m \in DOMAIN lib : Wired(w, lib[m])}}
            : w \in wiremap})
    \cup {Connected(n, lib[n], NoGate)
          : n \in {m \in DOMAIN lib : \A w \in wiremap : ~Wired(w, lib[m])}}

\* newConnectedPortsFromConnections: the parts of the catalogue.
Knobs(ports) == {p \in ports : p.role = "knob"}
Meters(ports) == {p \in ports : p.role = "meter"}
Settings(ports) == {p \in ports : p.role = "setting"}

\* Mutant: the name of the port is not compared.
MatchesPortNoName(p, port) ==
    /\ p.instrument = port.instrument
    /\ p.char = port.char /\ p.type = port.type /\ p.role = port.role
    /\ p.access = port.access /\ p.scope = port.scope /\ p.unit = port.unit

\* matchesPort: what a client's port has to agree with.
MatchesPort(p, port) ==
    /\ p.instrument = port.instrument /\ p.name = port.name
    /\ p.char = port.char /\ p.type = port.type /\ p.role = port.role
    /\ p.access = port.access /\ p.scope = port.scope /\ p.unit = port.unit

\* ResolvePort and PortExists: a match with the client's gate, any match when
\* the client names none; nil ports (an empty set) resolve nothing.
ResolvePort(port, ports) ==
    {p \in ports : MatchesPort(p, port) /\ (port.gate = NoGate \/ p.gate = port.gate)}
PortExists(port, ports) == ResolvePort(port, ports) # {}

\* InstrumentPortFromConnectedPort: the client's view of a connected port.
InstrumentPort(p) ==
    [name |-> p.name, gate |-> p.gate, instrument |-> p.instrument, type |-> p.type,
     role |-> p.role, access |-> p.access, scope |-> p.scope, char |-> p.char, unit |-> p.unit]

\* NewKnob, NewMeter and NewSetting of falcon-core (external): a setting keeps
\* its attributes, a knob and a meter get the ones their kind implies.
NewKnob(p) == [InstrumentPort(p) EXCEPT !.access = "write", !.scope = "local", !.char = NoName]
NewMeter(p) == [InstrumentPort(p) EXCEPT !.access = "read", !.scope = "local", !.char = NoName]
NewSetting(p) == InstrumentPort(p)

\* serializePortsToCerealJSON and handlePortRequest: the handles PORT_PAYLOAD
\* advertises.
Advertised(p) == CASE p.role = "knob" -> NewKnob(p)
                   [] p.role = "meter" -> NewMeter(p)
                   [] OTHER -> NewSetting(p)

-----------------------------------------------------------------------------
(* Getters and setters of the setting router                               *)

\* Target and Target.Serialize: the channel a port stands for; without a
\* channel group there is no serialized form.
Target(p) == <<p.instrument, p.group, p.channel>>
Serializable(t) == t[1] # "" /\ t[2] # ""

\* getterCharacteristicDefinitions and setterCharacteristicDefinitions: the
\* characteristics with a script.
ScriptedCharacteristics == {Base(q) : q \in Quantities \cup {"temperature"}}

\* BuildInstrumentMetadata: the validated instrument behind a port.
MetadataOf(port, instruments) ==
    {instruments[i] : i \in {j \in DOMAIN instruments : instruments[j].name = port.instrument}}

\* findCharacteristic: the first characteristic of the port's kind.
FindCharacteristic(port, inst) ==
    LET hits == {i \in DOMAIN inst.chars : inst.chars[i].id = port.char}
    IN  {inst.chars[i] : i \in {j \in hits : \A k \in hits : j <= k}}

\* minCharacteristics and maxCharacteristics.
LimitCharacteristics(kind) == {<<q, kind>> : q \in Quantities}

Bound(io, kind) == IF kind = "min" THEN io.min ELSE io.max

\* resolveLimitCharacteristic: the limits a min or max getter can read.
ResolveLimit(port, instruments, ports, kind) ==
    IF PortExists(port, ports) /\ port.access \in {"read", "readwrite"}
       /\ port.char \in LimitCharacteristics(kind)
    THEN UNION {{inst.io[c.read.param]
                 : c \in {d \in FindCharacteristic(port, inst) :
                            /\ d.read.command # "" /\ d.read.reducer = kind
                            /\ d.read.param \in DOMAIN inst.io
                            /\ Bound(inst.io[d.read.param], kind) # ""
                            /\ inst.io[d.read.param].unit \in KnownUnits}}
                : inst \in MetadataOf(port, instruments)}
    ELSE {}

\* CanGet of MinCharacteristicGetter and MaxCharacteristicGetter.
LimitCanGet(port, instruments, ports, kind) == ResolveLimit(port, instruments, ports, kind) # {}

\* getLimitQuantity: the bound is parsed as a number.
LimitGets(port, instruments, ports, kind) ==
    \E io \in ResolveLimit(port, instruments, ports, kind) : Bound(io, kind) = "number"

\* MeasurementCharacteristicGetter.CanGet: the access is not looked at.
MeasurementCanGet(port, instruments, ports, scripts) ==
    /\ PortExists(port, ports) /\ port.char \in ScriptedCharacteristics
    /\ MetadataOf(port, instruments) # {} /\ <<"get", port.char>> \in scripts

\* MeasurementCharacteristicSetter.CanSet.
MeasurementCanSet(port, ports, scripts) ==
    /\ PortExists(port, ports) /\ port.access \in {"write", "readwrite"}
    /\ port.char \in ScriptedCharacteristics /\ <<"set", port.char>> \in scripts

\* Router.get: the first getter that can, in the order of registration.
GetterFor(port, cfg, ports) ==
    CASE LimitCanGet(port, cfg.instruments, ports, "min") -> "min"
      [] LimitCanGet(port, cfg.instruments, ports, "max") -> "max"
      [] MeasurementCanGet(port, cfg.instruments, ports, cfg.scripts) -> "measurement"
      [] OTHER -> "nobody"

\* Router.set: the one setter, if it can.
SetterFor(port, cfg, ports) ==
    IF MeasurementCanSet(port, ports, cfg.scripts) THEN "measurement" ELSE "nobody"

\* decodeSingleFloat and decodeSingleInt: the first return whose unit is
\* exactly the port's; returns are [unit, kind].
Decodable(returns, port) ==
    \E i \in DOMAIN returns :
        /\ returns[i].unit = port.unit
        /\ IF port.char = Base("number_of_samples") THEN returns[i].kind = "int"
                                                    ELSE returns[i].kind = "float"

=============================================================================
