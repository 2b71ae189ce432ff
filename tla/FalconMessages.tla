---------------------------- MODULE FalconMessages ----------------------------
(***************************************************************************)
(* The conversions between the objects of falcon-core, which clients and   *)
(* files exchange, and the hub's own types.                                *)
(*                                                                         *)
(* A handle of falcon-core is a function from its accessors to what they   *)
(* return; an accessor that raises an error is not in the domain.  A       *)
(* conversion of the code returns a value and an error: here it is the set *)
(* of the values it can return, empty when it fails.  Strings that are     *)
(* only passed on (messages, descriptions, titles) are left out.           *)
(***************************************************************************)
EXTENDS Integers, Sequences

\* Maps of one entry, and one map laid over another.
k :> v == [x \in {k} |-> v]
f @@ g == [x \in DOMAIN f \cup DOMAIN g |-> IF x \in DOMAIN f THEN f[x] ELSE g[x]]

Only(S) == CHOOSE x \in S : TRUE
Read(h, accessor) == IF accessor \in DOMAIN h THEN {h[accessor]} ELSE {}
Then(S, Convert(_)) == UNION {Convert(x) : x \in S}

\* The first item that fails ends the conversion of a list.
Each(Convert(_), s) ==
    IF \E i \in DOMAIN s : Convert(s[i]) = {} THEN {}
    ELSE {[i \in DOMAIN s |-> Only(Convert(s[i]))]}

-----------------------------------------------------------------------------
(* Units, connections and ports                                            *)

\* symbolToUnit: the units the configurations here use, written as their
\* symbol; volts per second has no symbol of that form.
KnownUnits == {"V", "mV", "A", "Hz", "K", "T", "VoltsPerSecond", ""}
SymbolToUnit(s) == {s} \cap KnownUnits

\* NewSymbolUnit has a case for every unit SymbolToUnit returns.
NewSymbolUnit(u) == {u} \cap KnownUnits

\* A connection is <<type, name>>; its zero value is a barrier gate without name.
ConnectionTypes == {"barrier", "plunger", "reservoir", "screening", "ohmic"}
NoGate == <<"barrier", "">>

NewFalconConnection(c) == IF c[1] \in ConnectionTypes THEN {c} ELSE {}
ConnectionFromFalcon(h) == IF h[1] \in ConnectionTypes THEN {h} ELSE {}
ConnectionsFromFalcon(h) == Each(ConnectionFromFalcon, h)

NewFalconQuantity(q) == {[value |-> q.value, unit |-> u] : u \in NewSymbolUnit(q.unit)}
QuantityFromFalcon(h) ==
    {[value |-> v, unit |-> u] : v \in Read(h, "value"), u \in Then(Read(h, "unit"), SymbolToUnit)}

PortFields == {"name", "instrument", "type", "role", "access", "scope", "char", "unit"}

\* NewFalconInstrumentPort: a connection that cannot be built is left out.
NewFalconInstrumentPort(p) ==
    {[f \in PortFields |-> p[f]] @@ (IF NewFalconConnection(p.gate) = {} THEN << >> ELSE ("gate" :> p.gate))
     : u \in NewSymbolUnit(p.unit)}

\* InstrumentPortFromFalcon: only a local port has a connection to read, and
\* a connection that is read must have a known type.
InstrumentPortFromFalcon(h) ==
    IF ~(PortFields \subseteq DOMAIN h) THEN {}
    ELSE {[f \in PortFields |-> h[f]] @@ ("gate" :> c)
          : u \in SymbolToUnit(h.unit),
            c \in IF h.scope = "local" THEN Then(Read(h, "gate"), ConnectionFromFalcon) ELSE {NoGate}}

PortsFromFalcon(h) == Each(InstrumentPortFromFalcon, h)

-----------------------------------------------------------------------------
(* Waveforms                                                               *)

DomainFields == {"lo", "hi", "loIn", "hiIn"}
DomainFromFalcon(h) ==
    IF DomainFields \subseteq DOMAIN h THEN {[f \in DomainFields |-> h[f]]} ELSE {}
NewFalconDomain(d) == {[f \in DomainFields |-> d[f]]}

\* DiscretizerFromFalcon: cartesian first, then polar, else unknown.
DiscretizerFromFalcon(h) ==
    {[type |-> t, delta |-> d] : t \in Read(h, "type") \cap {"cartesian", "polar"},
                                 d \in Read(h, "delta")}

\* A labelled domain: a port and, through the same handle, a domain.
LabelledDomainFromFalcon(h) ==
    {[port |-> p, domain |-> d] : p \in Then(Read(h, "port"), InstrumentPortFromFalcon),
                                  d \in DomainFromFalcon(h)}
NewFalconLabelledDomain(l) ==
    {("port" :> p) @@ d : p \in NewFalconInstrumentPort(l.port), d \in NewFalconDomain(l.domain)}

CoupledLabelledDomainFromFalcon(h) == Each(LabelledDomainFromFalcon, h)
NewFalconCoupledLabelledDomain(c) == Each(NewFalconLabelledDomain, c)
AxesCoupledLabelledDomainFromFalcon(h) == Each(CoupledLabelledDomainFromFalcon, h)
NewFalconAxesCoupledLabelledDomain(a) == Each(NewFalconCoupledLabelledDomain, a)

\* IncreasingFromFalcon: per axis a list of pairs becomes a map, the last
\* pair of a connection stays.
PairsToMap(pairs) ==
    LET Last(k) == CHOOSE i \in DOMAIN pairs :
                     pairs[i][1] = k /\ \A j \in DOMAIN pairs : pairs[j][1] = k => j <= i
    IN  [k \in {pairs[i][1] : i \in DOMAIN pairs} |-> pairs[Last(k)][2]]
IncreasingFromFalcon(h) == {[i \in DOMAIN h |-> PairsToMap(h[i])]}

UnitSpaceFromFalcon(h) ==
    {[axes |-> a, domain |-> d]
     : a \in Then(Read(h, "items"), LAMBDA s : Each(DiscretizerFromFalcon, s)),
       d \in Then(Read(h, "domain"), DomainFromFalcon)}

DiscreteSpaceFromFalcon(h) ==
    {[space |-> s, axes |-> a, increasing |-> i]
     : s \in Then(Read(h, "space"), UnitSpaceFromFalcon),
       a \in Then(Read(h, "axes"), AxesCoupledLabelledDomainFromFalcon),
       i \in Then(Read(h, "increasing"), IncreasingFromFalcon)}

\* The functions of a transform stay with their handle: only the port is read.
PortTransformFromFalcon(h) == {[port |-> p] : p \in Then(Read(h, "port"), InstrumentPortFromFalcon)}
PortTransformsFromFalcon(h) == Each(PortTransformFromFalcon, h)

WaveformFromFalcon(h) ==
    {[space |-> s, transforms |-> t]
     : s \in Then(Read(h, "space"), DiscreteSpaceFromFalcon),
       t \in Then(Read(h, "transforms"), PortTransformsFromFalcon)}
WaveformsFromFalcon(h) == Each(WaveformFromFalcon, h)

MeterTransformsFromFalcon(h) ==
    {PairsToMap(m) : m \in Each(LAMBDA pair : {<<k, v>> : k \in InstrumentPortFromFalcon(pair[1]),
                                                         v \in PortTransformFromFalcon(pair[2])}, h)}

MeasurementRequestFromFalcon(h) ==
    {[waveforms |-> w, getters |-> g, meterTransforms |-> m, timeDomain |-> t]
     : w \in Then(Read(h, "waveforms"), WaveformsFromFalcon),
       g \in Then(Read(h, "getters"), PortsFromFalcon),
       m \in Then(Read(h, "meterTransforms"), MeterTransformsFromFalcon),
       t \in Then(Read(h, "timeDomain"), LabelledDomainFromFalcon)}

-----------------------------------------------------------------------------
(* Arrays and answers                                                      *)

ArrayFields == {"data", "shape"}
ControlArrayFromFalcon(h) == IF ArrayFields \subseteq DOMAIN h THEN {[f \in ArrayFields |-> h[f]]} ELSE {}
AxesControlArrayFromFalcon(h) == Each(ControlArrayFromFalcon, h)
NewFalconControlArray(a) == {[f \in ArrayFields |-> a[f]]}
NewFalconAxesControlArray(a) == Each(NewFalconControlArray, a)
MeasuredArrayFromFalcon(h) == ControlArrayFromFalcon(h)
NewFalconMeasuredArray(a) == {[f \in ArrayFields |-> a[f]]}

\* The context of an array: its connection, unit and type of instrument; here
\* a connection that cannot be built is an error.
NewFalconAcquisitionContext(c) ==
    {[gate |-> g, unit |-> u, type |-> c.type] : g \in NewFalconConnection(c.gate), u \in NewSymbolUnit(c.unit)}
AcquisitionContextFromFalcon(h) ==
    {[gate |-> g, unit |-> u, type |-> t] : g \in Then(Read(h, "gate"), ConnectionFromFalcon),
                                            u \in Then(Read(h, "unit"), SymbolToUnit), t \in Read(h, "type")}

NewFalconLabelledMeasuredArray(l) ==
    {c @@ a : c \in NewFalconAcquisitionContext(l), a \in NewFalconMeasuredArray(l)}
LabelledMeasuredArrayFromFalcon(h) ==
    {c @@ a : c \in AcquisitionContextFromFalcon(h), a \in MeasuredArrayFromFalcon(h)}
NewFalconLabelledMeasuredArrays(l) == Each(NewFalconLabelledMeasuredArray, l)
LabelledMeasuredArraysFromFalcon(h) == Each(LabelledMeasuredArrayFromFalcon, h)

\* The answer to a measurement; its message is not handed to falcon-core.
NewFalconMeasurementResponse(m) == {[arrays |-> a] : a \in NewFalconLabelledMeasuredArrays(m.arrays)}
MeasurementResponseFromFalcon(h) ==
    {[arrays |-> a] : a \in Then(Read(h, "arrays"), LabelledMeasuredArraysFromFalcon)}

\* A stored measurement; metadata is the map from gates to voltages.
NewFalconMetadata(m) == {{<<k, m[k]>> : k \in DOMAIN m}}
MetadataFromFalcon(h) == {[k \in {p[1] : p \in h} |-> Only({p[2] : p \in {q \in h : q[1] = k}})]}
NewFalconDatabaseEntry(d) ==
    {[shape |-> d.shape, unitDomain |-> u, labels |-> l, ranges |-> r, metadata |-> m]
     : u \in NewFalconAxesControlArray(d.unitDomain), l \in NewFalconAxesCoupledLabelledDomain(d.labels),
       r \in NewFalconLabelledMeasuredArrays(d.ranges), m \in NewFalconMetadata(d.metadata)}
DatabaseEntryFromFalcon(h) ==
    {[shape |-> h.shape, unitDomain |-> u, labels |-> l, ranges |-> r, metadata |-> m]
     : u \in AxesControlArrayFromFalcon(h.unitDomain), l \in AxesCoupledLabelledDomainFromFalcon(h.labels),
       r \in LabelledMeasuredArraysFromFalcon(h.ranges), m \in MetadataFromFalcon(h.metadata)}

-----------------------------------------------------------------------------
(* Settings and voltage states                                             *)

\* A request for settings: pairs become a map from ports to quantities.
SettingRequestFromFalcon(h) ==
    {[setters |-> PairsToMap(s), getters |-> g]
     : s \in Then(Read(h, "setters"),
                  LAMBDA pairs : Each(LAMBDA pair : {<<k, q>> : k \in InstrumentPortFromFalcon(pair[1]),
                                                               q \in QuantityFromFalcon(pair[2])}, pairs)),
       g \in Then(Read(h, "getters"), PortsFromFalcon)}

\* The answer: one pair per port.
NewFalconSettingResponse(s) ==
    IF \E p \in DOMAIN s : NewFalconInstrumentPort(p) = {} \/ NewFalconQuantity(s[p]) = {} THEN {}
    ELSE {[getters |-> {<<Only(NewFalconInstrumentPort(p)), Only(NewFalconQuantity(s[p]))>> : p \in DOMAIN s}]}
SettingResponseFromFalcon(h) ==
    IF \E x \in h.getters : InstrumentPortFromFalcon(x[1]) = {} \/ QuantityFromFalcon(x[2]) = {} THEN {}
    ELSE {{<<Only(InstrumentPortFromFalcon(x[1])), Only(QuantityFromFalcon(x[2]))>> : x \in h.getters}}

NewFalconDeviceVoltageState(d) ==
    {[gate |-> c] @@ q : c \in NewFalconConnection(d.gate), q \in NewFalconQuantity(d)}

DeviceVoltageStateFromFalcon(h) ==
    {[gate |-> c] @@ q : q \in QuantityFromFalcon(h), c \in Then(Read(h, "gate"), ConnectionFromFalcon)}

\* A map by name of connection goes out as a list and is read back by the
\* names in the list.
NewFalconDeviceVoltageStates(states) ==
    IF \E g \in DOMAIN states : NewFalconDeviceVoltageState(states[g]) = {} THEN {}
    ELSE {{Only(NewFalconDeviceVoltageState(states[g])) : g \in DOMAIN states}}
DeviceVoltageStatesFromFalcon(h) ==
    IF \E s \in h : DeviceVoltageStateFromFalcon(s) = {} THEN {}
    ELSE {[g \in {s.gate : s \in h} |-> Only(DeviceVoltageStateFromFalcon(Only({s \in h : s.gate = g})))]}

NewFalconVoltageStateResponse(states) == {[states |-> s] : s \in NewFalconDeviceVoltageStates(states)}
VoltageStatesResponseFromFalcon(h) == Then(Read(h, "states"), DeviceVoltageStatesFromFalcon)

=============================================================================
