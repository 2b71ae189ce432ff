---------------------- MODULE CartesianMeasurementProofs ----------------------
(***************************************************************************)
(* What the hub tells about its ports and voltages can be used, a setting  *)
(* acts on the channel its gate is wired to, no limit can be read, and a   *)
(* measurement that is answered is the grid the client asked for, complete *)
(* and in order, for every configuration, any requests and any scripts.    *)
(*                                                                         *)
(* The catalogue: whatever passes validation gives ports that are sound (a *)
(* known unit, a known kind of connection, a wire behind the gate), and    *)
(* the conversions give back a sound port as it was.  Measurements only    *)
(* touch the device state.                                                 *)
(*                                                                         *)
(* The answers: a request that is read and accepted means the client's     *)
(* grid; while its scripts run, every channel has the samples of the       *)
(* leaves that ran, in order (GridInv); when the last one has run they     *)
(* average to the grid (Measured), and the arrays, the answer and the      *)
(* file are written and read back as they are.                             *)
(***************************************************************************)
EXTENDS CartesianMeasurement, MeasurementPlanProofs

\* What a library entry, and so a connected port, is after validation: units
\* are known, roles imply their attributes, a scripted characteristic that is
\* local has a channel group, a global one has none, and the instrument is one
\* of the configuration.
Sound(e, instruments) ==
    /\ e.unit \in KnownUnits
    /\ e.scope \in {"local", "global"}
    /\ e.role \in {"knob", "meter", "setting"}
    /\ e.role # "setting" => e.scope = "local" /\ e.char = NoName
    /\ e.role = "meter" => e.access = "read"
    /\ e.role = "setting" => e.access \in {"read", "write", "readwrite"}
    /\ e.scope = "local" /\ e.char \in ScriptedCharacteristics => e.group # ""
    /\ e.scope = "global" => e.group = ""
    /\ e.instrument # ""
    /\ \E i \in DOMAIN instruments : instruments[i].name = e.instrument

\* The catalogue: sound ports, each with the gate of a wire to its channel or
\* with none, and ports of one name on one channel.
Catalogued ==
    /\ \A p \in ports :
          /\ Sound(p, cfg.instruments)
          /\ p.gate[1] \in ConnectionTypes
          /\ p.gate = NoGate \/ \E w \in wiremap : w.gate = p.gate /\ Wired(w, p)
    /\ \A p, q \in ports : p.name = q.name => Target(p) = Target(q)

\* The device state: every wired gate has a voltage, under its own name.
Voltages ==
    /\ \A w \in wiremap : w.gate \in DOMAIN state
    /\ state = [g \in DOMAIN state |-> [gate |-> g, value |-> state[g].value, unit |-> state[g].unit]]
    /\ \A g \in DOMAIN state : g[1] \in ConnectionTypes /\ state[g].unit \in KnownUnits

\* An answer is kept only while the hub waits for the next request.
Waiting == stage # "idle" => reply = None

IInv ==
    /\ cfg \in Configs
    /\ Waiting
    /\ stage \notin {"load", "rejected"} => Catalogued /\ Voltages
    /\ RepliesReadBack
    /\ SettingsServed

-----------------------------------------------------------------------------
(* Ports there and back.                                                   *)

\* What the hub reads when a client sends back the handle of a port: the port,
\* a knob as write only, a global port without gate.
Client(p) ==
    [name |-> p.name, gate |-> IF p.scope = "local" THEN p.gate ELSE NoGate,
     instrument |-> p.instrument, type |-> p.type, role |-> p.role,
     access |-> IF p.role = "knob" THEN "write" ELSE p.access,
     scope |-> p.scope, char |-> p.char, unit |-> p.unit]

\* Two functions that agree with a third, which has their domains, make it:
\* how records are put together from their parts.
LEMMA Merged ==
    ASSUME NEW f, NEW g, NEW whole, NEW S,
           whole = [x \in S |-> whole[x]], S = DOMAIN f \cup DOMAIN g,
           \A x \in DOMAIN f : f[x] = whole[x],
           \A x \in DOMAIN g : g[x] = whole[x]
    PROVE  f @@ g = whole
<1> DEFINE v(x) == IF x \in DOMAIN f THEN f[x] ELSE g[x]
<1>1. f @@ g = [x \in S |-> v(x)]
  BY Zenon DEF @@
<1>2. \A x \in S : v(x) = whole[x]
  <2>1. ASSUME NEW x \in S, x \in DOMAIN f
        PROVE  v(x) = whole[x]
    BY <2>1
  <2>2. ASSUME NEW x \in S, x \notin DOMAIN f
        PROVE  v(x) = whole[x]
    BY <2>2
  <2> QED
    BY <2>1, <2>2, Zenon
<1> HIDE DEF v
<1> QED
  BY <1>1, <1>2, Zenon

\* What a merged function is at a point.
LEMMA MergedAt ==
    ASSUME NEW f, NEW g
    PROVE  /\ DOMAIN (f @@ g) = DOMAIN f \cup DOMAIN g
           /\ \A x \in DOMAIN f : (f @@ g)[x] = f[x]
           /\ \A x \in DOMAIN g : x \notin DOMAIN f => (f @@ g)[x] = g[x]
  BY Zenon DEF @@

\* A function of one point.
LEMMA Single ==
    ASSUME NEW k, NEW v
    PROVE  DOMAIN (k :> v) = {k} /\ (k :> v)[k] = v
  BY Zenon DEF :>

\* The handle of a sound port: falcon-core's constructors keep everything but
\* the access of a knob.
LEMMA AdvertisedSound ==
    ASSUME NEW p, NEW instruments, Sound(p, instruments)
    PROVE  Advertised(p) =
             [name |-> p.name, gate |-> p.gate, instrument |-> p.instrument, type |-> p.type,
              role |-> p.role, access |-> IF p.role = "knob" THEN "write" ELSE p.access,
              scope |-> p.scope, char |-> p.char, unit |-> p.unit]
<1>1. CASE p.role = "knob"
  <2>1. p.scope = "local" /\ p.char = NoName
    BY <1>1 DEF Sound
  <2> QED
    BY <1>1, <2>1 DEF Advertised, NewKnob, InstrumentPort
<1>2. CASE p.role = "meter"
  <2>1. p.scope = "local" /\ p.char = NoName /\ p.access = "read"
    BY <1>2 DEF Sound
  <2> QED
    BY <1>2, <2>1 DEF Advertised, NewMeter, InstrumentPort
<1>3. CASE p.role \notin {"knob", "meter"}
  <2>1. Advertised(p) = NewSetting(p)
    BY <1>3 DEF Advertised
  <2> QED
    BY <1>3, <2>1 DEF NewSetting, InstrumentPort
<1> QED
  BY <1>1, <1>2, <1>3

\* The fields of a port and its connection make the port.
LEMMA PortOfFields ==
    ASSUME NEW h, NEW c
    PROVE  [f \in PortFields |-> h[f]] @@ ("gate" :> c) =
             [name |-> h.name, gate |-> c, instrument |-> h.instrument, type |-> h.type,
              role |-> h.role, access |-> h.access, scope |-> h.scope, char |-> h.char,
              unit |-> h.unit]
<1> DEFINE f == [x \in PortFields |-> h[x]]
           g == "gate" :> c
           whole == [name |-> h.name, gate |-> c, instrument |-> h.instrument, type |-> h.type,
                     role |-> h.role, access |-> h.access, scope |-> h.scope, char |-> h.char,
                     unit |-> h.unit]
           S == PortFields \cup {"gate"}
<1>1. whole = [x \in S |-> whole[x]]
  BY DEF PortFields
<1>2. \A x \in PortFields : f[x] = whole[x]
  BY DEF PortFields
<1>3. DOMAIN g = {"gate"} /\ g["gate"] = whole["gate"]
  BY Single
<1>4. f @@ g = whole
  <2>1. DOMAIN f = PortFields
    OBVIOUS
  <2> HIDE DEF f, g, whole
  <2> QED
    BY <1>1, <1>2, <1>3, <2>1, Merged
<1> QED
  BY <1>4, Zenon

\* The port of a handle, part by part: nothing is lost that is known.
LEMMA PortOfRecord ==
    ASSUME NEW h, h.unit \in KnownUnits, h.gate[1] \in ConnectionTypes,
           h = [name |-> h.name, gate |-> h.gate, instrument |-> h.instrument, type |-> h.type,
                role |-> h.role, access |-> h.access, scope |-> h.scope, char |-> h.char,
                unit |-> h.unit]
    PROVE  InstrumentPortFromFalcon(h) =
             {[name |-> h.name, gate |-> IF h.scope = "local" THEN h.gate ELSE NoGate,
               instrument |-> h.instrument, type |-> h.type, role |-> h.role,
               access |-> h.access, scope |-> h.scope, char |-> h.char, unit |-> h.unit]}
<1>1. DOMAIN h = PortFields \cup {"gate"}
  BY DEF PortFields
<1>2. SymbolToUnit(h.unit) = {h.unit}
  BY DEF SymbolToUnit
<1>3. Then(Read(h, "gate"), ConnectionFromFalcon) = {h.gate}
  BY <1>1 DEF Then, Read, ConnectionFromFalcon
<1> DEFINE c == IF h.scope = "local" THEN h.gate ELSE NoGate
<1>4. InstrumentPortFromFalcon(h) = {[f \in PortFields |-> h[f]] @@ ("gate" :> c)}
  BY <1>1, <1>2, <1>3 DEF InstrumentPortFromFalcon
<1> HIDE DEF c
<1>5. [f \in PortFields |-> h[f]] @@ ("gate" :> c) =
        [name |-> h.name, gate |-> c, instrument |-> h.instrument, type |-> h.type,
         role |-> h.role, access |-> h.access, scope |-> h.scope, char |-> h.char,
         unit |-> h.unit]
  BY PortOfFields
<1> QED
  BY <1>4, <1>5, Zenon DEF c

\* A client that sends a port back sends the port it was told about.
LEMMA ReadBack ==
    ASSUME NEW p, NEW instruments, Sound(p, instruments), p.gate[1] \in ConnectionTypes
    PROVE  InstrumentPortFromFalcon(Advertised(p)) = {Client(p)}
<1> DEFINE h == Advertised(p)
<1>1. h = [name |-> p.name, gate |-> p.gate, instrument |-> p.instrument, type |-> p.type,
           role |-> p.role, access |-> IF p.role = "knob" THEN "write" ELSE p.access,
           scope |-> p.scope, char |-> p.char, unit |-> p.unit]
  BY AdvertisedSound
<1> HIDE DEF h
<1>2. h.unit \in KnownUnits /\ h.gate[1] \in ConnectionTypes
  BY <1>1 DEF Sound
<1>3. h = [name |-> h.name, gate |-> h.gate, instrument |-> h.instrument, type |-> h.type,
           role |-> h.role, access |-> h.access, scope |-> h.scope, char |-> h.char,
           unit |-> h.unit]
  BY <1>1
<1>4. InstrumentPortFromFalcon(h) =
             {[name |-> h.name, gate |-> IF h.scope = "local" THEN h.gate ELSE NoGate,
               instrument |-> h.instrument, type |-> h.type, role |-> h.role,
               access |-> h.access, scope |-> h.scope, char |-> h.char, unit |-> h.unit]}
  BY <1>2, <1>3, PortOfRecord
<1>5. @ = {Client(p)}
  BY <1>1, <1>4 DEF Client
<1> QED
  BY <1>4, <1>5 DEF h

\* And the hub's answer carries that port.
LEMMA ClientHandle ==
    ASSUME NEW p, NEW instruments, Sound(p, instruments), p.gate[1] \in ConnectionTypes
    PROVE  /\ NewFalconInstrumentPort(Client(p)) = {Client(p)}
           /\ InstrumentPortFromFalcon(Client(p)) = {Client(p)}
<1> DEFINE h == Client(p)
<1>1. h.unit \in KnownUnits /\ h.gate[1] \in ConnectionTypes
  BY DEF Sound, Client, NoGate, ConnectionTypes
<1>2. h = [name |-> h.name, gate |-> h.gate, instrument |-> h.instrument, type |-> h.type,
           role |-> h.role, access |-> h.access, scope |-> h.scope, char |-> h.char,
           unit |-> h.unit]
  BY DEF Client
<1>3. (IF h.scope = "local" THEN h.gate ELSE NoGate) = h.gate
  BY DEF Client
<1> HIDE DEF h
<1>4. InstrumentPortFromFalcon(h) = {h}
  <2>1. InstrumentPortFromFalcon(h) =
          {[name |-> h.name, gate |-> IF h.scope = "local" THEN h.gate ELSE NoGate,
            instrument |-> h.instrument, type |-> h.type, role |-> h.role,
            access |-> h.access, scope |-> h.scope, char |-> h.char, unit |-> h.unit]}
    BY <1>1, <1>2, PortOfRecord
  <2> QED
    BY <1>2, <1>3, <2>1, Zenon
<1>5. NewSymbolUnit(h.unit) = {h.unit} /\ NewFalconConnection(h.gate) # {}
  BY <1>1 DEF NewSymbolUnit, NewFalconConnection
<1>6. [f \in PortFields |-> h[f]] @@ ("gate" :> h.gate) = h
  BY <1>2, PortOfFields, Zenon
<1>7. NewFalconInstrumentPort(h) = {h}
  BY <1>5, <1>6 DEF NewFalconInstrumentPort
<1> QED
  BY <1>4, <1>7 DEF h

-----------------------------------------------------------------------------
(* The port library.                                                       *)

\* portAttributesFromRole has four outcomes.
LEMMA Roles ==
    ASSUME NEW r \in DOMAIN RoleAttributes
    PROVE  /\ RoleAttributes[r][1] \in {"knob", "meter", "setting"}
           /\ RoleAttributes[r][1] = "meter" => RoleAttributes[r][2] = "read"
           /\ RoleAttributes[r][1] = "setting" => RoleAttributes[r][2] = "readwrite"
<1> DEFINE out == [x \in {"output", "trigger-out", "clock-out"} |-> <<"knob", "write">>]
           inp == [x \in {"input", "trigger-in", "clock-in"} |-> <<"meter", "read">>]
           both == "inout" :> <<"knob", "readwrite">>
           set == "setting" :> <<"setting", "readwrite">>
           a == out @@ inp
           b == a @@ both
           all == b @@ set
<1>1. RoleAttributes = all
  BY Zenon DEF RoleAttributes
<1>2. /\ DOMAIN out = {"output", "trigger-out", "clock-out"}
      /\ \A x \in DOMAIN out : out[x] = <<"knob", "write">>
      /\ DOMAIN inp = {"input", "trigger-in", "clock-in"}
      /\ \A x \in DOMAIN inp : inp[x] = <<"meter", "read">>
  BY Zenon
<1>3. /\ DOMAIN both = {"inout"} /\ both["inout"] = <<"knob", "readwrite">>
      /\ DOMAIN set = {"setting"} /\ set["setting"] = <<"setting", "readwrite">>
  BY Single
<1> HIDE DEF out, inp, both, set
<1>4. /\ DOMAIN a = DOMAIN out \cup DOMAIN inp
      /\ \A x \in DOMAIN out : a[x] = out[x]
      /\ \A x \in DOMAIN inp : x \notin DOMAIN out => a[x] = inp[x]
  BY MergedAt
<1> HIDE DEF a
<1>5. /\ DOMAIN b = DOMAIN a \cup DOMAIN both
      /\ \A x \in DOMAIN a : b[x] = a[x]
      /\ \A x \in DOMAIN both : x \notin DOMAIN a => b[x] = both[x]
  BY MergedAt
<1> HIDE DEF b
<1>6. /\ DOMAIN all = DOMAIN b \cup DOMAIN set
      /\ \A x \in DOMAIN b : all[x] = b[x]
      /\ \A x \in DOMAIN set : x \notin DOMAIN b => all[x] = set[x]
  BY MergedAt
<1> HIDE DEF all
<1>7. CASE r \in DOMAIN out
  BY <1>1, <1>2, <1>4, <1>5, <1>6, <1>7
<1>8. CASE r \in DOMAIN inp
  BY <1>1, <1>2, <1>4, <1>5, <1>6, <1>8
<1>9. CASE r = "inout"
  BY <1>1, <1>2, <1>3, <1>4, <1>5, <1>6, <1>9
<1>10. CASE r = "setting"
  BY <1>1, <1>2, <1>3, <1>4, <1>5, <1>6, <1>10
<1> QED
  BY <1>1, <1>3, <1>4, <1>5, <1>6, <1>7, <1>8, <1>9, <1>10

\* The entry of an IO.
LEMMA IoSound ==
    ASSUME NEW instruments, NEW i \in DOMAIN instruments, instruments[i].name # "",
           NEW io, IoEntryOK(instruments[i], io), NEW group, NEW channel
    PROVE  Sound(IoEntry(instruments[i], group, channel, io), instruments)
<1> DEFINE e == IoEntry(instruments[i], group, channel, io)
           inst == instruments[i]
<1>1. /\ e.unit = IF io.name \in DOMAIN inst.ioConfig THEN inst.ioConfig[io.name] ELSE io.unit
      /\ e.scope = "local" /\ e.char = NoName /\ e.instrument = inst.name
      /\ e.role = RoleAttributes[io.role][1] /\ e.access = RoleAttributes[io.role][2]
  BY DEF IoEntry
<1>2. e.unit \in KnownUnits /\ io.role \in DOMAIN RoleAttributes
  BY <1>1 DEF IoEntryOK
<1>3. NoName \notin ScriptedCharacteristics
  BY DEF NoName, ScriptedCharacteristics, Base
<1>4. /\ e.role \in {"knob", "meter", "setting"}
      /\ e.role = "meter" => e.access = "read"
      /\ e.role = "setting" => e.access = "readwrite"
  <2> DEFINE r == io.role
  <2>1. r \in DOMAIN RoleAttributes
    BY <1>2
  <2>2. e.role = RoleAttributes[r][1] /\ e.access = RoleAttributes[r][2]
    BY <1>1
  <2> HIDE DEF r, e
  <2> QED
    BY <2>1, <2>2, Roles
<1> HIDE DEF e
<1> QED
  BY <1>1, <1>2, <1>3, <1>4 DEF Sound, e

\* A table of known units with one more.
LEMMA WithUnit ==
    ASSUME NEW m, NEW k, NEW u \in KnownUnits, \A x \in DOMAIN m : m[x] \in KnownUnits
    PROVE  /\ DOMAIN (m @@ (k :> u)) = DOMAIN m \cup {k}
           /\ \A x \in DOMAIN (m @@ (k :> u)) : (m @@ (k :> u))[x] \in KnownUnits
<1> DEFINE n == k :> u
           both == m @@ n
<1>1. DOMAIN n = {k} /\ n[k] = u
  BY Single
<1> HIDE DEF n
<1>2. /\ DOMAIN both = DOMAIN m \cup DOMAIN n
      /\ \A x \in DOMAIN m : both[x] = m[x]
      /\ \A x \in DOMAIN n : x \notin DOMAIN m => both[x] = n[x]
  BY MergedAt
<1> HIDE DEF both
<1>3. DOMAIN both = DOMAIN m \cup {k} /\ \A x \in DOMAIN both : both[x] \in KnownUnits
  BY <1>1, <1>2
<1> QED
  BY <1>3 DEF both, n

\* The unit of a base quantity is known.
LEMMA BaseUnits ==
    ASSUME NEW q \in Quantities \cup {"temperature"}, q # "current_ramp_slope"
    PROVE  CharacteristicUnits[q] \in KnownUnits
<1> DEFINE hz == [x \in {"sample_rate", "source_frequency", "sink_frequency"} |-> "Hz"]
           v == [x \in {"source_voltage", "ac_amplitude"} |-> "V"]
           a == hz @@ v
           b == a @@ ("voltage_ramp_slope" :> "VoltsPerSecond")
           c == b @@ ("source_current" :> "A")
           d == c @@ ("number_of_samples" :> "")
           e == d @@ ("temperature" :> "K")
           f == e @@ ("magnet_strength" :> "T")
           known(m) == \A x \in DOMAIN m : m[x] \in KnownUnits
<1>1. CharacteristicUnits = f
  BY Zenon DEF CharacteristicUnits
<1>4. /\ DOMAIN hz = {"sample_rate", "source_frequency", "sink_frequency"} /\ known(hz)
      /\ DOMAIN v = {"source_voltage", "ac_amplitude"} /\ known(v)
  BY DEF KnownUnits
<1>5. /\ "VoltsPerSecond" \in KnownUnits /\ "A" \in KnownUnits
      /\ "K" \in KnownUnits /\ "T" \in KnownUnits
  BY Zenon DEF KnownUnits
<1> HIDE DEF known, hz, v
<1>6. DOMAIN a = DOMAIN hz \cup DOMAIN v /\ known(a)
  <2>1. /\ DOMAIN a = DOMAIN hz \cup DOMAIN v
        /\ \A x \in DOMAIN hz : a[x] = hz[x]
        /\ \A x \in DOMAIN v : x \notin DOMAIN hz => a[x] = v[x]
    BY MergedAt
  <2> HIDE DEF a
  <2> QED
    BY <1>4, <2>1 DEF known
<1> HIDE DEF a
<1>7. DOMAIN b = DOMAIN a \cup {"voltage_ramp_slope"} /\ known(b)
  BY <1>5, <1>6, WithUnit DEF known
<1> HIDE DEF b
<1>8. DOMAIN c = DOMAIN b \cup {"source_current"} /\ known(c)
  BY <1>5, <1>7, WithUnit DEF known
<1> HIDE DEF c
<1>9. DOMAIN d = DOMAIN c \cup {"number_of_samples"} /\ known(d)
  <2>1. "" \in KnownUnits
    BY Zenon DEF KnownUnits
  <2> QED
    BY <1>8, <2>1, WithUnit, Zenon DEF known
<1> HIDE DEF d
<1>10. DOMAIN e = DOMAIN d \cup {"temperature"} /\ known(e)
  BY <1>5, <1>9, WithUnit DEF known
<1> HIDE DEF e
<1>11. DOMAIN f = DOMAIN e \cup {"magnet_strength"} /\ known(f)
  BY <1>5, <1>10, WithUnit DEF known
<1> HIDE DEF f
<1>12. q \in DOMAIN f
  BY <1>4, <1>6, <1>7, <1>8, <1>9, <1>10, <1>11 DEF Quantities
<1> QED
  BY <1>1, <1>11, <1>12 DEF known

\* A characteristic that the library accepts has a known unit.
LEMMA CharacteristicUnitKnown ==
    ASSUME NEW inst, NEW c, c.id \in ParseableCharacteristics, NEW u \in Units(inst, c)
    PROVE  u \in KnownUnits
<1>1. c.id[1] \in Quantities \cup {"temperature"}
  BY DEF ParseableCharacteristics, FullAll, Full, Base, Limits
<1>2. CASE c.id[1] = "current_ramp_slope"
  BY <1>2 DEF Units
<1>3. CASE c.id[1] # "current_ramp_slope" /\ c.id[2] = "base"
  <2>1. u = CharacteristicUnits[c.id[1]]
    BY <1>3 DEF Units
  <2> QED
    BY <1>1, <1>3, <2>1, BaseUnits
<1>4. CASE c.id[1] # "current_ramp_slope" /\ c.id[2] # "base"
  BY <1>4 DEF Units
<1> QED
  BY <1>2, <1>3, <1>4

\* The entry of a characteristic.
LEMMA CharacteristicSound ==
    ASSUME NEW instruments, NEW i \in DOMAIN instruments, instruments[i].name # "",
           NEW c, c.id \in ParseableCharacteristics, Units(instruments[i], c) # {},
           NEW group, NEW channel
    PROVE  Sound(CharacteristicEntry(instruments[i], c, group, channel), instruments)
<1> DEFINE e == CharacteristicEntry(instruments[i], c, group, channel)
           inst == instruments[i]
<1>1. /\ e.unit = CHOOSE u \in Units(inst, c) : TRUE
      /\ e.scope = IF group = "" THEN "global" ELSE "local"
      /\ e.group = group /\ e.instrument = inst.name
      /\ e.role = "setting" /\ e.access = CharacteristicAccess(c)
  BY DEF CharacteristicEntry
<1>2. e.unit \in KnownUnits
  BY <1>1, CharacteristicUnitKnown
<1>3. e.access \in {"read", "write", "readwrite"}
  BY <1>1 DEF CharacteristicAccess
<1> HIDE DEF e
<1> QED
  BY <1>1, <1>2, <1>3 DEF Sound, e

\* What BuildPortLibrary adds for an instrument that it accepts.
LEMMA AdditionSound ==
    ASSUME NEW instruments, NEW i \in DOMAIN instruments,
           ValidServer(instruments), ~LibraryFails(instruments),
           NEW p \in ChannelPorts(instruments[i]) \cup GlobalPorts(instruments[i])
                                                  \cup CharacteristicPorts(instruments[i])
    PROVE  /\ p = [name |-> p.name, from |-> p.from, entry |-> p.entry]
           /\ Sound(p.entry, instruments)
           /\ \E a, b : p.from = <<a, b>> \/ p.from = <<a>>
<1> DEFINE inst == instruments[i]
<1>1. inst.name # "" /\ \A k \in DOMAIN inst.chars : inst.chars[k].id \in ParseableCharacteristics
  BY DEF ValidServer, ValidInstrument, ValidCharacteristic
<1>2. ~InstrumentFails(inst)
  BY DEF LibraryFails
<1>3. CASE p \in ChannelPorts(inst)
  <2>1. PICK g \in inst.groups : \E c \in g.min..g.max, io \in g.ios :
           p = [name |-> <<inst.name, g.name, c, io.suffix>>, from |-> <<"channel", g.name>>,
                entry |-> IoEntry(inst, g.name, c, io)]
    BY <1>3 DEF ChannelPorts
  <2>2. PICK c \in g.min..g.max, io \in g.ios :
           p = [name |-> <<inst.name, g.name, c, io.suffix>>, from |-> <<"channel", g.name>>,
                entry |-> IoEntry(inst, g.name, c, io)]
    BY <2>1
  <2>3. IoEntryOK(inst, io)
    BY <1>2 DEF InstrumentFails
  <2>4. Sound(IoEntry(inst, g.name, c, io), instruments)
    BY <1>1, <2>3, IoSound
  <2> QED
    BY <2>2, <2>4
<1>4. CASE p \in GlobalPorts(inst)
  <2>1. PICK n \in DOMAIN inst.io \ ExpandedNames(inst) :
           p = [name |-> <<inst.name>> \o n, from |-> <<"global">>,
                entry |-> IoEntry(inst, "", 0, inst.io[n])]
    BY <1>4 DEF GlobalPorts
  <2>2. IoEntryOK(inst, inst.io[n])
    BY <1>2 DEF InstrumentFails
  <2>3. Sound(IoEntry(inst, "", 0, inst.io[n]), instruments)
    BY <1>1, <2>2, IoSound
  <2> QED
    BY <2>1, <2>3
<1>5. CASE p \in CharacteristicPorts(inst)
  <2>1. PICK k \in DOMAIN inst.chars :
           \/ p = [name |-> <<inst.name, "characteristic">> \o inst.chars[k].id, from |-> <<"char", k>>,
                   entry |-> CharacteristicEntry(inst, inst.chars[k], "", 0)]
           \/ \E ch : p = [name |-> <<inst.name, "characteristic", Location(inst, inst.chars[k]), ch>>
                                      \o inst.chars[k].id,
                           from |-> <<"char", k>>,
                           entry |-> CharacteristicEntry(inst, inst.chars[k],
                                                         Location(inst, inst.chars[k]), ch)]
    BY <1>5 DEF CharacteristicPorts
  <2>2. Units(inst, inst.chars[k]) # {} /\ inst.chars[k].id \in ParseableCharacteristics
    BY <1>1, <1>2 DEF InstrumentFails
  <2>3. \A g, ch : Sound(CharacteristicEntry(inst, inst.chars[k], g, ch), instruments)
    BY <1>1, <2>2, CharacteristicSound
  <2>4. CASE p = [name |-> <<inst.name, "characteristic">> \o inst.chars[k].id, from |-> <<"char", k>>,
                  entry |-> CharacteristicEntry(inst, inst.chars[k], "", 0)]
    BY <2>3, <2>4
  <2>5. CASE \E ch : p = [name |-> <<inst.name, "characteristic", Location(inst, inst.chars[k]), ch>>
                                     \o inst.chars[k].id,
                          from |-> <<"char", k>>,
                          entry |-> CharacteristicEntry(inst, inst.chars[k],
                                                        Location(inst, inst.chars[k]), ch)]
    BY <2>3, <2>5
  <2> QED
    BY <2>1, <2>4, <2>5
<1> QED
  BY <1>3, <1>4, <1>5

\* The entries of the library: of several additions of one name the one of
\* the first instrument is taken, and there is a first one.
LEMMA LibrarySound ==
    ASSUME NEW instruments, DOMAIN instruments \subseteq Nat,
           ValidServer(instruments), ~LibraryFails(instruments),
           NEW n \in DOMAIN BuildPortLibrary(instruments)
    PROVE  Sound(BuildPortLibrary(instruments)[n], instruments)
<1> DEFINE added == Additions(instruments)
           Named == {p \in added : p.name = n}
           From == {p.from[1] : p \in Named}
           First == CHOOSE p \in added :
                      p.name = n /\ \A q \in added : q.name = n => p.from[1] <= q.from[1]
<1>1. ASSUME NEW p \in added
      PROVE  Sound(p.entry, instruments) /\ p.from[1] \in DOMAIN instruments
  <2>1. PICK i \in DOMAIN instruments :
           \E q \in ChannelPorts(instruments[i]) \cup GlobalPorts(instruments[i])
                                                 \cup CharacteristicPorts(instruments[i]) :
              p = [q EXCEPT !.from = <<i>> \o q.from]
    BY DEF Additions
  <2>2. PICK q \in ChannelPorts(instruments[i]) \cup GlobalPorts(instruments[i])
                                                \cup CharacteristicPorts(instruments[i]) :
           p = [q EXCEPT !.from = <<i>> \o q.from]
    BY <2>1
  <2>3. /\ q = [name |-> q.name, from |-> q.from, entry |-> q.entry]
        /\ Sound(q.entry, instruments)
        /\ \E a, b : q.from = <<a, b>> \/ q.from = <<a>>
    BY AdditionSound
  <2>4. p.entry = q.entry /\ p.from = <<i>> \o q.from
    BY <2>2, <2>3
  <2>5. (<<i>> \o q.from)[1] = i
    BY <2>3
  <2> QED
    BY <2>3, <2>4, <2>5
<1>2. BuildPortLibrary(instruments)[n] = First.entry /\ Named # {}
  BY DEF BuildPortLibrary
<1> HIDE DEF added
<1>3. From \subseteq Nat /\ From # {}
  BY <1>1, <1>2
<1>4. \E i \in From : \A j \in From : ~ (<<j, i>> \in OpToRel(<, Nat))
  <2> HIDE DEF From
  <2> QED
    BY <1>3, WFMin, NatLessThanWellFounded
<1>5. PICK i \in From : \A j \in From : ~ (<<j, i>> \in OpToRel(<, Nat))
  BY <1>4
<1>6. \A j \in From : i <= j
  <2>1. \A j \in From : ~ (j < i)
    BY <1>3, <1>5 DEF OpToRel
  <2> HIDE DEF From
  <2> QED
    BY <1>3, <2>1
<1>7. PICK p \in Named : p.from[1] = i
  OBVIOUS
<1>8. p.name = n /\ \A q \in added : q.name = n => p.from[1] <= q.from[1]
  BY <1>6, <1>7
<1>9. First \in added
  BY <1>8
<1> QED
  BY <1>1, <1>2, <1>9

-----------------------------------------------------------------------------
(* Loading the configuration.                                              *)

\* Every wire of a valid configuration ends at a connection of a known type.
LEMMA WiresKnown ==
    ASSUME NEW c, ValidConfig(c), NEW w \in Only(ResolveWiremap(c))
    PROVE  w.gate[1] \in ConnectionTypes
<1>1. Only(ResolveWiremap(c)) \in ResolveWiremap(c)
  BY DEF ValidConfig, Only
<1>2. PICK conns \in DeviceConns(c) :
         /\ \A v \in c.wiremap : v.device \in DOMAIN conns
         /\ Only(ResolveWiremap(c)) =
              {[gate |-> conns[v.device], instrument |-> v.instrument, group |-> v.group,
                channel |-> v.channel] : v \in c.wiremap}
  BY <1>1 DEF ResolveWiremap
<1>3. PICK v \in c.wiremap : w.gate = conns[v.device]
  BY <1>2
<1>4. PICK s \in ConnectionsFromFalcon(c.gates) :
         conns = [n \in {s[i][2] : i \in DOMAIN s} |-> s[CHOOSE i \in DOMAIN s : s[i][2] = n]]
  BY DEF DeviceConns
<1>5. PICK i \in DOMAIN s : conns[v.device] = s[i]
  <2>1. v.device \in {s[i][2] : i \in DOMAIN s}
    BY <1>2, <1>4
  <2> QED
    BY <1>4, <2>1
<1>6. /\ s = [j \in DOMAIN c.gates |-> Only(ConnectionFromFalcon(c.gates[j]))]
      /\ \A j \in DOMAIN c.gates : ConnectionFromFalcon(c.gates[j]) # {}
  BY DEF ConnectionsFromFalcon, Each
<1>7. s[i] \in ConnectionFromFalcon(c.gates[i])
  BY <1>5, <1>6 DEF Only
<1>8. s[i][1] \in ConnectionTypes
  BY <1>7 DEF ConnectionFromFalcon
<1> QED
  BY <1>3, <1>5, <1>8

\* A connected port is an entry of the library, with the gate of a wire to its
\* channel or with none.
LEMMA ConnectedPort ==
    ASSUME NEW wires, NEW lib, NEW p \in ConnectWireMap(wires, lib)
    PROVE  \E n \in DOMAIN lib :
              \/ p = Connected(n, lib[n], NoGate)
              \/ \E w \in wires : Wired(w, lib[n]) /\ p = Connected(n, lib[n], w.gate)
<1> DEFINE Matched(w) == {Connected(n, lib[n], w.gate) : n \in {m \in DOMAIN lib : Wired(w, lib[m])}}
           Rest == {Connected(n, lib[n], NoGate)
                    : n \in {m \in DOMAIN lib : \A w \in wires : ~Wired(w, lib[m])}}
<1>1. ConnectWireMap(wires, lib) = (UNION {Matched(w) : w \in wires}) \cup Rest
  BY Zenon DEF ConnectWireMap
<1>2. CASE p \in UNION {Matched(w) : w \in wires}
  <2>1. PICK w \in wires : p \in Matched(w)
    <3> HIDE DEF Matched
    <3> QED
      BY <1>2
  <2>2. PICK n \in DOMAIN lib : Wired(w, lib[n]) /\ p = Connected(n, lib[n], w.gate)
    BY <2>1
  <2> QED
    BY <2>2
<1>3. CASE p \in Rest
  BY <1>3
<1>4. p \in UNION {Matched(w) : w \in wires} \/ p \in Rest
  <2> HIDE DEF Matched, Rest
  <2> QED
    BY <1>1
<1> QED
  BY <1>2, <1>3, <1>4

\* A voltage of the configuration becomes volts.
LEMMA ConfiguredVolts ==
    ASSUME NEW v
    PROVE  QuantityFromConfig(v) = [value |-> QuantityFromConfig(v).value, unit |-> "V"]
  BY SMT DEF QuantityFromConfig

\* A gate and a quantity are a device voltage.
LEMMA WithGate ==
    ASSUME NEW g, NEW v, NEW u
    PROVE  [gate |-> g] @@ [value |-> v, unit |-> u] = [gate |-> g, value |-> v, unit |-> u]
<1> DEFINE f == [gate |-> g]
           q == [value |-> v, unit |-> u]
           whole == [gate |-> g, value |-> v, unit |-> u]
<1>1. /\ whole = [x \in {"gate", "value", "unit"} |-> whole[x]]
      /\ {"gate", "value", "unit"} = DOMAIN f \cup DOMAIN q
      /\ \A x \in DOMAIN f : f[x] = whole[x]
      /\ \A x \in DOMAIN q : q[x] = whole[x]
  OBVIOUS
<1> HIDE DEF f, q, whole
<1>2. f @@ q = whole
  BY <1>1, Merged
<1> QED
  BY <1>2, Zenon DEF f, q, whole

\* What Load leaves is a sound catalogue and the voltages of the wired gates.
LEMMA LoadStep ==
    ASSUME cfg \in Configs, Load, ValidConfig(cfg)
    PROVE  Catalogued' /\ Voltages'
<1> DEFINE lib == BuildPortLibrary(cfg.instruments)
<1>1. /\ wiremap' = Only(ResolveWiremap(cfg))
      /\ ports' = IF LibraryFails(cfg.instruments) THEN {} ELSE ConnectWireMap(wiremap', lib)
      /\ state' = InitialDeviceVoltageState(wiremap', Only(DefaultToZero(cfg)))
      /\ cfg' = cfg
  BY DEF Load
<1>2. \A w \in wiremap' : w.gate[1] \in ConnectionTypes
  BY <1>1, WiresKnown
<1>3. ASSUME ports' # {}, NEW n \in DOMAIN lib
      PROVE  Sound(lib[n], cfg.instruments)
  <2>1. DOMAIN cfg.instruments \subseteq Nat /\ ValidServer(cfg.instruments)
    BY ConfigAssumption DEF ValidConfig
  <2>2. ~LibraryFails(cfg.instruments)
    BY <1>1, <1>3
  <2> QED
    BY <2>1, <2>2, LibrarySound
<1> HIDE DEF lib
<1>4. ASSUME NEW p \in ports'
      PROVE  /\ p.name \in DOMAIN lib
             /\ p = Connected(p.name, lib[p.name], p.gate)
             /\ \/ p.gate = NoGate
                \/ \E w \in wiremap' : w.gate = p.gate /\ Wired(w, lib[p.name])
  <2>1. p \in ConnectWireMap(wiremap', lib)
    BY <1>1, <1>4
  <2>2. PICK n \in DOMAIN lib :
          \/ p = Connected(n, lib[n], NoGate)
          \/ \E w \in wiremap' : Wired(w, lib[n]) /\ p = Connected(n, lib[n], w.gate)
    BY <2>1, ConnectedPort
  <2>3. CASE p = Connected(n, lib[n], NoGate)
    BY <2>3 DEF Connected
  <2>4. CASE \E w \in wiremap' : Wired(w, lib[n]) /\ p = Connected(n, lib[n], w.gate)
    BY <2>4 DEF Connected
  <2> QED
    BY <2>2, <2>3, <2>4
<1>5. ASSUME NEW p \in ports'
      PROVE  /\ Sound(p, cfg.instruments)
             /\ p.gate[1] \in ConnectionTypes
             /\ p.gate = NoGate \/ \E w \in wiremap' : w.gate = p.gate /\ Wired(w, p)
  <2>1. /\ p.unit = lib[p.name].unit /\ p.scope = lib[p.name].scope /\ p.role = lib[p.name].role
        /\ p.char = lib[p.name].char /\ p.access = lib[p.name].access
        /\ p.group = lib[p.name].group /\ p.instrument = lib[p.name].instrument
        /\ p.channel = lib[p.name].channel
    BY <1>4 DEF Connected
  <2>2. Sound(p, cfg.instruments)
    <3>1. Sound(lib[p.name], cfg.instruments)
      BY <1>3, <1>4
    <3> QED
      BY <2>1, <3>1 DEF Sound
  <2>3. p.gate = NoGate \/ \E w \in wiremap' : w.gate = p.gate /\ Wired(w, p)
    BY <1>4, <2>1 DEF Wired
  <2>4. p.gate[1] \in ConnectionTypes
    <3>1. NoGate[1] \in ConnectionTypes
      BY DEF NoGate, ConnectionTypes
    <3> QED
      BY <1>2, <2>3, <3>1
  <2> QED
    BY <2>2, <2>3, <2>4
<1>6. \A p, q \in ports' : p.name = q.name => Target(p) = Target(q)
  BY <1>4 DEF Connected, Target
<1>7. Catalogued'
  BY <1>1, <1>5, <1>6 DEF Catalogued
<1>8. Voltages'
  <2> DEFINE v == Only(DefaultToZero(cfg))
  <2>1. /\ DOMAIN state' = {w.gate : w \in wiremap'}
        /\ \A g \in DOMAIN state' : state'[g] = [gate |-> g] @@ QuantityFromConfig(v[g[2]])
        /\ state' = [g \in DOMAIN state' |-> state'[g]]
    BY <1>1 DEF InitialDeviceVoltageState
  <2> HIDE DEF v
  <2>2. \A g \in DOMAIN state' : \E x : state'[g] = [gate |-> g, value |-> x, unit |-> "V"]
    <3> TAKE g \in DOMAIN state'
    <3>1. PICK x : QuantityFromConfig(v[g[2]]) = [value |-> x, unit |-> "V"]
      BY ConfiguredVolts
    <3>2. [gate |-> g] @@ [value |-> x, unit |-> "V"] = [gate |-> g, value |-> x, unit |-> "V"]
      BY WithGate
    <3> QED
      BY <2>1, <3>1, <3>2
  <2>3. \A g \in DOMAIN state' :
          /\ state'[g] = [gate |-> g, value |-> state'[g].value, unit |-> state'[g].unit]
          /\ state'[g].unit = "V"
    BY <2>2
  <2>4. state' = [g \in DOMAIN state' |-> [gate |-> g, value |-> state'[g].value, unit |-> state'[g].unit]]
    BY <2>1, <2>3
  <2> QED
    BY <1>2, <2>1, <2>3, <2>4 DEF Voltages, KnownUnits
<1> QED
  BY <1>7, <1>8

-----------------------------------------------------------------------------
(* Ports and voltages as a client reads them.                              *)

\* The port a client sends back resolves to the ports of its name only, and,
\* unless it is a knob that can also be read, to the port it came from.
LEMMA Resolved ==
    ASSUME Catalogued, NEW p \in ports, p.role = "knob" => p.access = "write"
    PROVE  /\ p \in ResolvePort(Client(p), ports)
           /\ \A q \in ResolvePort(Client(p), ports) : q.name = p.name /\ Target(q) = Target(p)
<1>1. /\ Client(p).name = p.name /\ Client(p).instrument = p.instrument
      /\ Client(p).char = p.char /\ Client(p).type = p.type /\ Client(p).role = p.role
      /\ Client(p).access = p.access /\ Client(p).scope = p.scope /\ Client(p).unit = p.unit
      /\ Client(p).gate = NoGate \/ Client(p).gate = p.gate
  BY DEF Client
<1>2. p \in ResolvePort(Client(p), ports)
  BY <1>1 DEF ResolvePort, MatchesPort
<1>3. \A q \in ResolvePort(Client(p), ports) : q \in ports /\ q.name = p.name
  BY <1>1 DEF ResolvePort, MatchesPort
<1> QED
  BY <1>2, <1>3 DEF Catalogued

\* The answer to a port request: handlePortRequest and the way back.
LEMMA PortRequestStep ==
    ASSUME Catalogued, PortRequest
    PROVE  RepliesReadBack' /\ SettingsServed'
<1>1. /\ ports' = ports /\ reply'.kind = "ports"
      /\ reply'.sent = {Advertised(p) : p \in ports}
  BY DEF PortRequest, hub
<1>2. ASSUME NEW p \in ports
      PROVE  \/ p.role = "knob" /\ p.access # "write"
             \/ \E port \in InstrumentPortFromFalcon(Advertised(p)) :
                  /\ p \in ResolvePort(port, ports)
                  /\ \A q \in ResolvePort(port, ports) : q.name = p.name /\ Target(q) = Target(p)
  <2>1. InstrumentPortFromFalcon(Advertised(p)) = {Client(p)}
    BY ReadBack DEF Catalogued
  <2> QED
    BY <2>1, Resolved
<1>3. \A h \in reply'.sent : \E p \in ports :
        /\ Advertised(p) = h
        /\ \/ p.role = "knob" /\ p.access # "write"
           \/ \E port \in InstrumentPortFromFalcon(h) :
                /\ p \in ResolvePort(port, ports)
                /\ \A q \in ResolvePort(port, ports) : q.name = p.name /\ Target(q) = Target(p)
  <2> DEFINE found(p, h) ==
        \/ p.role = "knob" /\ p.access # "write"
        \/ \E port \in InstrumentPortFromFalcon(h) :
             /\ p \in ResolvePort(port, ports)
             /\ \A q \in ResolvePort(port, ports) : q.name = p.name /\ Target(q) = Target(p)
  <2>1. \A p \in ports : found(p, Advertised(p))
    BY <1>2
  <2>2. \A h \in reply'.sent : \E p \in ports : Advertised(p) = h
    BY <1>1
  <2>3. \A h \in reply'.sent : \E p \in ports : Advertised(p) = h /\ found(p, h)
    <3> HIDE DEF found
    <3> QED
      BY <2>1, <2>2
  <2> QED
    BY <2>3
<1> QED
  BY <1>1, <1>3 DEF RepliesReadBack, SettingsServed

\* The device state goes out as a list and is read back under the names in
\* it, which are its keys.
LEMMA StateReadsBack ==
    ASSUME Voltages
    PROVE  UNION {VoltageStatesResponseFromFalcon(h) : h \in NewFalconVoltageStateResponse(state)} = {state}
<1> DEFINE S == {state[g] : g \in DOMAIN state}
<1>1. ASSUME NEW g \in DOMAIN state
      PROVE  /\ state[g] = [gate |-> g, value |-> state[g].value, unit |-> state[g].unit]
             /\ state[g].gate = g /\ g[1] \in ConnectionTypes /\ state[g].unit \in KnownUnits
  BY DEF Voltages
<1>2. ASSUME NEW g \in DOMAIN state
      PROVE  /\ NewFalconDeviceVoltageState(state[g]) = {state[g]}
             /\ DeviceVoltageStateFromFalcon(state[g]) = {state[g]}
  <2> DEFINE q == [value |-> state[g].value, unit |-> state[g].unit]
  <2>1. [gate |-> g] @@ q = state[g]
    BY <1>1, WithGate
  <2>2. NewFalconConnection(state[g].gate) = {g} /\ NewFalconQuantity(state[g]) = {q}
    BY <1>1 DEF NewFalconConnection, NewFalconQuantity, NewSymbolUnit
  <2>3. DOMAIN state[g] = {"gate", "value", "unit"}
    BY <1>1
  <2>4. Then(Read(state[g], "gate"), ConnectionFromFalcon) = {g}
    BY <1>1, <2>3 DEF Then, Read, ConnectionFromFalcon
  <2>5. /\ Then(Read(state[g], "unit"), SymbolToUnit) = {state[g].unit}
        /\ Read(state[g], "value") = {state[g].value}
    BY <1>1, <2>3 DEF Then, Read, SymbolToUnit
  <2>6. QuantityFromFalcon(state[g]) = {q}
    BY <2>5 DEF QuantityFromFalcon
  <2> HIDE DEF q
  <2>7. NewFalconDeviceVoltageState(state[g]) = {[gate |-> c] @@ x : c \in {g}, x \in {q}}
    BY <2>2 DEF NewFalconDeviceVoltageState
  <2>8. DeviceVoltageStateFromFalcon(state[g]) = {[gate |-> c] @@ x : x \in {q}, c \in {g}}
    <3> DEFINE C == UNION {ConnectionFromFalcon(x) : x \in Read(state[g], "gate")}
    <3>1. DeviceVoltageStateFromFalcon(state[g]) =
            {[gate |-> c] @@ x : x \in QuantityFromFalcon(state[g]), c \in C}
      BY DEF DeviceVoltageStateFromFalcon, Then
    <3>2. C = {g}
      BY <2>4 DEF Then
    <3> HIDE DEF C
    <3> QED
      BY <2>6, <3>1, <3>2
  <2>9. /\ {[gate |-> c] @@ x : c \in {g}, x \in {q}} = {[gate |-> g] @@ q}
        /\ {[gate |-> c] @@ x : x \in {q}, c \in {g}} = {[gate |-> g] @@ q}
    OBVIOUS
  <2> QED
    BY <2>1, <2>7, <2>8, <2>9
<1>3. NewFalconDeviceVoltageStates(state) = {S}
  <2>1. \A g \in DOMAIN state : Only(NewFalconDeviceVoltageState(state[g])) = state[g]
    BY <1>2 DEF Only
  <2> QED
    BY <1>2, <2>1 DEF NewFalconDeviceVoltageStates
<1>4. NewFalconVoltageStateResponse(state) = {[states |-> S]}
  BY <1>3 DEF NewFalconVoltageStateResponse
<1>5. VoltageStatesResponseFromFalcon([states |-> S]) = DeviceVoltageStatesFromFalcon(S)
  <2> HIDE DEF S
  <2> QED
    BY DEF VoltageStatesResponseFromFalcon, Then, Read
<1>6. {s.gate : s \in S} = DOMAIN state
  BY <1>1
<1>7. \A g \in DOMAIN state : {s \in S : s.gate = g} = {state[g]}
  BY <1>1
<1>8. \A s \in S : DeviceVoltageStateFromFalcon(s) # {}
  BY <1>2
<1> HIDE DEF S
<1>9. DeviceVoltageStatesFromFalcon(S) = {state}
  <2>1. \A g \in DOMAIN state : Only(DeviceVoltageStateFromFalcon(Only({s \in S : s.gate = g}))) = state[g]
    BY <1>2, <1>7 DEF Only
  <2>2. state = [g \in DOMAIN state |-> state[g]]
    BY DEF Voltages
  <2> QED
    BY <1>6, <1>8, <2>1, <2>2 DEF DeviceVoltageStatesFromFalcon
<1> QED
  BY <1>4, <1>5, <1>9

\* The answer to a state request.
LEMMA StateRequestStep ==
    ASSUME Voltages, StateRequest
    PROVE  RepliesReadBack' /\ SettingsServed'
<1>1. /\ state' = state /\ reply'.kind = "state"
      /\ reply'.sent = NewFalconVoltageStateResponse(state)
  BY DEF StateRequest
<1> QED
  BY <1>1, StateReadsBack DEF RepliesReadBack, SettingsServed

-----------------------------------------------------------------------------
(* Settings.                                                               *)

\* The hub reads the one port of the request as the client's view of it.
LEMMA OnePort ==
    ASSUME NEW h, NEW c, InstrumentPortFromFalcon(h) = {c}
    PROVE  PortsFromFalcon(<<h>>) = {<<c>>}
<1>1. PortsFromFalcon(<<h>>) =
        IF \E i \in DOMAIN <<h>> : InstrumentPortFromFalcon(<<h>>[i]) = {} THEN {}
        ELSE {[i \in DOMAIN <<h>> |-> Only(InstrumentPortFromFalcon(<<h>>[i]))]}
  BY DEF PortsFromFalcon, Each
<1>2. DOMAIN <<h>> = {1} /\ <<h>>[1] = h
  OBVIOUS
<1>3. Only(InstrumentPortFromFalcon(h)) = c
  BY DEF Only
<1>4. [i \in {1} |-> Only(InstrumentPortFromFalcon(<<h>>[i]))] = <<c>>
  BY <1>2, <1>3
<1> QED
  BY <1>1, <1>2, <1>4

\* A setter script is handed the channel of the port; so is a getter script.
LEMMA SettingChannel ==
    ASSUME Catalogued, NEW p \in Settings(ports)
    PROVE  SettingTarget(Client(p)) = Target(p)
<1>1. p \in ports /\ p.role = "setting"
  BY DEF Settings
<1>2. /\ p \in ResolvePort(Client(p), ports)
      /\ \A q \in ResolvePort(Client(p), ports) : Target(q) = Target(p)
  BY <1>1, Resolved
<1>3. Only(ResolvePort(Client(p), ports)) \in ResolvePort(Client(p), ports)
  BY <1>2 DEF Only
<1> QED
  BY <1>2, <1>3 DEF SettingTarget

\* Nothing but that channel is read or written.
LEMMA OneChannel ==
    ASSUME NEW port
    PROVE  /\ Readable(port) \subseteq {SettingTarget(port)}
           /\ Writable(port) \subseteq {SettingTarget(port)}
<1>1. CASE GetterFor(port, cfg, ports) \in {"min", "max"}
  BY <1>1 DEF Readable, Writable
<1>2. CASE GetterFor(port, cfg, ports) \notin {"min", "max"}
  BY <1>2 DEF Readable, Writable
<1> QED
  BY <1>1, <1>2

\* A local setting of a scripted quantity can be read, and written unless it
\* is read only, when its script is there.
LEMMA Possible ==
    ASSUME Catalogued, NEW p \in Settings(ports), p.scope = "local", p.char \in ScriptedCharacteristics
    PROVE  /\ <<"get", p.char>> \in cfg.scripts => Readable(Client(p)) # {}
           /\ <<"set", p.char>> \in cfg.scripts /\ p.access # "read" => Writable(Client(p)) # {}
<1>1. p \in ports /\ p.role = "setting" /\ Sound(p, cfg.instruments)
  BY DEF Settings, Catalogued
<1>2. /\ Client(p).char = p.char /\ Client(p).access = p.access
      /\ Client(p).instrument = p.instrument
  BY <1>1 DEF Client
<1>3. PortExists(Client(p), ports)
  BY <1>1, Resolved DEF PortExists
<1>4. p.group # "" /\ p.instrument # "" /\ p.access \in {"read", "write", "readwrite"}
  BY <1>1 DEF Sound
<1>5. Serializable(SettingTarget(Client(p)))
  <2>1. Target(p)[1] # "" /\ Target(p)[2] # ""
    BY <1>4 DEF Target
  <2> QED
    BY <2>1, SettingChannel DEF Serializable
<1>6. MetadataOf(Client(p), cfg.instruments) # {}
  BY <1>1, <1>2 DEF Sound, MetadataOf
<1>7. ASSUME NEW kind \in {"min", "max"}
      PROVE  ~LimitCanGet(Client(p), cfg.instruments, ports, kind)
  <2>1. p.char \notin LimitCharacteristics(kind)
    <3>1. PICK q : p.char = <<q, "base">>
      BY DEF ScriptedCharacteristics, Base
    <3> QED
      BY <3>1 DEF LimitCharacteristics
  <2> QED
    BY <1>2, <2>1 DEF LimitCanGet, ResolveLimit
<1>8. ASSUME <<"get", p.char>> \in cfg.scripts
      PROVE  Readable(Client(p)) # {}
  <2>1. MeasurementCanGet(Client(p), cfg.instruments, ports, cfg.scripts)
    BY <1>2, <1>3, <1>6, <1>8 DEF MeasurementCanGet
  <2>2. GetterFor(Client(p), cfg, ports) = "measurement"
    BY <1>7, <2>1 DEF GetterFor
  <2> QED
    BY <1>5, <2>2 DEF Readable
<1>9. ASSUME <<"set", p.char>> \in cfg.scripts, p.access # "read"
      PROVE  Writable(Client(p)) # {}
  <2>1. SetterFor(Client(p), cfg, ports) = "measurement"
    BY <1>2, <1>3, <1>4, <1>9 DEF SetterFor, MeasurementCanSet
  <2> QED
    BY <1>5, <2>1 DEF Writable
<1> QED
  BY <1>8, <1>9

\* The channel of a local port with a gate is one the gate is wired to.
LEMMA OwnChannel ==
    ASSUME Catalogued, NEW p \in ports, p.gate # NoGate
    PROVE  Target(p) \in ChannelsOf(p.gate)
<1>1. PICK w \in wiremap : w.gate = p.gate /\ Wired(w, p)
  BY DEF Catalogued
<1> QED
  BY <1>1 DEF ChannelsOf, Target, Wired

\* A value that was read arrives under the port it was read for.
LEMMA ValueArrives ==
    ASSUME NEW c, NEW x, c.unit \in KnownUnits,
           NewFalconInstrumentPort(c) = {c}, InstrumentPortFromFalcon(c) = {c}
    PROVE  LET s == NewFalconSettingResponse(c :> [value |-> x, unit |-> c.unit])
           IN  UNION {SettingResponseFromFalcon(h) : h \in s} = {{<<c, [value |-> x, unit |-> c.unit]>>}}
<1> DEFINE q == [value |-> x, unit |-> c.unit]
           f == c :> q
<1>1. DOMAIN f = {c} /\ f[c] = q
  BY DEF :>
<1>2. NewFalconQuantity(q) = {q}
  BY DEF NewFalconQuantity, NewSymbolUnit
<1>3. QuantityFromFalcon(q) = {q}
  <2>1. DOMAIN q = {"value", "unit"}
    OBVIOUS
  <2> QED
    BY <2>1 DEF QuantityFromFalcon, Then, Read, SymbolToUnit
<1> HIDE DEF q, f
<1>4. NewFalconSettingResponse(f) = {[getters |-> {<<c, q>>}]}
  <2>1. Only(NewFalconInstrumentPort(c)) = c /\ Only(NewFalconQuantity(q)) = q
    BY <1>2 DEF Only
  <2>2. {<<Only(NewFalconInstrumentPort(p)), Only(NewFalconQuantity(f[p]))>> : p \in DOMAIN f} = {<<c, q>>}
    BY <1>1, <2>1
  <2> QED
    BY <1>1, <1>2, <2>2 DEF NewFalconSettingResponse
<1>5. SettingResponseFromFalcon([getters |-> {<<c, q>>}]) = {{<<c, q>>}}
  <2>1. Only(InstrumentPortFromFalcon(c)) = c /\ Only(QuantityFromFalcon(q)) = q
    BY <1>3 DEF Only
  <2>2. {<<Only(InstrumentPortFromFalcon(y[1])), Only(QuantityFromFalcon(y[2]))>> : y \in {<<c, q>>}} = {<<c, q>>}
    BY <2>1
  <2> QED
    BY <1>3, <2>2 DEF SettingResponseFromFalcon
<1> QED
  BY <1>4, <1>5 DEF f, q

\* A request to read a setting.
LEMMA GetSettingStep ==
    ASSUME Catalogued, NEW p \in Settings(ports), GetSetting(p)
    PROVE  RepliesReadBack' /\ SettingsServed'
<1> DEFINE c == Client(p)
           h == Advertised(p)
           Response(port, t) == NewFalconSettingResponse(port :> [value |-> Reported(t), unit |-> port.unit])
<1>1. p \in ports /\ p.role = "setting" /\ Sound(p, cfg.instruments) /\ p.gate[1] \in ConnectionTypes
  BY DEF Settings, Catalogued
<1>2. /\ h.gate = p.gate /\ h.scope = p.scope /\ h.char = p.char /\ h.access = p.access
      /\ h.unit = p.unit
  BY <1>1, AdvertisedSound
<1>3. c.unit = p.unit /\ p.unit \in KnownUnits
  BY <1>1 DEF Client, Sound
<1>4. InstrumentPortFromFalcon(h) = {c} /\ PortsFromFalcon(<<h>>) = {<<c>>}
  BY <1>1, ReadBack, OnePort
<1>5. NewFalconInstrumentPort(c) = {c} /\ InstrumentPortFromFalcon(c) = {c}
  BY <1>1, ClientHandle
<1>6. SettingTarget(c) = Target(p)
  BY SettingChannel
<1>7. PICK returns \in ScriptReturns(p) : reply' = GetReply(p, returns)
  BY DEF GetSetting
<1> DEFINE ReadFrom(read) == UNION {Readable(r[1]) : r \in read}
           Decoded(read) == {r[1] : r \in {s \in read : \/ GetterFor(s[1], cfg, ports) # "measurement"
                                                        \/ Decodable(returns, s[1])}}
           decoded == Decoded({<<c>>})
<1>8. /\ reply'.kind = "get" /\ reply'.port = h
      /\ reply'.on = IF Decoded(PortsFromFalcon(<<h>>)) = {} THEN {} ELSE ReadFrom(PortsFromFalcon(<<h>>))
      /\ reply'.possible = (ReadFrom(PortsFromFalcon(<<h>>)) # {})
      /\ reply'.sent = UNION {Response(port, t) : port \in Decoded(PortsFromFalcon(<<h>>)),
                                                 t \in ReadFrom(PortsFromFalcon(<<h>>))}
  BY <1>7 DEF GetReply
<1> HIDE DEF c, h, Response
<1>9. decoded \in {{}, {c}} /\ ReadFrom({<<c>>}) = Readable(c)
  OBVIOUS
<1>10. /\ reply'.on = IF decoded = {} THEN {} ELSE Readable(c)
       /\ reply'.possible = (Readable(c) # {})
       /\ reply'.sent = UNION {Response(port, t) : port \in decoded, t \in Readable(c)}
  <2>1. /\ Decoded(PortsFromFalcon(<<h>>)) = decoded
        /\ ReadFrom(PortsFromFalcon(<<h>>)) = Readable(c)
    BY <1>4, <1>9, Zenon
  <2> DEFINE told(D, R) == UNION {Response(port, t) : port \in D, t \in R}
             D == Decoded(PortsFromFalcon(<<h>>))
             R == ReadFrom(PortsFromFalcon(<<h>>))
  <2>2. /\ reply'.on = (IF D = {} THEN {} ELSE R) /\ reply'.possible = (R # {})
        /\ reply'.sent = told(D, R)
    BY <1>8
  <2>3. D = decoded /\ R = Readable(c)
    BY <2>1, Zenon
  <2> HIDE DEF decoded, told, D, R
  <2>4. /\ reply'.on = (IF decoded = {} THEN {} ELSE Readable(c))
        /\ reply'.possible = (Readable(c) # {})
        /\ reply'.sent = told(decoded, Readable(c))
    BY <2>2, <2>3
  <2> QED
    BY <2>4 DEF told
<1> HIDE DEF decoded
<1>11. wiremap' = wiremap /\ cfg' = cfg
  BY DEF GetSetting, hub
<1>12. reply'.on \subseteq {Target(p)}
  BY <1>6, <1>10, OneChannel
<1>13. h.scope = "local" /\ h.gate # NoGate => reply'.on \subseteq ChannelsOf(h.gate)
  BY <1>1, <1>2, <1>12, OwnChannel
<1>14. UNION {SettingResponseFromFalcon(x) : x \in reply'.sent} =
         {{<<port, [value |-> Reported(t), unit |-> h.unit]>>} : port \in {c}, t \in reply'.on}
  <2>1. \A t : UNION {SettingResponseFromFalcon(x) : x \in Response(c, t)}
                 = {{<<c, [value |-> Reported(t), unit |-> h.unit]>>}}
    BY <1>2, <1>3, <1>5, ValueArrives DEF Response
  <2>2. CASE decoded = {}
    <3>1. reply'.on = {} /\ reply'.sent = {}
      BY <1>10, <2>2
    <3> QED
      BY <3>1
  <2>3. CASE decoded = {c}
    <3>1. reply'.on = Readable(c) /\ reply'.sent = UNION {Response(c, t) : t \in Readable(c)}
      BY <1>10, <2>3
    <3>2. reply'.on = {} \/ reply'.on = {Target(p)}
      BY <1>12
    <3>3. CASE reply'.on = {}
      BY <3>1, <3>3
    <3>4. CASE reply'.on = {Target(p)}
      <4>1. reply'.sent = Response(c, Target(p))
        BY <3>1, <3>4
      <4> QED
        BY <2>1, <3>4, <4>1
    <3> QED
      BY <3>2, <3>3, <3>4
  <2> QED
    BY <1>9, <2>2, <2>3
<1>15. /\ h.scope = "local" /\ h.char \in ScriptedCharacteristics
       /\ <<"get", h.char>> \in cfg.scripts
       => reply'.possible
  BY <1>2, <1>10, Possible DEF c
<1>16. reply'.kind = "get" /\ reply'.port = h
  BY <1>8
<1>17. ChannelsOf(h.gate)' = ChannelsOf(h.gate)
  BY <1>11 DEF ChannelsOf
<1> QED
  BY <1>4, <1>11, <1>13, <1>14, <1>15, <1>16, <1>17 DEF RepliesReadBack, SettingsServed

\* The ports a request with one setter names.
LEMMA OneSetter ==
    ASSUME NEW h, NEW c, InstrumentPortFromFalcon(h) = {c}, NEW u \in KnownUnits
    PROVE  LET q == [value |-> 1, unit |-> u]
               read == SettingRequestFromFalcon([setters |-> << <<h, q>> >>, getters |-> << >>])
           IN  read # {} /\ \A r \in read : DOMAIN r.setters = {c}
<1> DEFINE q == [value |-> 1, unit |-> u]
           Pair(x) == {<<k, v>> : k \in InstrumentPortFromFalcon(x[1]), v \in QuantityFromFalcon(x[2])}
           s == << <<h, q>> >>
           m == [setters |-> s, getters |-> << >>]
           Pairs(x) == IF \E i \in DOMAIN x : Pair(x[i]) = {} THEN {}
                       ELSE {[i \in DOMAIN x |-> Only(Pair(x[i]))]}
           Getters(x) == IF \E i \in DOMAIN x : InstrumentPortFromFalcon(x[i]) = {} THEN {}
                         ELSE {[i \in DOMAIN x |-> Only(InstrumentPortFromFalcon(x[i]))]}
           S == UNION {Pairs(x) : x \in Read(m, "setters")}
           G == UNION {Getters(x) : x \in Read(m, "getters")}
<1>1. QuantityFromFalcon(q) = {q}
  <2>1. DOMAIN q = {"value", "unit"}
    OBVIOUS
  <2> QED
    BY <2>1 DEF QuantityFromFalcon, Then, Read, SymbolToUnit
<1> HIDE DEF q
<1>2. Pair(<<h, q>>) = {<<c, q>>}
  BY <1>1
<1>3. Pairs(s) = {<< <<c, q>> >>}
  <2> HIDE DEF Pair
  <2>1. DOMAIN s = {1} /\ s[1] = <<h, q>>
    OBVIOUS
  <2>2. Only(Pair(<<h, q>>)) = <<c, q>>
    BY <1>2 DEF Only
  <2>3. [i \in DOMAIN s |-> Only(Pair(s[i]))] = << <<c, q>> >>
    BY <2>1, <2>2
  <2> QED
    BY <1>2, <2>1, <2>3
<1>4. Getters(<< >>) # {}
  OBVIOUS
<1>5. SettingRequestFromFalcon(m) = {[setters |-> PairsToMap(x), getters |-> g] : x \in S, g \in G}
  BY DEF SettingRequestFromFalcon, Then, PortsFromFalcon, Each
<1>6. Read(m, "setters") = {s} /\ Read(m, "getters") = {<< >>}
  BY DEF Read
<1>7. DOMAIN PairsToMap(<< <<c, q>> >>) = {c}
  BY DEF PairsToMap
<1> HIDE DEF m, Pairs, Getters
<1>8. S = {<< <<c, q>> >>} /\ G # {}
  BY <1>3, <1>4, <1>6
<1> HIDE DEF S, G
<1>9. SettingRequestFromFalcon(m) # {} /\ \A r \in SettingRequestFromFalcon(m) : DOMAIN r.setters = {c}
  <2> DEFINE x == << <<c, q>> >>
  <2> HIDE DEF x
  <2>1. S = {x} /\ DOMAIN PairsToMap(x) = {c}
    BY <1>7, <1>8 DEF x
  <2>2. PICK g : g \in G
    BY <1>8
  <2>3. [setters |-> PairsToMap(x), getters |-> g] \in SettingRequestFromFalcon(m)
    BY <1>5, <2>1, <2>2
  <2>4. \A r \in SettingRequestFromFalcon(m) : r.setters = PairsToMap(x)
    BY <1>5, <2>1
  <2> QED
    BY <2>1, <2>3, <2>4
<1> QED
  BY <1>9 DEF m, q

\* A request to write a setting.
LEMMA SetSettingStep ==
    ASSUME Catalogued, NEW p \in Settings(ports), SetSetting(p)
    PROVE  RepliesReadBack' /\ SettingsServed'
<1> DEFINE c == Client(p)
           h == Advertised(p)
           read == SettingRequestFromFalcon([setters |-> << <<h, [value |-> 1, unit |-> p.unit]>> >>,
                                             getters |-> << >>])
           on == UNION {UNION {Writable(port) : port \in DOMAIN r.setters} : r \in read}
<1>1. p \in ports /\ p.role = "setting" /\ Sound(p, cfg.instruments) /\ p.gate[1] \in ConnectionTypes
  BY DEF Settings, Catalogued
<1>2. h.gate = p.gate /\ h.scope = p.scope /\ h.char = p.char /\ h.access = p.access
  BY <1>1, AdvertisedSound
<1>3. InstrumentPortFromFalcon(h) = {c} /\ p.unit \in KnownUnits
  BY <1>1, ReadBack DEF Sound
<1>4. read # {} /\ \A r \in read : DOMAIN r.setters = {c}
  <2> HIDE DEF c, h
  <2> QED
    BY <1>3, OneSetter
<1>5. /\ reply'.kind = "set" /\ reply'.port = h
      /\ reply'.on = on /\ reply'.possible = (on # {})
  BY DEF SetSetting, SetReply
<1>6. on = Writable(c)
  <2> HIDE DEF read, c
  <2>1. \A r \in read : UNION {Writable(port) : port \in DOMAIN r.setters} = Writable(c)
    BY <1>4
  <2> QED
    BY <1>4, <2>1
<1> HIDE DEF on, c, h
<1>7. wiremap' = wiremap /\ cfg' = cfg
  BY DEF SetSetting, hub
<1>8. reply'.on \subseteq {Target(p)}
  BY <1>5, <1>6, OneChannel, SettingChannel DEF c
<1>9. h.scope = "local" /\ h.gate # NoGate => reply'.on \subseteq ChannelsOf(h.gate)
  BY <1>1, <1>2, <1>8, OwnChannel
<1>10. /\ h.scope = "local" /\ h.char \in ScriptedCharacteristics
       /\ <<"set", h.char>> \in cfg.scripts /\ h.access # "read"
       => reply'.possible
  BY <1>2, <1>5, <1>6, Possible DEF c
<1>11. ChannelsOf(h.gate)' = ChannelsOf(h.gate)
  BY <1>7 DEF ChannelsOf
<1> QED
  BY <1>5, <1>7, <1>9, <1>10, <1>11 DEF RepliesReadBack, SettingsServed

-----------------------------------------------------------------------------
(* Measurements.                                                           *)

\* UpdatePort, at the gate it updates.
LEMMA Updated ==
    ASSUME NEW old, NEW g, NEW q
    PROVE  UpdatePort(old, g, q)[g] = [gate |-> IF g \in DOMAIN old THEN old[g].gate ELSE NoGate,
                                       value |-> q.value, unit |-> q.unit]
  BY DEF UpdatePort, @@, :>

\* The voltages read after a measurement keep every gate under its own name:
\* a gate of the catalogue that is not in the state is the one without name.
LEMMA CaptureStep ==
    ASSUME Catalogued, Voltages, CaptureVoltages
    PROVE  Voltages'
<1>1. wiremap' = wiremap
  BY DEF CaptureVoltages, hub
<1>2. CASE UNCHANGED state
  BY <1>1, <1>2 DEF Voltages
<1>3. CASE ~UNCHANGED state
  <2>1. PICK last \in [{p.gate : p \in SourceVoltagePorts} -> SourceVoltagePorts] :
          /\ \A g \in DOMAIN last : last[g].gate = g
          /\ state' = [g \in DOMAIN state \cup DOMAIN last |->
                         IF g \in DOMAIN last
                         THEN UpdatePort(state, g, [value |-> Reported(Only(Readable(last[g]))),
                                                    unit |-> last[g].unit])[g]
                         ELSE state[g]]
    BY <1>3 DEF CaptureVoltages
  <2>2. ASSUME NEW g \in DOMAIN last
        PROVE  /\ g = NoGate \/ g \in DOMAIN state
               /\ g[1] \in ConnectionTypes /\ last[g].unit \in KnownUnits
    <3>1. last[g] \in SourceVoltagePorts /\ last[g].gate = g
      BY <2>1
    <3>2. PICK q \in ports : last[g] = InstrumentPort(q)
      BY <3>1 DEF SourceVoltagePorts, Settings
    <3>3. q.gate = g /\ q.unit = last[g].unit
      BY <3>1, <3>2 DEF InstrumentPort
    <3>4. /\ Sound(q, cfg.instruments) /\ q.gate[1] \in ConnectionTypes
          /\ q.gate = NoGate \/ \E w \in wiremap : w.gate = q.gate
      BY DEF Catalogued
    <3>5. q.unit \in KnownUnits
      BY <3>4 DEF Sound
    <3>6. \A w \in wiremap : w.gate \in DOMAIN state
      BY DEF Voltages
    <3> QED
      BY <3>3, <3>4, <3>5, <3>6
  <2>3. ASSUME NEW g \in DOMAIN state
        PROVE  /\ state[g] = [gate |-> g, value |-> state[g].value, unit |-> state[g].unit]
               /\ g[1] \in ConnectionTypes /\ state[g].unit \in KnownUnits
    BY DEF Voltages
  <2>4. DOMAIN state' = DOMAIN state \cup DOMAIN last
    BY <2>1
  <2>5. ASSUME NEW g \in DOMAIN state'
        PROVE  /\ state'[g] = [gate |-> g, value |-> state'[g].value, unit |-> state'[g].unit]
               /\ g[1] \in ConnectionTypes /\ state'[g].unit \in KnownUnits
    <3>1. CASE g \in DOMAIN last
      <4> DEFINE v == Reported(Only(Readable(last[g])))
                 u == last[g].unit
      <4>1. state'[g] = UpdatePort(state, g, [value |-> v, unit |-> u])[g]
        BY <2>1, <2>4, <3>1
      <4> HIDE DEF v, u
      <4>2. state'[g] = [gate |-> IF g \in DOMAIN state THEN state[g].gate ELSE NoGate,
                         value |-> v, unit |-> u]
        BY <4>1, Updated
      <4>3. (IF g \in DOMAIN state THEN state[g].gate ELSE NoGate) = g
        BY <2>2, <2>3, <3>1
      <4> QED
        BY <2>2, <3>1, <4>2, <4>3 DEF u
    <3>2. CASE g \notin DOMAIN last
      <4>1. g \in DOMAIN state /\ state'[g] = state[g]
        BY <2>1, <2>4, <3>2
      <4> QED
        BY <2>3, <4>1
    <3> QED
      BY <3>1, <3>2
  <2>6. state' = [g \in DOMAIN state' |-> state'[g]]
    BY <2>1
  <2>7. state' = [g \in DOMAIN state' |-> [gate |-> g, value |-> state'[g].value, unit |-> state'[g].unit]]
    BY <2>5, <2>6
  <2> QED
    BY <1>1, <2>4, <2>5, <2>7 DEF Voltages
<1> QED
  BY <1>2, <1>3

\* A step of a measurement either ends it with an answer or leaves the hub
\* without one.
LEMMA MeasureStep ==
    ASSUME Waiting,
           \/ \E m \in Requests : MeasureCommand(m)
           \/ BuildMeasurementPlan
           \/ PlanPanics
           \/ ReadNumberOfPoints
           \/ RunPrimitive
           \/ CaptureVoltages
           \/ RecordMeasurement
    PROVE  /\ stage \notin {"load", "rejected"}
           /\ \/ reply' = None
              \/ stage' = "idle" /\ reply'.kind = "measure"
           /\ UNCHANGED <<cfg, wiremap, ports>>
           /\ UNCHANGED state \/ CaptureVoltages
<1>1. Refuse => stage' = "idle" /\ reply'.kind = "measure"
  BY DEF Refuse, Answer, Refused
<1>2. CASE \E m \in Requests : MeasureCommand(m)
  BY <1>1, <1>2 DEF MeasureCommand, hub
<1>3. CASE BuildMeasurementPlan
  BY <1>1, <1>3 DEF BuildMeasurementPlan, hub, Waiting
<1>8. CASE PlanPanics
  BY <1>8 DEF PlanPanics, hub, Waiting
<1>4. CASE ReadNumberOfPoints
  BY <1>1, <1>4 DEF ReadNumberOfPoints, hub, Waiting
<1>5. CASE RunPrimitive
  BY <1>1, <1>5 DEF RunPrimitive, hub, Waiting
<1>6. CASE CaptureVoltages
  BY <1>1, <1>6 DEF CaptureVoltages, hub, Waiting
<1>7. CASE RecordMeasurement
  BY <1>1, <1>7 DEF RecordMeasurement, Answer, hub, Waiting
<1> QED
  BY <1>2, <1>3, <1>4, <1>5, <1>6, <1>7, <1>8

-----------------------------------------------------------------------------
(* The theorems.                                                           *)

\* The catalogue stays sound and every answer is right: the inductive
\* invariant holds in every reachable state.
THEOREM Invariance == Spec => []IInv
<1>1. Init => IInv
  BY DEF Init, IInv, Waiting, RepliesReadBack, SettingsServed, None
<1>2. IInv /\ [Next]_vars => IInv'
  <2> SUFFICES ASSUME IInv, [Next]_vars
               PROVE  IInv'
    OBVIOUS
  <2>1. CASE Load
    <3>1. /\ reply' = reply /\ cfg' = cfg /\ reply = None
          /\ \/ stage' = "idle" /\ ValidConfig(cfg)
             \/ stage' = "rejected"
      BY <2>1 DEF Load, IInv, Waiting
    <3>2. Waiting' /\ RepliesReadBack' /\ SettingsServed'
      BY <3>1 DEF Waiting, RepliesReadBack, SettingsServed, None
    <3>3. stage' # "rejected" => Catalogued' /\ Voltages'
      BY <2>1, <3>1, LoadStep DEF IInv
    <3> QED
      BY <3>1, <3>2, <3>3 DEF IInv
  <2>2. ASSUME stage = "idle", UNCHANGED <<cfg, wiremap, ports, stage, state>>,
               Catalogued /\ Voltages => RepliesReadBack' /\ SettingsServed'
        PROVE  IInv'
    <3>1. Catalogued /\ Voltages
      BY <2>2 DEF IInv
    <3>2. Catalogued' /\ Voltages'
      BY <2>2, <3>1 DEF Catalogued, Voltages
    <3> QED
      BY <2>2, <3>1, <3>2 DEF IInv, Waiting
  <2>3. ASSUME NEW p \in Settings(ports), GetSetting(p)
        PROVE  IInv'
    <3>1. stage = "idle" /\ UNCHANGED <<cfg, wiremap, ports, stage, state>>
      BY <2>3 DEF GetSetting, hub
    <3> QED
      BY <2>2, <2>3, <3>1, GetSettingStep
  <2>4. ASSUME NEW p \in Settings(ports), SetSetting(p)
        PROVE  IInv'
    <3>1. stage = "idle" /\ UNCHANGED <<cfg, wiremap, ports, stage, state>>
      BY <2>4 DEF SetSetting, hub
    <3> QED
      BY <2>2, <2>4, <3>1, SetSettingStep
  <2>5. CASE PortRequest
    <3>1. stage = "idle" /\ UNCHANGED <<cfg, wiremap, ports, stage, state>>
      BY <2>5 DEF PortRequest, hub
    <3> QED
      BY <2>2, <2>5, <3>1, PortRequestStep
  <2>6. CASE StateRequest
    <3>1. stage = "idle" /\ UNCHANGED <<cfg, wiremap, ports, stage, state>>
      BY <2>6 DEF StateRequest, hub
    <3> QED
      BY <2>2, <2>6, <3>1, StateRequestStep
  <2>7. CASE \/ \E m \in Requests : MeasureCommand(m)
             \/ BuildMeasurementPlan
             \/ PlanPanics
             \/ ReadNumberOfPoints
             \/ RunPrimitive
             \/ CaptureVoltages
             \/ RecordMeasurement
    <3>1. /\ stage \notin {"load", "rejected"}
          /\ \/ reply' = None
             \/ stage' = "idle" /\ reply'.kind = "measure"
          /\ UNCHANGED <<cfg, wiremap, ports>>
          /\ UNCHANGED state \/ CaptureVoltages
      BY <2>7, MeasureStep DEF IInv
    <3>2. Waiting' /\ RepliesReadBack' /\ SettingsServed'
      BY <3>1 DEF Waiting, RepliesReadBack, SettingsServed, None
    <3>3. Catalogued /\ Voltages
      BY <3>1 DEF IInv
    <3>4. Catalogued'
      BY <3>1, <3>3 DEF Catalogued
    <3>5. Voltages'
      <4>1. CASE UNCHANGED state
        BY <3>1, <3>3, <4>1 DEF Voltages
      <4> QED
        BY <3>1, <3>3, <4>1, CaptureStep
    <3> QED
      BY <3>1, <3>2, <3>4, <3>5 DEF IInv
  <2>8. CASE UNCHANGED vars
    <3>1. UNCHANGED <<cfg, stage, wiremap, ports, state, reply>>
      BY <2>8 DEF vars
    <3>2. (Catalogued' <=> Catalogued) /\ (Voltages' <=> Voltages) /\ (Waiting' <=> Waiting)
      BY <3>1 DEF Catalogued, Voltages, Waiting
    <3>3. RepliesReadBack' <=> RepliesReadBack
      BY <3>1 DEF RepliesReadBack
    <3>4. SettingsServed' <=> SettingsServed
      BY <3>1 DEF SettingsServed, ChannelsOf
    <3> QED
      BY <3>1, <3>2, <3>3, <3>4 DEF IInv
  <2> QED
    BY <2>1, <2>3, <2>4, <2>5, <2>6, <2>7, <2>8 DEF Next
<1> QED
  BY <1>1, <1>2, PTL DEF Spec

\* Every port that is advertised leads back to its own entry of the catalogue,
\* a readable knob apart, and the device state is read back as it is, for any
\* configuration, requests, scripts and number of measurements.
THEOREM AdvertisedPortsReadBack == Spec => []RepliesReadBack
<1>1. IInv => RepliesReadBack
  BY DEF IInv
<1> QED
  BY <1>1, Invariance, PTL

\* A setting request acts on the channel its gate is wired to and on no other,
\* a value that was read arrives under its port, and a local scripted setting
\* is never turned away.
THEOREM SettingsReachTheirChannel == Spec => []SettingsServed
<1>1. IInv => SettingsServed
  BY DEF IInv
<1> QED
  BY <1>1, Invariance, PTL


-----------------------------------------------------------------------------
(* The request as the hub reads it.                                        *)

\* A port as it is read: nothing changes but the gate of a port that is not
\* local, and unit and connection are known.
PortRead(p, h) ==
    /\ p.unit = h.unit /\ p.scope = h.scope /\ p.unit \in KnownUnits
    /\ h.scope = "local" => p.gate = h.gate /\ p.gate[1] \in ConnectionTypes
    /\ p = [name |-> p.name, gate |-> p.gate, instrument |-> p.instrument, type |-> p.type,
            role |-> p.role, access |-> p.access, scope |-> p.scope, char |-> p.char, unit |-> p.unit]

\* The port that is read says what its handle says.
LEMMA ReadPort ==
    ASSUME NEW h, NEW p \in InstrumentPortFromFalcon(h)
    PROVE  PortRead(p, h)
<1>1. PortFields \subseteq DOMAIN h
  BY DEF InstrumentPortFromFalcon
<1>2. PICK u \in SymbolToUnit(h.unit),
           c \in (IF h.scope = "local" THEN Then(Read(h, "gate"), ConnectionFromFalcon) ELSE {NoGate}) :
              p = [f \in PortFields |-> h[f]] @@ ("gate" :> c)
  BY <1>1 DEF InstrumentPortFromFalcon
<1>3. p = [name |-> h.name, gate |-> c, instrument |-> h.instrument, type |-> h.type,
           role |-> h.role, access |-> h.access, scope |-> h.scope, char |-> h.char, unit |-> h.unit]
  BY <1>2, PortOfFields
<1>4. h.unit \in KnownUnits
  BY <1>2 DEF SymbolToUnit
<1>5. h.scope = "local" => c = h.gate /\ c[1] \in ConnectionTypes
  BY <1>2 DEF Then, Read, ConnectionFromFalcon
<1> QED
  BY <1>3, <1>4, <1>5 DEF PortRead

\* A list of ports.
LEMMA ReadPorts ==
    ASSUME NEW h, NEW x \in PortsFromFalcon(h)
    PROVE  x = [i \in DOMAIN h |-> x[i]] /\ \A i \in DOMAIN h : PortRead(x[i], h[i])
<1>1. /\ \A i \in DOMAIN h : InstrumentPortFromFalcon(h[i]) # {}
      /\ x = [i \in DOMAIN h |-> Only(InstrumentPortFromFalcon(h[i]))]
  BY DEF PortsFromFalcon, Each
<1>2. \A i \in DOMAIN h : x[i] \in InstrumentPortFromFalcon(h[i])
  BY <1>1 DEF Only
<1> QED
  BY <1>1, <1>2, ReadPort

\* A labelled domain.
LabelRead(l, h) ==
    /\ PortRead(l.port, h.port) /\ l.domain.lo = h.lo /\ l.domain.hi = h.hi
    /\ l = [port |-> l.port, domain |-> l.domain]
    /\ l.domain = [f \in DomainFields |-> l.domain[f]]

\* The same of a channel of an axis.
LEMMA ReadLabel ==
    ASSUME NEW h, NEW l \in LabelledDomainFromFalcon(h)
    PROVE  LabelRead(l, h)
<1>1. PICK p \in Then(Read(h, "port"), InstrumentPortFromFalcon), d \in DomainFromFalcon(h) :
         l = [port |-> p, domain |-> d]
  BY DEF LabelledDomainFromFalcon
<1>2. p \in InstrumentPortFromFalcon(h.port)
  BY <1>1 DEF Then, Read
<1>3. d = [f \in DomainFields |-> h[f]]
  BY <1>1 DEF DomainFromFalcon
<1>4. d.lo = h.lo /\ d.hi = h.hi /\ d = [f \in DomainFields |-> d[f]]
  BY <1>3 DEF DomainFields
<1>5. PortRead(p, h.port)
  BY <1>2, ReadPort
<1> QED
  BY <1>1, <1>4, <1>5 DEF LabelRead

\* The axes of a waveform.
LEMMA ReadCoupled ==
    ASSUME NEW h, NEW x \in CoupledLabelledDomainFromFalcon(h)
    PROVE  x = [j \in DOMAIN h |-> x[j]] /\ \A j \in DOMAIN h : LabelRead(x[j], h[j])
<1>1. /\ \A j \in DOMAIN h : LabelledDomainFromFalcon(h[j]) # {}
      /\ x = [j \in DOMAIN h |-> Only(LabelledDomainFromFalcon(h[j]))]
  BY DEF CoupledLabelledDomainFromFalcon, Each
<1>2. \A j \in DOMAIN h : x[j] \in LabelledDomainFromFalcon(h[j])
  BY <1>1 DEF Only
<1> QED
  BY <1>1, <1>2, ReadLabel

LEMMA ReadAxes ==
    ASSUME NEW h, NEW x \in AxesCoupledLabelledDomainFromFalcon(h)
    PROVE  /\ x = [i \in DOMAIN h |-> x[i]]
           /\ \A i \in DOMAIN h : /\ x[i] = [j \in DOMAIN h[i] |-> x[i][j]]
                                  /\ \A j \in DOMAIN h[i] : LabelRead(x[i][j], h[i][j])
<1>1. /\ \A i \in DOMAIN h : CoupledLabelledDomainFromFalcon(h[i]) # {}
      /\ x = [i \in DOMAIN h |-> Only(CoupledLabelledDomainFromFalcon(h[i]))]
  BY DEF AxesCoupledLabelledDomainFromFalcon, Each
<1>2. \A i \in DOMAIN h : x[i] \in CoupledLabelledDomainFromFalcon(h[i])
  BY <1>1 DEF Only
<1> QED
  BY <1>1, <1>2, ReadCoupled

\* A discretizer keeps its step.
LEMMA ReadDiscretizer ==
    ASSUME NEW h, NEW x \in DiscretizerFromFalcon(h)
    PROVE  x.delta = h.delta
  BY DEF DiscretizerFromFalcon, Read

\* The unit space: the bounds and the steps are kept.
LEMMA ReadUnitSpace ==
    ASSUME NEW h, NEW x \in UnitSpaceFromFalcon(h)
    PROVE  /\ x.domain.lo = h.domain.lo /\ x.domain.hi = h.domain.hi
           /\ DOMAIN x.axes = DOMAIN h.items
           /\ \A i \in DOMAIN h.items : x.axes[i].delta = h.items[i].delta
<1> DEFINE Discretizers(s) == IF \E i \in DOMAIN s : DiscretizerFromFalcon(s[i]) = {} THEN {}
                              ELSE {[i \in DOMAIN s |-> Only(DiscretizerFromFalcon(s[i]))]}
<1>1. PICK s, e, a, d :
         /\ s \in Read(h, "items") /\ a \in Discretizers(s)
         /\ e \in Read(h, "domain") /\ d \in DomainFromFalcon(e) /\ x = [axes |-> a, domain |-> d]
  BY DEF UnitSpaceFromFalcon, Then, Each
<1>2. s = h.items /\ e = h.domain
  BY <1>1 DEF Read
<1>3. d = [f \in DomainFields |-> h.domain[f]]
  BY <1>1, <1>2 DEF DomainFromFalcon
<1>4. /\ \A i \in DOMAIN h.items : DiscretizerFromFalcon(h.items[i]) # {}
      /\ a = [i \in DOMAIN h.items |-> Only(DiscretizerFromFalcon(h.items[i]))]
  BY <1>1, <1>2
<1>5. \A i \in DOMAIN h.items : a[i] \in DiscretizerFromFalcon(h.items[i])
  BY <1>4 DEF Only
<1>6. \A i \in DOMAIN h.items : a[i].delta = h.items[i].delta
  BY <1>5, ReadDiscretizer
<1> QED
  BY <1>1, <1>3, <1>4, <1>6 DEF DomainFields

\* The hub's request q and the client's request m.
RequestRead(q, m) ==
    LET s == q.waveforms[1].space
        h == m.waveforms[1].space
    IN  /\ q.getters = [i \in DOMAIN m.getters |-> q.getters[i]]
        /\ \A i \in DOMAIN m.getters : PortRead(q.getters[i], m.getters[i])
        /\ s.axes = [i \in DOMAIN h.axes |-> s.axes[i]]
        /\ \A i \in DOMAIN h.axes :
             /\ s.axes[i] = [j \in DOMAIN h.axes[i] |-> s.axes[i][j]]
             /\ \A j \in DOMAIN h.axes[i] : LabelRead(s.axes[i][j], h.axes[i][j])
        /\ s.space.domain.lo = h.space.domain.lo /\ s.space.domain.hi = h.space.domain.hi
        /\ \A i \in DOMAIN h.space.items : s.space.axes[i].delta = h.space.items[i].delta
        /\ s.increasing = [i \in DOMAIN h.increasing |-> PairsToMap(h.increasing[i])]

\* And of a request: nothing is lost or put elsewhere.
LEMMA ReadRequest ==
    ASSUME NEW m, NEW q \in MeasurementRequestFromFalcon(m), 1 \in DOMAIN m.waveforms
    PROVE  RequestRead(q, m)
<1>1. PICK w \in Then(Read(m, "waveforms"), WaveformsFromFalcon),
           g \in Then(Read(m, "getters"), PortsFromFalcon) :
             q.waveforms = w /\ q.getters = g
  BY DEF MeasurementRequestFromFalcon
<1>2. g \in PortsFromFalcon(m.getters) /\ w \in WaveformsFromFalcon(m.waveforms)
  BY <1>1 DEF Then, Read
<1>3. g = [i \in DOMAIN m.getters |-> g[i]] /\ \A i \in DOMAIN m.getters : PortRead(g[i], m.getters[i])
  BY <1>2, ReadPorts
<1>4. /\ \A i \in DOMAIN m.waveforms : WaveformFromFalcon(m.waveforms[i]) # {}
      /\ w = [i \in DOMAIN m.waveforms |-> Only(WaveformFromFalcon(m.waveforms[i]))]
  BY <1>2 DEF WaveformsFromFalcon, Each
<1>5. w[1] \in WaveformFromFalcon(m.waveforms[1])
  BY <1>4 DEF Only
<1>6. w[1].space \in DiscreteSpaceFromFalcon(m.waveforms[1].space)
  BY <1>5 DEF WaveformFromFalcon, Then, Read
<1> DEFINE s == w[1].space
           h == m.waveforms[1].space
<1> HIDE DEF s, h
<1>7. PICK u \in Then(Read(h, "space"), UnitSpaceFromFalcon),
           a \in Then(Read(h, "axes"), AxesCoupledLabelledDomainFromFalcon),
           i \in Then(Read(h, "increasing"), IncreasingFromFalcon) :
             s = [space |-> u, axes |-> a, increasing |-> i]
  BY <1>6 DEF DiscreteSpaceFromFalcon, s, h
<1>8. /\ u \in UnitSpaceFromFalcon(h.space) /\ a \in AxesCoupledLabelledDomainFromFalcon(h.axes)
      /\ i \in IncreasingFromFalcon(h.increasing)
  BY <1>7 DEF Then, Read
<1>9. i = [j \in DOMAIN h.increasing |-> PairsToMap(h.increasing[j])]
  BY <1>8 DEF IncreasingFromFalcon
<1>10. /\ u.domain.lo = h.space.domain.lo /\ u.domain.hi = h.space.domain.hi
       /\ \A j \in DOMAIN h.space.items : u.axes[j].delta = h.space.items[j].delta
  BY <1>8, ReadUnitSpace
<1>11. /\ a = [j \in DOMAIN h.axes |-> a[j]]
       /\ \A j \in DOMAIN h.axes : /\ a[j] = [k \in DOMAIN h.axes[j] |-> a[j][k]]
                                   /\ \A k \in DOMAIN h.axes[j] : LabelRead(a[j][k], h.axes[j][k])
  BY <1>8, ReadAxes
<1>12. q.waveforms[1].space = s /\ q.getters = g /\ m.waveforms[1].space = h
  BY <1>1 DEF s, h
<1>13. s.space = u /\ s.axes = a /\ s.increasing = i
  BY <1>7
<1> QED
  BY <1>3, <1>9, <1>10, <1>11, <1>12, <1>13, Zenon DEF RequestRead


-----------------------------------------------------------------------------
(* The grid of the request.                                                *)

\* UnitSpace.CreateArray: the arrays of falcon-core are read as they are.
LEMMA Created ==
    ASSUME NEW space, NEW axes
    PROVE  CreateArray(space, axes) = {[j \in DOMAIN axes |-> ProjectAxis(space, axes[j])]}
<1> DEFINE a == [j \in DOMAIN axes |-> ProjectAxis(space, axes[j])]
<1>1. ASSUME NEW i
      PROVE  ControlArrayFromFalcon(ProjectAxis(space, i)) = {ProjectAxis(space, i)}
  <2>1. PICK d, s : ProjectAxis(space, i) = [data |-> d, shape |-> s]
    BY DEF ProjectAxis
  <2>2. [f \in ArrayFields |-> [data |-> d, shape |-> s][f]] = [data |-> d, shape |-> s]
    BY DEF ArrayFields
  <2>3. ArrayFields \subseteq DOMAIN [data |-> d, shape |-> s]
    BY DEF ArrayFields
  <2> QED
    BY <2>1, <2>2, <2>3 DEF ControlArrayFromFalcon
<1>2. \A j \in DOMAIN a : ControlArrayFromFalcon(a[j]) = {a[j]}
  BY <1>1
<1>3. \A j \in DOMAIN a : Only(ControlArrayFromFalcon(a[j])) = a[j]
  BY <1>2 DEF Only
<1>4. a = [j \in DOMAIN a |-> a[j]]
  OBVIOUS
<1>5. CreateArray(space, axes) = IF \E j \in DOMAIN a : ControlArrayFromFalcon(a[j]) = {} THEN {}
                                 ELSE {[j \in DOMAIN a |-> Only(ControlArrayFromFalcon(a[j]))]}
  BY DEF CreateArray, AxesControlArrayFromFalcon, Each
<1> HIDE DEF a
<1>6. [j \in DOMAIN a |-> Only(ControlArrayFromFalcon(a[j]))] = a
  BY <1>3, <1>4
<1> QED
  BY <1>2, <1>5, <1>6 DEF a

LEMMA ValuesAre ==
    ASSUME NEW q, NEW i
    PROVE  AxisValues(q, i) = ProjectAxis(Space(q).space, i).data
<1>1. CreateArray(Space(q).space, <<i>>) = {[j \in {1} |-> ProjectAxis(Space(q).space, <<i>>[j])]}
  BY Created
<1>2. Only(CreateArray(Space(q).space, <<i>>))[1] = ProjectAxis(Space(q).space, i)
  BY <1>1 DEF Only
<1> QED
  BY <1>2 DEF AxisValues

\* The last pair of a connection.
LEMMA LastPair ==
    ASSUME NEW pairs, NEW n \in Nat, DOMAIN pairs = 1..n, NEW g \in {pairs[i][1] : i \in DOMAIN pairs}
    PROVE  \E i \in DOMAIN pairs : pairs[i][1] = g /\ \A j \in DOMAIN pairs : pairs[j][1] = g => j <= i
<1> DEFINE T == {n - i : i \in {j \in 1..n : pairs[j][1] = g}}
<1>1. T \subseteq Nat /\ T # {}
  OBVIOUS
<1>2. PICK x \in T : \A y \in T : ~ (<<y, x>> \in OpToRel(<, Nat))
  <2> HIDE DEF T
  <2> QED
    BY <1>1, WFMin, NatLessThanWellFounded
<1>3. \A y \in T : ~ (y < x)
  BY <1>1, <1>2 DEF OpToRel
<1>4. PICK i \in 1..n : pairs[i][1] = g /\ x = n - i
  OBVIOUS
<1>5. ASSUME NEW j \in 1..n, pairs[j][1] = g
      PROVE  j <= i
  <2>1. n - j \in T
    BY <1>5
  <2> HIDE DEF T
  <2>2. ~ (n - j < n - i)
    BY <1>3, <1>4, <2>1
  <2> QED
    BY <2>2
<1> QED
  BY <1>4, <1>5

\* IncreasingFromFalcon: the direction of a connection whose pairs agree.
LEMMA Direction ==
    ASSUME NEW pairs, NEW n \in Nat, DOMAIN pairs = 1..n,
           \A k \in DOMAIN pairs : pairs[k] \in {pairs[k][1]} \X BOOLEAN,
           \A j, k \in DOMAIN pairs : pairs[j][1] = pairs[k][1] => pairs[j] = pairs[k],
           NEW g \in DOMAIN PairsToMap(pairs)
    PROVE  \/ PairsToMap(pairs)[g] = TRUE /\ <<g, TRUE>> \in {pairs[j] : j \in DOMAIN pairs}
           \/ PairsToMap(pairs)[g] = FALSE /\ <<g, TRUE>> \notin {pairs[j] : j \in DOMAIN pairs}
<1> DEFINE Last(k) == CHOOSE i \in DOMAIN pairs :
                        pairs[i][1] = k /\ \A j \in DOMAIN pairs : pairs[j][1] = k => j <= i
<1>1. PairsToMap(pairs) = [k \in {pairs[i][1] : i \in DOMAIN pairs} |-> pairs[Last(k)][2]]
  BY DEF PairsToMap
<1>2. g \in {pairs[i][1] : i \in DOMAIN pairs} /\ PairsToMap(pairs)[g] = pairs[Last(g)][2]
  BY <1>1
<1>3. Last(g) \in DOMAIN pairs /\ pairs[Last(g)][1] = g
  BY <1>2, LastPair
<1> DEFINE l == Last(g)
<1> HIDE DEF l, Last
<1>4. l \in DOMAIN pairs /\ pairs[l][1] = g
  BY <1>3 DEF l
<1>5. pairs[l] = <<g, pairs[l][2]>> /\ pairs[l][2] \in BOOLEAN
  BY <1>4
<1>6. CASE pairs[l][2] = TRUE
  <2>1. <<g, TRUE>> \in {pairs[j] : j \in DOMAIN pairs}
    BY <1>4, <1>5, <1>6
  <2> QED
    BY <1>2, <1>6, <2>1 DEF l
<1>7. CASE pairs[l][2] = FALSE
  <2>1. ASSUME NEW j \in DOMAIN pairs, pairs[j] = <<g, TRUE>>
        PROVE  FALSE
    <3>1. pairs[j][1] = g
      BY <2>1
    <3>2. pairs[j] = pairs[l]
      BY <1>4, <3>1
    <3>3. pairs[j][2] = TRUE
      BY <2>1
    <3> QED
      BY <1>7, <3>2, <3>3
  <2>2. <<g, TRUE>> \notin {pairs[j] : j \in DOMAIN pairs}
    BY <2>1
  <2> QED
    BY <1>2, <1>7, <2>2 DEF l
<1> QED
  BY <1>5, <1>6, <1>7


\* A request with a waveform has a first one.
LEMMA FirstWaveform ==
    ASSUME NEW m \in Requests, NEW q \in MeasurementRequestFromFalcon(m), Len(q.waveforms) >= 1
    PROVE  1 \in DOMAIN m.waveforms
<1>1. Len(m.waveforms) \in Nat /\ DOMAIN m.waveforms = 1..Len(m.waveforms)
  BY RequestAssumption DEF IsList
<1>2. PICK w \in Then(Read(m, "waveforms"), WaveformsFromFalcon) : q.waveforms = w
  BY DEF MeasurementRequestFromFalcon
<1>3. w \in WaveformsFromFalcon(m.waveforms)
  BY <1>2 DEF Then, Read
<1>4. w = [i \in DOMAIN m.waveforms |-> Only(WaveformFromFalcon(m.waveforms[i]))]
  BY <1>3 DEF WaveformsFromFalcon, Each
<1>5. Len(w) = Len(m.waveforms)
  BY <1>1, <1>4
<1> QED
  BY <1>1, <1>2, <1>5

\* The lists and numbers of the waveform.
Listed(h) ==
    /\ IsList(h.axes) /\ \A j \in DOMAIN h.axes : IsList(h.axes[j])
    /\ h.space.domain.lo \in Int /\ h.space.domain.hi \in Int
    /\ \A j \in DOMAIN h.space.items : h.space.items[j].delta \in Int
    /\ \A j \in DOMAIN h.increasing :
         /\ IsList(h.increasing[j])
         /\ \A k \in DOMAIN h.increasing[j] : h.increasing[j][k] \in {h.increasing[j][k][1]} \X BOOLEAN

\* A request with a waveform is made of lists.
LEMMA WaveformListed ==
    ASSUME NEW m \in Requests, NEW q \in MeasurementRequestFromFalcon(m), 1 \in DOMAIN m.waveforms
    PROVE  Listed(ClientSpace(m)) /\ IsList(m.getters)
<1>1. MeasurementRequestFromFalcon(m) # {}
  OBVIOUS
<1> QED
  BY <1>1, RequestAssumption DEF Listed, ClientSpace

\* A port of a gate stands for a channel that is wired to the gate.
LEMMA PortChannel ==
    ASSUME Catalogued, NEW p, PortExists(p, ports), p.gate # NoGate
    PROVE  ConvertToTarget(p, ports) \in ChannelsOf(p.gate)
<1> DEFINE x == CHOOSE y \in ResolvePort(p, ports) : TRUE
<1>1. x \in ResolvePort(p, ports)
  BY DEF PortExists
<1> HIDE DEF x
<1>2. x \in ports /\ x.gate = p.gate
  BY <1>1 DEF ResolvePort
<1>3. Target(x) \in ChannelsOf(x.gate)
  BY <1>2, OwnChannel
<1> QED
  BY <1>2, <1>3 DEF ConvertToTarget, x

\* The points of an axis.
LEMMA PointsOfAxis ==
    ASSUME NEW lo \in Int, NEW hi \in Int, NEW delta \in Int, delta > 0, lo <= hi
    PROVE  ((hi - lo) \div delta) + 1 \in Pos
<1>1. hi - lo \in Nat /\ delta \in Pos
  BY DEF Pos
<1> DEFINE x == hi - lo
<1> HIDE DEF x
<1>2. x \div delta \in Nat
  BY <1>1, Division DEF x
<1>3. (x \div delta) + 1 \in Pos
  BY <1>2 DEF Pos
<1> QED
  BY <1>3 DEF x

\* The hub's request means the client's grid.
Meant(q, m) ==
    /\ Grid(q, ports)
    /\ ClientSlots(m) = Slots(q) /\ ClientShape(m) = ShapeFromSpace(q)
    /\ DOMAIN ClientSpace(m).axes = DOMAIN Axes(q) /\ Len(ClientSpace(m).axes) = Len(Axes(q))
    /\ \A i \in DOMAIN Axes(q) : ClientPoints(m, i) = AxisValues(q, i)
    /\ \A s \in Slots(q) : /\ LabelRead(Labelled(q, s), ClientPort(m, s))
                           /\ Labelled(q, s).port.gate = ClientPort(m, s).port.gate
                           /\ On(q, ports, s) \in ChannelsOf(ClientPort(m, s).port.gate)
    /\ IsList(m.getters) /\ DOMAIN q.getters = DOMAIN m.getters
    /\ \A i \in DOMAIN q.getters :
         /\ PortRead(q.getters[i], m.getters[i]) /\ q.getters[i].gate = m.getters[i].gate
         /\ GetterTargets(q, ports)[i] \in ChannelsOf(m.getters[i].gate)

\* The request the hub handles is the grid of the client.
LEMMA RequestMeant ==
    ASSUME Catalogued, NEW m \in Requests, NEW q \in MeasurementRequestFromFalcon(m),
           CanHandle(q, ports), WellPosed(m)
    PROVE  Meant(q, m)
<1> DEFINE h == ClientSpace(m)
<1>1. 1 \in DOMAIN m.waveforms
  BY FirstWaveform DEF CanHandle
<1>2. RequestRead(q, m) /\ Listed(h) /\ IsList(m.getters)
  BY <1>1, ReadRequest, WaveformListed
<1>3. Axes(q) = Space(q).axes /\ Space(q) = q.waveforms[1].space /\ h = m.waveforms[1].space
  BY DEF Axes, Space, ClientSpace
<1>4. /\ DOMAIN Axes(q) = DOMAIN h.axes /\ \A i \in DOMAIN h.axes : DOMAIN Axes(q)[i] = DOMAIN h.axes[i]
      /\ \A i \in DOMAIN h.axes : \A j \in DOMAIN h.axes[i] : LabelRead(Axes(q)[i][j], h.axes[i][j])
      /\ Axes(q) = [i \in DOMAIN h.axes |-> Axes(q)[i]]
  <2> DEFINE a == q.waveforms[1].space.axes
             c == m.waveforms[1].space.axes
  <2>1. /\ a = [i \in DOMAIN c |-> a[i]]
        /\ \A i \in DOMAIN c : /\ a[i] = [j \in DOMAIN c[i] |-> a[i][j]]
                               /\ \A j \in DOMAIN c[i] : LabelRead(a[i][j], c[i][j])
    BY <1>2, Zenon DEF RequestRead
  <2>2. DOMAIN a = DOMAIN c
    <3> HIDE DEF a, c
    <3> QED
      BY <2>1
  <2>3. \A i \in DOMAIN c : DOMAIN a[i] = DOMAIN c[i]
    <3> HIDE DEF a, c
    <3> TAKE i \in DOMAIN c
    <3>1. a[i] = [j \in DOMAIN c[i] |-> a[i][j]]
      BY <2>1
    <3> QED
      BY <3>1
  <2>4. a = Axes(q) /\ c = h.axes
    BY <1>3
  <2> HIDE DEF a, c, h
  <2>5. a = [i \in DOMAIN c |-> a[i]]
    BY <2>1
  <2> QED
    BY <2>1, <2>2, <2>3, <2>4, <2>5, Zenon
<1>5. /\ Len(h.axes) \in Nat /\ DOMAIN h.axes = 1..Len(h.axes)
      /\ \A i \in DOMAIN h.axes : DOMAIN h.axes[i] \subseteq Nat
  BY <1>2 DEF Listed, IsList
<1>6. Len(Axes(q)) = Len(h.axes)
  BY <1>4, <1>5
<1>7. ClientSlots(m) = Slots(q)
  BY <1>4 DEF ClientSlots, Slots
<1>8. \A s \in Slots(q) : /\ s[1] \in DOMAIN h.axes /\ s[2] \in DOMAIN h.axes[s[1]]
                          /\ Labelled(q, s) = Axes(q)[s[1]][s[2]] /\ ClientPort(m, s) = h.axes[s[1]][s[2]]
                          /\ LabelRead(Labelled(q, s), ClientPort(m, s))
  BY <1>4, Slot DEF Labelled, ClientPort
<1>9. ASSUME NEW i \in DOMAIN h.axes
      PROVE  /\ ClientPoints(m, i) = AxisValues(q, i)
             /\ Len(AxisValues(q, i)) \in Pos /\ DOMAIN AxisValues(q, i) = 1..Len(AxisValues(q, i))
             /\ DOMAIN h.axes[i] # {}
  <2> DEFINE lo == h.space.domain.lo
             hi == h.space.domain.hi
             delta == h.space.items[i].delta
             n == ((hi - lo) \div delta) + 1
  <2>1. DOMAIN h.axes[i] # {} /\ i \in DOMAIN h.space.items /\ delta > 0 /\ lo <= hi
    BY DEF WellPosed
  <2>2. lo \in Int /\ hi \in Int /\ delta \in Int
    BY <1>2, <2>1 DEF Listed
  <2>3. /\ Space(q).space.domain.lo = lo /\ Space(q).space.domain.hi = hi
        /\ Space(q).space.axes[i].delta = delta
    BY <1>2, <1>3, <2>1 DEF RequestRead
  <2> HIDE DEF lo, hi, delta
  <2>4. n \in Pos
    BY <2>1, <2>2, PointsOfAxis
  <2>5. AxisValues(q, i) = [k \in 1..n |-> lo + ((k - 1) * delta)]
    BY <2>3, ValuesAre DEF ProjectAxis
  <2>6. ClientPoints(m, i) = [k \in 1..n |-> lo + ((k - 1) * delta)]
    BY DEF ClientPoints, ProjectAxis, lo, hi, delta
  <2> HIDE DEF n
  <2>7. n \in Nat
    BY <2>4 DEF Pos
  <2>8. Len(AxisValues(q, i)) = n /\ DOMAIN AxisValues(q, i) = 1..n
    BY <2>5, <2>7
  <2> QED
    BY <2>1, <2>4, <2>5, <2>6, <2>8
<1>10. ShapeFromSpace(q) = ClientShape(m)
  BY <1>4, <1>9 DEF ShapeFromSpace, ClientShape
<1>11. ASSUME NEW s \in Slots(q)
       PROVE  /\ Labelled(q, s).port.gate = ClientPort(m, s).port.gate
              /\ On(q, ports, s) \in ChannelsOf(ClientPort(m, s).port.gate)
  <2>1. NamesGate(ClientPort(m, s).port)
    BY <1>7 DEF WellPosed
  <2>2. PortRead(Labelled(q, s).port, ClientPort(m, s).port)
    BY <1>8 DEF LabelRead
  <2>3. Labelled(q, s).port.gate = ClientPort(m, s).port.gate /\ Labelled(q, s).port.gate # NoGate
    BY <2>1, <2>2 DEF NamesGate, PortRead
  <2>4. PortExists(Labelled(q, s).port, ports)
    BY DEF CanHandle
  <2> QED
    BY <2>3, <2>4, PortChannel DEF On
<1>12. ASSUME NEW s \in Slots(q), NEW u \in Slots(q), On(q, ports, s) = On(q, ports, u)
       PROVE  s = u
  <2>1. ChannelsDistinct(m)
    BY DEF WellPosed
  <2>2. s # u => ChannelsOf(ClientPort(m, s).port.gate) \cap ChannelsOf(ClientPort(m, u).port.gate) = {}
    BY <1>7, <2>1 DEF ChannelsDistinct
  <2>3. /\ On(q, ports, s) \in ChannelsOf(ClientPort(m, s).port.gate)
        /\ On(q, ports, s) \in ChannelsOf(ClientPort(m, u).port.gate)
    BY <1>11, <1>12
  <2> QED
    BY <2>2, <2>3
<1>13. Grid(q, ports)
  BY <1>4, <1>5, <1>6, <1>9, <1>12 DEF Grid
<1>14. ASSUME NEW i \in DOMAIN m.getters
       PROVE  /\ i \in DOMAIN q.getters
              /\ PortRead(q.getters[i], m.getters[i]) /\ q.getters[i].gate = m.getters[i].gate
              /\ GetterTargets(q, ports)[i] \in ChannelsOf(m.getters[i].gate)
  <2>1. i \in DOMAIN q.getters /\ PortRead(q.getters[i], m.getters[i])
    BY <1>2 DEF RequestRead
  <2>2. NamesGate(m.getters[i])
    BY DEF WellPosed
  <2>3. q.getters[i].gate = m.getters[i].gate /\ q.getters[i].gate # NoGate
    BY <2>1, <2>2 DEF NamesGate, PortRead
  <2>4. PortExists(q.getters[i], ports)
    BY <2>1 DEF CanHandle
  <2> QED
    BY <2>1, <2>3, <2>4, PortChannel DEF GetterTargets
<1>15. DOMAIN q.getters = DOMAIN m.getters
  BY <1>2 DEF RequestRead
<1> QED
  BY <1>2, <1>4, <1>6, <1>7, <1>8, <1>9, <1>10, <1>11, <1>13, <1>14, <1>15 DEF Meant


\* The step on an axis is the client's.
LEMMA StepMeant ==
    ASSUME NEW m, NEW q, Meant(q, m), NEW k, NEW i \in DOMAIN Axes(q)
    PROVE  GridIndex(ClientShape(m), k)[i] = Step(q, k, i)
<1> DEFINE L == ShapeFromSpace(q)
<1>1. ClientShape(m) = L /\ Grid(q, ports)
  BY DEF Meant
<1>2. Len(L) = Len(Axes(q)) /\ DOMAIN L = DOMAIN Axes(q)
  BY <1>1, Lengths DEF ShapeFromSpace
<1> HIDE DEF L
<1>3. GridIndex(L, k)[i] = ((k - 1) \div Product(SubSeq(L, i + 1, Len(L)))) % L[i]
  BY <1>2 DEF GridIndex
<1> QED
  BY <1>1, <1>2, <1>3 DEF Step, Block, L

\* The voltage of a slot at a position is the client's.
LEMMA VoltageMeant ==
    ASSUME NEW m \in Requests, NEW q \in MeasurementRequestFromFalcon(m), CanHandle(q, ports),
           WellPosed(m), Meant(q, m), NEW c \in Nat, NEW s \in Slots(q), NEW k,
           s[1] > c => Labelled(q, s).port.gate \in DOMAIN Space(q).increasing[s[1]]
    PROVE  /\ s[1] > c => GridVoltage(q, c, s, k) = ClientVoltage(m, s, k)
           /\ s[1] <= c => GridVoltage(q, c, s, k) =
                             ClientPoints(m, s[1])[GridIndex(ClientShape(m), k)[s[1]] + 1]
<1> DEFINE i == s[1]
           h == ClientSpace(m)
           pairs == h.increasing[i]
           g == ClientPort(m, s).port.gate
<1>1. i \in DOMAIN Axes(q) /\ i \in Nat
  <2>1. i \in DOMAIN Axes(q)
    BY Slot
  <2> QED
    BY <2>1 DEF Meant, Grid
<1>2. GridIndex(ClientShape(m), k)[i] = Step(q, k, i)
  BY <1>1, StepMeant
<1>3. ClientShape(m) = ShapeFromSpace(q) /\ ClientPoints(m, i) = AxisValues(q, i)
  BY <1>1 DEF Meant
<1>4. ASSUME i <= c
      PROVE  GridVoltage(q, c, s, k) = ClientPoints(m, i)[GridIndex(ClientShape(m), k)[i] + 1]
  BY <1>2, <1>3, <1>4 DEF GridVoltage
<1>5. ASSUME i > c
      PROVE  GridVoltage(q, c, s, k) = ClientVoltage(m, s, k)
  <2>1. 1 \in DOMAIN m.waveforms
    BY FirstWaveform DEF CanHandle
  <2>2. RequestRead(q, m) /\ Listed(h)
    BY <2>1, ReadRequest, WaveformListed
  <2>3. i \in DOMAIN h.axes /\ s \in ClientSlots(m)
    BY <1>1 DEF Meant
  <2>4. /\ i \in DOMAIN h.increasing
        /\ \A j, l \in DOMAIN pairs : pairs[j][1] = pairs[l][1] => pairs[j] = pairs[l]
    BY <2>3 DEF WellPosed
  <2>5. Space(q).increasing[i] = PairsToMap(pairs)
    BY <2>2, <2>4 DEF RequestRead, Space, ClientSpace
  <2>6. Len(pairs) \in Nat /\ DOMAIN pairs = 1..Len(pairs) /\ \A l \in DOMAIN pairs : pairs[l] \in {pairs[l][1]} \X BOOLEAN
    BY <2>2, <2>4 DEF Listed, IsList
  <2>7. Labelled(q, s).port.gate = g /\ LabelRead(Labelled(q, s), ClientPort(m, s))
    BY DEF Meant
  <2>8. g \in DOMAIN PairsToMap(pairs)
    BY <1>5, <2>5, <2>7
  <2> HIDE DEF pairs, g, h
  <2>9. \/ PairsToMap(pairs)[g] = TRUE /\ <<g, TRUE>> \in {pairs[j] : j \in DOMAIN pairs}
        \/ PairsToMap(pairs)[g] = FALSE /\ <<g, TRUE>> \notin {pairs[j] : j \in DOMAIN pairs}
    BY <2>4, <2>6, <2>8, Direction
  <2> DEFINE d == Labelled(q, s).domain
             lo == ClientPort(m, s).lo
             hi == ClientPort(m, s).hi
             n == ShapeFromSpace(q)[i]
             up == PairsToMap(pairs)[g]
             isUp == <<g, TRUE>> \in {pairs[j] : j \in DOMAIN pairs}
             x == Step(q, k, i)
  <2>10. d.lo = lo /\ d.hi = hi
    BY <2>7 DEF LabelRead
  <2>11. GridVoltage(q, c, s, k) =
           IF n = 1 THEN (IF up THEN lo ELSE hi)
           ELSE (IF up THEN lo ELSE hi)
                + (x * ((IF up THEN hi ELSE lo) - (IF up THEN lo ELSE hi))) \div (n - 1)
    <3>1. ~(i <= c)
      BY <1>1, <1>5
    <3> QED
      BY <2>5, <2>7, <2>10, <3>1 DEF GridVoltage
  <2>12. ClientVoltage(m, s, k) =
           IF n = 1 THEN (IF isUp THEN lo ELSE hi)
           ELSE (IF isUp THEN lo ELSE hi)
                + (x * ((IF isUp THEN hi ELSE lo) - (IF isUp THEN lo ELSE hi))) \div (n - 1)
    BY <1>2, <1>3 DEF ClientVoltage, g, pairs, h
  <2> HIDE DEF lo, hi, n, x, d
  <2>13. CASE up = TRUE /\ isUp
    BY <2>11, <2>12, <2>13
  <2>14. CASE up = FALSE /\ ~isUp
    BY <2>11, <2>12, <2>14
  <2> QED
    BY <2>9, <2>13, <2>14
<1> QED
  BY <1>4, <1>5


-----------------------------------------------------------------------------
(* The answer and the file, there and back.                                *)

\* An array with its context: of a known connection and unit it is kept.
Kept(l) ==
    /\ l = [gate |-> l.gate, unit |-> l.unit, type |-> l.type, data |-> l.data, shape |-> l.shape]
    /\ l.gate[1] \in ConnectionTypes /\ l.unit \in KnownUnits

\* The context of an array and its data are the array.
LEMMA ContextAndArray ==
    ASSUME NEW g, NEW u, NEW t, NEW d, NEW s
    PROVE  LET l == [gate |-> g, unit |-> u, type |-> t, data |-> d, shape |-> s]
           IN  [gate |-> g, unit |-> u, type |-> t] @@ [f \in ArrayFields |-> l[f]] = l
<1> DEFINE l == [gate |-> g, unit |-> u, type |-> t, data |-> d, shape |-> s]
           c == [gate |-> g, unit |-> u, type |-> t]
           a == [f \in ArrayFields |-> l[f]]
<1>1. /\ l = [x \in {"gate", "unit", "type"} \cup ArrayFields |-> l[x]]
      /\ {"gate", "unit", "type"} \cup ArrayFields = DOMAIN c \cup DOMAIN a
      /\ \A x \in DOMAIN c : c[x] = l[x]
      /\ \A x \in DOMAIN a : a[x] = l[x]
  BY DEF ArrayFields
<1>2. c @@ a = l
  <2> HIDE DEF l, c, a
  <2> QED
    BY <1>1, Merged
<1> QED
  BY <1>2, Zenon

\* An array is written and read as it is.
LEMMA ArrayKept ==
    ASSUME NEW l, Kept(l)
    PROVE  NewFalconLabelledMeasuredArray(l) = {l} /\ LabelledMeasuredArrayFromFalcon(l) = {l}
<1> DEFINE c == [gate |-> l.gate, unit |-> l.unit, type |-> l.type]
           a == [f \in ArrayFields |-> l[f]]
<1>1. c @@ a = l
  BY ContextAndArray DEF Kept
<1>2. NewFalconConnection(l.gate) = {l.gate} /\ NewSymbolUnit(l.unit) = {l.unit}
  BY DEF Kept, NewFalconConnection, NewSymbolUnit
<1>3. NewFalconAcquisitionContext(l) = {c}
  BY <1>2 DEF NewFalconAcquisitionContext
<1>4. NewFalconMeasuredArray(l) = {a}
  BY DEF NewFalconMeasuredArray
<1>5. DOMAIN l = {"gate", "unit", "type", "data", "shape"}
  BY DEF Kept
<1>6. /\ Then(Read(l, "gate"), ConnectionFromFalcon) = {l.gate}
      /\ Then(Read(l, "unit"), SymbolToUnit) = {l.unit} /\ Read(l, "type") = {l.type}
  BY <1>5 DEF Kept, Then, Read, ConnectionFromFalcon, SymbolToUnit
<1>7. AcquisitionContextFromFalcon(l) = {c}
  BY <1>6 DEF AcquisitionContextFromFalcon
<1>8. MeasuredArrayFromFalcon(l) = {a}
  BY <1>5 DEF MeasuredArrayFromFalcon, ControlArrayFromFalcon, ArrayFields
<1> HIDE DEF c, a
<1>9. NewFalconLabelledMeasuredArray(l) = {c @@ a}
  BY <1>3, <1>4 DEF NewFalconLabelledMeasuredArray
<1>10. LabelledMeasuredArrayFromFalcon(l) = {c @@ a}
  BY <1>7, <1>8 DEF LabelledMeasuredArrayFromFalcon
<1> QED
  BY <1>1, <1>9, <1>10

\* So are the arrays of an answer.
LEMMA ArraysKept ==
    ASSUME NEW r, r = [i \in DOMAIN r |-> r[i]], \A i \in DOMAIN r : Kept(r[i])
    PROVE  NewFalconLabelledMeasuredArrays(r) = {r} /\ LabelledMeasuredArraysFromFalcon(r) = {r}
<1>1. \A i \in DOMAIN r : NewFalconLabelledMeasuredArray(r[i]) = {r[i]} /\ LabelledMeasuredArrayFromFalcon(r[i]) = {r[i]}
  BY ArrayKept
<1>2. \A i \in DOMAIN r : /\ Only(NewFalconLabelledMeasuredArray(r[i])) = r[i]
                          /\ Only(LabelledMeasuredArrayFromFalcon(r[i])) = r[i]
  BY <1>1 DEF Only
<1>3. NewFalconLabelledMeasuredArrays(r) = {[i \in DOMAIN r |-> r[i]]}
  BY <1>1, <1>2 DEF NewFalconLabelledMeasuredArrays, Each
<1>4. LabelledMeasuredArraysFromFalcon(r) = {[i \in DOMAIN r |-> r[i]]}
  BY <1>1, <1>2 DEF LabelledMeasuredArraysFromFalcon, Each
<1> QED
  BY <1>3, <1>4

\* The answer arrives as it was sent.
LEMMA AnswerKept ==
    ASSUME NEW r, r = [i \in DOMAIN r |-> r[i]], \A i \in DOMAIN r : Kept(r[i])
    PROVE  /\ NewFalconMeasurementResponse([arrays |-> r]) = {[arrays |-> r]}
           /\ MeasurementResponseFromFalcon([arrays |-> r]) = {[arrays |-> r]}
<1>1. NewFalconMeasurementResponse([arrays |-> r]) = {[arrays |-> r]}
  BY ArraysKept DEF NewFalconMeasurementResponse
<1>2. Then(Read([arrays |-> r], "arrays"), LabelledMeasuredArraysFromFalcon) = LabelledMeasuredArraysFromFalcon(r)
  BY DEF Then, Read
<1>3. MeasurementResponseFromFalcon([arrays |-> r]) = {[arrays |-> a] : a \in LabelledMeasuredArraysFromFalcon(r)}
  BY <1>2 DEF MeasurementResponseFromFalcon
<1> QED
  BY <1>1, <1>3, ArraysKept

\* A labelled domain of a gate can be written and read.
LEMMA LabelKept ==
    ASSUME NEW l, NEW h, LabelRead(l, h), h.port.scope = "local"
    PROVE  /\ NewFalconLabelledDomain(l) # {}
           /\ \A x \in NewFalconLabelledDomain(l) : LabelledDomainFromFalcon(x) # {}
<1> DEFINE p == l.port
           x == ("port" :> p) @@ l.domain
<1>1. PortRead(p, h.port)
  BY DEF LabelRead
<1>2. /\ p.unit \in KnownUnits /\ p.scope = "local" /\ p.gate[1] \in ConnectionTypes
      /\ p = [name |-> p.name, gate |-> p.gate, instrument |-> p.instrument, type |-> p.type,
              role |-> p.role, access |-> p.access, scope |-> p.scope, char |-> p.char, unit |-> p.unit]
  BY <1>1 DEF PortRead
<1>3. InstrumentPortFromFalcon(p) # {}
  <2> HIDE DEF p
  <2> QED
    BY <1>2, PortOfRecord
<1>4. NewFalconInstrumentPort(p) = {p}
  <2> HIDE DEF p
  <2>1. NewFalconConnection(p.gate) # {} /\ NewSymbolUnit(p.unit) = {p.unit}
    BY <1>2 DEF NewFalconConnection, NewSymbolUnit
  <2>2. NewFalconInstrumentPort(p) = {[f \in PortFields |-> p[f]] @@ ("gate" :> p.gate)}
    BY <2>1 DEF NewFalconInstrumentPort
  <2>3. [f \in PortFields |-> p[f]] @@ ("gate" :> p.gate) =
          [name |-> p.name, gate |-> p.gate, instrument |-> p.instrument, type |-> p.type,
           role |-> p.role, access |-> p.access, scope |-> p.scope, char |-> p.char, unit |-> p.unit]
    BY PortOfFields
  <2> QED
    BY <1>2, <2>2, <2>3
<1>5. l.domain = [f \in DomainFields |-> l.domain[f]]
  BY DEF LabelRead
<1>6. NewFalconDomain(l.domain) = {l.domain}
  BY <1>5 DEF NewFalconDomain
<1>7. NewFalconLabelledDomain(l) = {x}
  <2> DEFINE y == NewFalconInstrumentPort(p)
             z == NewFalconDomain(l.domain)
             labelled(a, b) == ("port" :> a) @@ b
  <2>1. NewFalconLabelledDomain(l) = {labelled(a, b) : a \in y, b \in z}
    BY DEF NewFalconLabelledDomain
  <2>2. y = {p} /\ z = {l.domain}
    BY <1>4, <1>6
  <2>3. x = labelled(p, l.domain)
    OBVIOUS
  <2> HIDE DEF y, z, labelled, x, p
  <2> QED
    BY <2>1, <2>2, <2>3
<1>8. DOMAIN x = {"port"} \cup DomainFields /\ x["port"] = p
  <2> DEFINE one == "port" :> p
             d == l.domain
  <2>1. DOMAIN one = {"port"} /\ one["port"] = p
    BY Single
  <2>2. DOMAIN d = DomainFields
    BY <1>5
  <2> DEFINE both == one @@ d
  <2>3. x = both
    OBVIOUS
  <2> HIDE DEF one, d, x, p
  <2>4. DOMAIN both = DOMAIN one \cup DOMAIN d /\ \A i \in DOMAIN one : both[i] = one[i]
    BY MergedAt
  <2> HIDE DEF both
  <2> QED
    BY <2>1, <2>2, <2>3, <2>4
<1> HIDE DEF x, p
<1>9. Read(x, "port") = {p}
  BY <1>8 DEF Read
<1>10. PICK d : d \in DomainFromFalcon(x)
  BY <1>8 DEF DomainFromFalcon
<1>11. PICK y : y \in InstrumentPortFromFalcon(p)
  BY <1>3
<1>12. [port |-> y, domain |-> d] \in LabelledDomainFromFalcon(x)
  BY <1>9, <1>10, <1>11 DEF LabelledDomainFromFalcon, Then
<1> QED
  BY <1>7, <1>12


\* The axes of a request can be written and read.
LEMMA AxesKept ==
    ASSUME NEW a, NEW h, DOMAIN a = DOMAIN h, \A i \in DOMAIN h : DOMAIN a[i] = DOMAIN h[i],
           \A i \in DOMAIN h : \A j \in DOMAIN h[i] : LabelRead(a[i][j], h[i][j]) /\ h[i][j].port.scope = "local"
    PROVE  \E x \in NewFalconAxesCoupledLabelledDomain(a) : AxesCoupledLabelledDomainFromFalcon(x) # {}
<1>1. \A i \in DOMAIN a : \A j \in DOMAIN a[i] :
        /\ NewFalconLabelledDomain(a[i][j]) # {}
        /\ \A x \in NewFalconLabelledDomain(a[i][j]) : LabelledDomainFromFalcon(x) # {}
  BY LabelKept
<1> DEFINE coupled(i) == [j \in DOMAIN a[i] |-> Only(NewFalconLabelledDomain(a[i][j]))]
           x == [i \in DOMAIN a |-> coupled(i)]
<1>2. \A i \in DOMAIN a : NewFalconCoupledLabelledDomain(a[i]) = {coupled(i)}
  BY <1>1 DEF NewFalconCoupledLabelledDomain, Each
<1>3. ASSUME NEW i \in DOMAIN a, NEW j \in DOMAIN a[i]
      PROVE  LabelledDomainFromFalcon(coupled(i)[j]) # {}
  <2>1. Only(NewFalconLabelledDomain(a[i][j])) \in NewFalconLabelledDomain(a[i][j])
    BY <1>1 DEF Only
  <2> QED
    BY <1>1, <2>1
<1>4. \A i \in DOMAIN a : DOMAIN coupled(i) = DOMAIN a[i]
  OBVIOUS
<1> HIDE DEF coupled
<1>5. \A i \in DOMAIN a : CoupledLabelledDomainFromFalcon(coupled(i)) # {}
  BY <1>3, <1>4 DEF CoupledLabelledDomainFromFalcon, Each
<1>6. \A i \in DOMAIN a : Only(NewFalconCoupledLabelledDomain(a[i])) = coupled(i)
  BY <1>2 DEF Only
<1>7. x \in NewFalconAxesCoupledLabelledDomain(a)
  BY <1>2, <1>6 DEF NewFalconAxesCoupledLabelledDomain, Each
<1>8. DOMAIN x = DOMAIN a /\ \A i \in DOMAIN a : x[i] = coupled(i)
  OBVIOUS
<1> HIDE DEF x
<1>9. AxesCoupledLabelledDomainFromFalcon(x) # {}
  BY <1>5, <1>8 DEF AxesCoupledLabelledDomainFromFalcon, Each
<1> QED
  BY <1>7, <1>9

\* The unit domain can be written and read.
LEMMA UnitDomainKept ==
    ASSUME NEW u
    PROVE  \E x \in NewFalconAxesControlArray(u) : AxesControlArrayFromFalcon(x) # {}
<1> DEFINE a(i) == [f \in ArrayFields |-> u[i][f]]
           x == [i \in DOMAIN u |-> a(i)]
<1>1. \A i \in DOMAIN u : NewFalconControlArray(u[i]) = {a(i)}
  BY DEF NewFalconControlArray
<1>2. \A i \in DOMAIN u : ControlArrayFromFalcon(a(i)) # {}
  BY DEF ControlArrayFromFalcon
<1> HIDE DEF a
<1>3. \A i \in DOMAIN u : Only(NewFalconControlArray(u[i])) = a(i)
  BY <1>1 DEF Only
<1>4. x \in NewFalconAxesControlArray(u)
  BY <1>1, <1>3 DEF NewFalconAxesControlArray, Each
<1>5. DOMAIN x = DOMAIN u /\ \A i \in DOMAIN u : x[i] = a(i)
  OBVIOUS
<1> HIDE DEF x
<1>6. AxesControlArrayFromFalcon(x) # {}
  BY <1>2, <1>5 DEF AxesControlArrayFromFalcon, Each
<1> QED
  BY <1>4, <1>6

\* The file of a measurement can be read back, with the arrays and the shape.
LEMMA FileKept ==
    ASSUME NEW e, NEW r, e.ranges = r, r = [i \in DOMAIN r |-> r[i]], \A i \in DOMAIN r : Kept(r[i]),
           \E x \in NewFalconAxesCoupledLabelledDomain(e.labels) : AxesCoupledLabelledDomainFromFalcon(x) # {}
    PROVE  \E file \in UNION {DatabaseEntryFromFalcon(f) : f \in NewFalconDatabaseEntry(e)} :
              file.ranges = r /\ file.shape = e.shape
<1>1. NewFalconLabelledMeasuredArrays(r) = {r} /\ LabelledMeasuredArraysFromFalcon(r) = {r}
  BY ArraysKept
<1>2. PICK l \in NewFalconAxesCoupledLabelledDomain(e.labels) : AxesCoupledLabelledDomainFromFalcon(l) # {}
  OBVIOUS
<1>3. PICK u \in NewFalconAxesControlArray(e.unitDomain) : AxesControlArrayFromFalcon(u) # {}
  BY UnitDomainKept
<1>4. PICK m : m \in NewFalconMetadata(e.metadata)
  BY DEF NewFalconMetadata
<1> DEFINE f == [shape |-> e.shape, unitDomain |-> u, labels |-> l, ranges |-> r, metadata |-> m]
<1>5. f \in NewFalconDatabaseEntry(e)
  BY <1>1, <1>2, <1>3, <1>4 DEF NewFalconDatabaseEntry
<1>6. PICK l1 : l1 \in AxesCoupledLabelledDomainFromFalcon(l)
  BY <1>2
<1>7. PICK u1 : u1 \in AxesControlArrayFromFalcon(u)
  BY <1>3
<1>8. PICK m1 : m1 \in MetadataFromFalcon(m)
  BY DEF MetadataFromFalcon
<1> DEFINE file == [shape |-> e.shape, unitDomain |-> u1, labels |-> l1, ranges |-> r, metadata |-> m1]
<1>9. f.shape = e.shape /\ f.unitDomain = u /\ f.labels = l /\ f.ranges = r /\ f.metadata = m
  OBVIOUS
<1> HIDE DEF f
<1>10. file \in DatabaseEntryFromFalcon(f)
  BY <1>1, <1>6, <1>7, <1>8, <1>9 DEF DatabaseEntryFromFalcon
<1>11. file.ranges = r /\ file.shape = e.shape
  OBVIOUS
<1> HIDE DEF file
<1> QED
  BY <1>5, <1>10, <1>11


-----------------------------------------------------------------------------
(* A measurement under way.                                                *)

Targets == {GetterTargets(req, ports)[i] : i \in DOMAIN req.getters}
Leaves == BuildPlan(req, ports, << >>, dims).leaves
Count(t) == IF points[t] = 0 THEN 1 ELSE points[t]

\* The positions of one script of a plan that fixes c axes.
PerLeaf(c) == Block(ShapeFromSpace(req), c + 1, Len(Axes(req)))

\* What a sample of getter t can be.
SampleSet(t) ==
    UNION {{Sample(Leaves[l], t, Position(AxisCounts(Leaves[l]), k)) : k \in Nat} : l \in 1..Len(Leaves)}

\* The samples of a getter after d scripts: what each script takes at each of
\* its positions, one script after the other.
Taken(c, d, t) ==
    Blocks(output[t], [l \in 1..Len(Leaves) |-> Samples(Leaves[l], t, Count(t))], d, PerLeaf(c) * Count(t))

\* The plan fixes c axes and d of its scripts have run.
Running(c, d) ==
    /\ Fixed(req, dims, 0, c) /\ RowMajor(Leaves, req, ports, << >>, 0, c)
    /\ d <= Len(Leaves) /\ plan = SubSeq(Leaves, d + 1, Len(Leaves))
    /\ DOMAIN points = Targets /\ DOMAIN output = Targets
    /\ \A t \in Targets : points[t] \in Int /\ output[t] \in Seq(SampleSet(t)) /\ Taken(c, d, t)
    /\ d > 0 => /\ \A i, j \in DOMAIN req.getters :
                      i # j => GetterTargets(req, ports)[i] # GetterTargets(req, ports)[j]
                /\ \A t \in Targets : points[t] >= 0

\* The hub has read the request it is serving.
Taking ==
    msg \in Requests /\ req \in MeasurementRequestFromFalcon(msg) /\ CanHandle(req, ports)

\* A measurement of a well-posed request that goes on has run some of its
\* plan and has the samples of those scripts, in order.
UnderWay ==
    WellPosed(msg) =>
        \E c, d \in Nat : /\ Running(c, d)
                          /\ stage = "points" => d = 0
                          /\ stage = "record" => plan = << >>

\* The inductive invariant of a measurement.
GridInv ==
    /\ dims \in ScriptSets
    /\ stage \in {"plan", "points", "run", "record"} => Taking
    /\ stage \in {"points", "run", "record"} => UnderWay
    /\ AnswerIsGrid

\* Nothing is said about an answer that is not one.
LEMMA NoAnswer ==
    ASSUME reply' = Refused \/ reply' = None \/ reply'.kind # "measure"
    PROVE  AnswerIsGrid'
<1>1. ~Answered'
  BY DEF Answered, Refused, None
<1> QED
  BY <1>1 DEF AnswerIsGrid

\* handleMeasureCommand: the request that is read is the client's.
LEMMA CommandTakes ==
    ASSUME NEW m \in Requests, MeasureCommand(m)
    PROVE  AnswerIsGrid' /\ (stage' # "idle" => stage' = "plan" /\ Taking')
<1> DEFINE read == MeasurementRequestFromFalcon(m)
<1>1. CASE read = {}
  BY <1>1, NoAnswer DEF MeasureCommand, Refuse, Answer
<1>2. CASE read # {}
  <2>1. req' = Only(read) /\ msg' = m /\ ports' = ports
    BY <1>2 DEF MeasureCommand, hub
  <2>2. req' \in MeasurementRequestFromFalcon(m)
    BY <1>2, <2>1 DEF Only
  <2>3. CASE CanHandle(req', ports)
    <3>1. stage' = "plan" /\ reply' = None
      BY <1>2, <2>3 DEF MeasureCommand
    <3> QED
      BY <2>1, <2>2, <2>3, <3>1, NoAnswer DEF Taking
  <2>4. CASE ~CanHandle(req', ports)
    <3>1. Refuse
      BY <1>2, <2>4 DEF MeasureCommand
    <3> QED
      BY <3>1, NoAnswer DEF Refuse, Answer
  <2> QED
    BY <2>3, <2>4
<1> QED
  BY <1>1, <1>2

\* A plan that was built, and how it divides the grid.
Planned(c) ==
    /\ c \in 0..Len(Axes(req)) /\ Len(Axes(req)) - c \in 0..2
    /\ PerLeaf(c) \in Pos /\ Leaves \in Seq({PrimitiveInput(req, g, ports) : g \in Fixings(req)})
    /\ Len(Leaves) \in Pos
    /\ \A l \in 1..Len(Leaves) :
         /\ SettersOK(req, PointsAt(req, << >>, 0, c, l)) /\ DOMAIN PointsAt(req, << >>, 0, c, l) = 1..c
         /\ Leaves[l].getters = GetterTargets(req, ports)
         /\ Product(AxisCounts(Leaves[l])) = PerLeaf(c)

\* The plan of a request in progress divides its grid: a row-major plan, with
\* as many leaves as there are points on the axes it fixes.
LEMMA PlanDivides ==
    ASSUME Grid(req, ports), dims \in ScriptSets, NEW c, Fixed(req, dims, 0, c),
           RowMajor(Leaves, req, ports, << >>, 0, c)
    PROVE  Planned(c)
<1> DEFINE L == ShapeFromSpace(req)
           r == Len(Axes(req))
<1>1. L \in Seq(Pos) /\ Len(L) = r /\ r \in Nat
  <2>1. r \in Nat
    BY DEF Grid
  <2> QED
    BY <2>1, Lengths
<1>2. c \in 0..r /\ r - c \in dims /\ dims \subseteq 0..2
  BY ScriptSetsAssumption DEF Fixed
<1>3. PerLeaf(c) \in Pos /\ Block(L, 1, c) \in Pos
  <2> HIDE DEF L, r
  <2>1. c + 1 \in 1..(Len(L) + 1) /\ r \in ((c + 1) - 1)..Len(L)
    BY <1>1, <1>2
  <2>2. Block(L, c + 1, r) \in Pos
    BY <1>1, <2>1, BlockStep
  <2>3. 1 \in 1..(Len(L) + 1) /\ c \in (1 - 1)..Len(L)
    BY <1>1, <1>2
  <2>4. Block(L, 1, c) \in Pos
    BY <1>1, <2>3, BlockStep
  <2> QED
    BY <2>2, <2>4 DEF PerLeaf, L, r
<1>4. /\ Leaves \in Seq({PrimitiveInput(req, g, ports) : g \in Fixings(req)})
      /\ Len(Leaves) = Block(L, 1, c)
  BY DEF RowMajor
<1>5. ASSUME NEW l \in 1..Len(Leaves)
      PROVE  /\ SettersOK(req, PointsAt(req, << >>, 0, c, l)) /\ DOMAIN PointsAt(req, << >>, 0, c, l) = 1..c
             /\ Leaves[l].getters = GetterTargets(req, ports)
             /\ Product(AxisCounts(Leaves[l])) = PerLeaf(c)
  <2> DEFINE f == PointsAt(req, << >>, 0, c, l)
  <2>1. DOMAIN f = 1..c
    BY DEF PointsAt
  <2>2. SettersOK(req, f) /\ Leaves[l] = PrimitiveInput(req, f, ports)
    BY DEF RowMajor
  <2> HIDE DEF f
  <2>3. /\ PrimitiveInput(req, f, ports).getters = GetterTargets(req, ports)
        /\ AxisCounts(PrimitiveInput(req, f, ports)) = [b \in 1..(r - c) |-> L[c + b]]
    BY <1>2, <2>1, InputOf
  <2>4. Product([b \in 1..(r - c) |-> L[c + b]]) = Block(L, c + 1, r)
    <3> HIDE DEF L, r
    <3> QED
      BY <1>1, <1>2, CountsAre
  <2> QED
    BY <2>1, <2>2, <2>3, <2>4 DEF PerLeaf, f
<1> QED
  BY <1>2, <1>3, <1>4, <1>5 DEF Planned

\* Before the first script there are no samples.
LEMMA NothingTaken ==
    ASSUME NEW x, Len(x) = 0, NEW M \in Int, NEW part
    PROVE  Blocks(x, part, 0, M)
  BY DEF Blocks

\* BuildPlan: the measurement starts with all of its plan before it.
LEMMA PlanStarts ==
    ASSUME Catalogued, dims \in ScriptSets, Taking, BuildMeasurementPlan, stage' # "idle", WellPosed(msg)
    PROVE  \E c \in Nat : Running(c, 0)'
<1>1. Meant(req, msg)
  BY RequestMeant DEF Taking
<1>2. Grid(req, ports)
  BY <1>1 DEF Meant
<1> DEFINE built == BuildPlan(req, ports, << >>, dims)
<1>3. ~(dims = {} \/ ~built.ok)
  BY DEF BuildMeasurementPlan, Refuse, Answer
<1>4. /\ plan' = built.leaves /\ points' = [t \in Targets |-> 0]
      /\ output' = [t \in DOMAIN points' |-> << >>] /\ UNCHANGED <<req, ports, dims>>
  BY <1>3 DEF BuildMeasurementPlan, Targets, hub
<1>5. PICK c : Fixed(req, dims, 0, c) /\ RowMajor(Leaves, req, ports, << >>, 0, c)
  BY <1>2, <1>3, PlanRowMajor DEF Leaves
<1>6. Planned(c)
  BY <1>2, <1>5, PlanDivides
<1>7. Leaves' = Leaves /\ Targets' = Targets /\ PerLeaf(c)' = PerLeaf(c) /\ plan' = Leaves
  BY <1>4 DEF Leaves, Targets, PerLeaf
<1>8. /\ Fixed(req, dims, 0, c)' /\ RowMajor(Leaves, req, ports, << >>, 0, c)'
      /\ DOMAIN points' = Targets' /\ DOMAIN output' = Targets'
  BY <1>4, <1>5, <1>7
<1>9. Len(Leaves) \in Nat /\ Leaves = SubSeq(Leaves, 1, Len(Leaves))
  BY <1>6 DEF Planned, Pos
<1>10. ASSUME NEW t \in Targets
       PROVE  points'[t] \in Int /\ output'[t] \in Seq(SampleSet(t)') /\ Taken(c, 0, t)'
  <2>1. points'[t] = 0 /\ output'[t] = << >>
    BY <1>4
  <2>2. Count(t)' = 1
    BY <2>1 DEF Count
  <2>3. PerLeaf(c)' * Count(t)' \in Int
    BY <1>6, <1>7, <2>2 DEF Planned, Pos
  <2>4. Taken(c, 0, t)'
    BY <2>1, <2>3, NothingTaken DEF Taken
  <2> QED
    BY <2>1, <2>4
<1>11. c \in Nat
  BY <1>6 DEF Planned
<1>12. Running(c, 0)'
  BY <1>7, <1>8, <1>9, <1>10 DEF Running
<1> QED
  BY <1>11, <1>12

\* A setting that can be read is one of a channel.
LEMMA ReadableSetting ==
    ASSUME Catalogued, NEW p \in Settings(ports), p.char = Base("number_of_samples"),
           Readable(InstrumentPort(p)) # {}
    PROVE  p.scope = "local" /\ <<"get", p.char>> \in cfg.scripts
<1> DEFINE port == InstrumentPort(p)
<1>1. p \in ports /\ Sound(p, cfg.instruments)
  BY DEF Settings, Catalogued
<1>2. port.char = p.char /\ p \in ResolvePort(port, ports) /\ \A q \in ResolvePort(port, ports) : q \in ports /\ q.name = p.name
  BY <1>1 DEF InstrumentPort, ResolvePort, MatchesPort
<1>3. SettingTarget(port) = Target(p)
  <2>1. Only(ResolvePort(port, ports)) \in ResolvePort(port, ports)
    BY <1>2 DEF Only
  <2> QED
    BY <1>1, <1>2, <2>1 DEF SettingTarget, Catalogued
<1> HIDE DEF port
<1>4. ASSUME NEW kind \in {"min", "max"}
      PROVE  ~LimitCanGet(port, cfg.instruments, ports, kind)
  <2>1. p.char \notin LimitCharacteristics(kind)
    BY DEF LimitCharacteristics, Base
  <2> QED
    BY <1>2, <2>1 DEF LimitCanGet, ResolveLimit
<1>5. GetterFor(port, cfg, ports) = "measurement" /\ Serializable(SettingTarget(port))
  <2>1. GetterFor(port, cfg, ports) \notin {"min", "max"}
    BY <1>4 DEF GetterFor
  <2> QED
    BY <2>1 DEF Readable, port
<1>6. MeasurementCanGet(port, cfg.instruments, ports, cfg.scripts)
  BY <1>4, <1>5 DEF GetterFor
<1>7. p.group # ""
  <2>1. Target(p)[2] = p.group
    BY DEF Target
  <2>2. Target(p)[2] # ""
    BY <1>3, <1>5 DEF Serializable
  <2> QED
    BY <2>1, <2>2
<1>8. p.scope = "local"
  BY <1>1, <1>7 DEF Sound
<1> QED
  BY <1>2, <1>6, <1>8 DEF MeasurementCanGet

\* readNumberOfPoints: the setting a count is read from can be read when one
\* of the settings of its channel can.
LEMMA CountReadable ==
    ASSUME Catalogued, NEW t, NEW p \in SamplePorts(t), Readable(InstrumentPort(p)) # {}
    PROVE  Readable(InstrumentPort(Only(SamplePorts(t)))) # {}
<1> DEFINE all == {x \in Settings(ports) : x.char = Base("number_of_samples") /\ x.instrument = t[1]}
           local == {x \in all : x.scope = "local" /\ Target(x) = t}
           q == Only(SamplePorts(t))
<1>1. SamplePorts(t) = IF local # {} THEN local ELSE {x \in all : x.scope = "global"}
  BY DEF SamplePorts
<1>2. p \in all
  BY <1>1
<1>3. p.scope = "local" /\ <<"get", p.char>> \in cfg.scripts
  BY <1>2, ReadableSetting
<1>4. SamplePorts(t) = local
  BY <1>1, <1>3
<1>5. q \in local
  BY <1>4 DEF Only
<1> HIDE DEF q
<1>6. q \in Settings(ports) /\ q.scope = "local" /\ q.char = p.char /\ q.char = Base("number_of_samples")
  BY <1>2, <1>5
<1>7. q.char \in ScriptedCharacteristics
  BY <1>6 DEF ScriptedCharacteristics, Quantities
<1>8. Readable(Client(q)) # {}
  BY <1>3, <1>6, <1>7, Possible
<1>9. Client(q) = InstrumentPort(q)
  BY <1>6 DEF Client, InstrumentPort, Settings
<1> QED
  BY <1>8, <1>9 DEF q

\* readNumberOfPoints: the counts are numbers, and no script has run.
LEMMA CountsRead ==
    ASSUME Catalogued, NEW c, Running(c, 0), Planned(c), ReadNumberOfPoints, stage' # "idle"
    PROVE  Running(c, 0)'
<1> DEFINE on(t) == Readable(InstrumentPort(Only(SamplePorts(t))))
<1>1. ~(\E t \in DOMAIN points : \A p \in SamplePorts(t) : Readable(InstrumentPort(p)) = {})
  BY DEF ReadNumberOfPoints, Refuse, Answer
<1>2. PICK reading \in [UNION {on(t) : t \in DOMAIN points} -> SampleCounts] :
         points' = [t \in DOMAIN points |-> reading[Only(on(t))]]
  BY <1>1 DEF ReadNumberOfPoints, Refuse, Answer
<1>3. UNCHANGED <<req, ports, dims, plan, output>>
  BY <1>1 DEF ReadNumberOfPoints, Refuse, Answer, hub
<1>4. ASSUME NEW t \in DOMAIN points
      PROVE  points'[t] \in Int
  <2>1. on(t) # {}
    BY <1>1, CountReadable
  <2> HIDE DEF on
  <2>2. Only(on(t)) \in on(t)
    BY <2>1 DEF Only
  <2>3. reading[Only(on(t))] \in SampleCounts
    BY <1>2, <2>2
  <2> QED
    BY <1>2, <2>3, SampleCountsAssumption
<1>5. Leaves' = Leaves /\ Targets' = Targets /\ PerLeaf(c)' = PerLeaf(c)
  BY <1>3 DEF Leaves, Targets, PerLeaf
<1>6. DOMAIN points = Targets /\ DOMAIN points' = Targets /\ DOMAIN output = Targets
  BY <1>2 DEF Running
<1>7. ASSUME NEW t \in Targets
      PROVE  output'[t] \in Seq(SampleSet(t)') /\ Taken(c, 0, t)'
  <2>1. output[t] \in Seq(SampleSet(t)) /\ Taken(c, 0, t) /\ points[t] \in Int
    BY DEF Running
  <2>2. SampleSet(t)' = SampleSet(t)
    BY <1>5 DEF SampleSet
  <2>3. Count(t) \in Int /\ Count(t)' \in Int
    BY <1>4, <1>6, <2>1 DEF Count
  <2>4. PerLeaf(c) * Count(t) \in Int /\ PerLeaf(c)' * Count(t)' \in Int
    BY <1>5, <2>3 DEF Planned, Pos
  <2>5. Len(output[t]) = 0
    BY <2>1, <2>4 DEF Taken, Blocks
  <2>6. Taken(c, 0, t)'
    BY <1>3, <2>4, <2>5, NothingTaken DEF Taken
  <2> QED
    BY <1>3, <2>1, <2>2, <2>6
<1>8. (Fixed(req, dims, 0, c) /\ RowMajor(Leaves, req, ports, << >>, 0, c))'
  BY <1>3, <1>5 DEF Running
<1>9. plan' = SubSeq(Leaves', 0 + 1, Len(Leaves')) /\ 0 <= Len(Leaves')
  BY <1>3, <1>5 DEF Running
<1> QED
  BY <1>3, <1>4, <1>5, <1>6, <1>7, <1>8, <1>9 DEF Running

\* A list with one more at its head.
LEMMA Prepended ==
    ASSUME NEW n \in Nat, NEW s, DOMAIN s = 1..n, s = [i \in 1..n |-> s[i]], NEW x
    PROVE  /\ Len(<<x>> \o s) = n + 1 /\ (<<x>> \o s)[1] = x
           /\ \A i \in 1..n : (<<x>> \o s)[i + 1] = s[i]
<1> DEFINE S == {x} \cup {s[i] : i \in 1..n}
<1>1. \A i \in 1..n : s[i] \in S
  OBVIOUS
<1>2. x \in S
  OBVIOUS
<1> HIDE DEF S
<1>3. s \in Seq(S) /\ Len(s) = n
  BY <1>1
<1>4. <<x>> \in Seq(S) /\ Len(<<x>>) = 1 /\ <<x>>[1] = x
  BY <1>2
<1> QED
  BY <1>3, <1>4

\* The calls of a script: a call of its own for every getter, after a call
\* that counts for none of them or not.
Reads(calls, in, off, m) ==
    /\ off \in {0, 1} /\ Len(calls) = Len(in.getters) + off
    /\ \A i \in DOMAIN in.getters :
         calls[i + off] = [on |-> in.getters[i], unit |-> UnitOf(in.getters[i]),
                           samples |-> Samples(in, in.getters[i], m[in.getters[i]]),
                           kind |-> IF in.choice = 0 THEN "scalar" ELSE "buffer"]
    /\ off = 1 => \/ calls[1].on = in.getters[1] /\ calls[1].unit = OtherUnit(UnitOf(in.getters[1]))
                  \/ calls[1].on = NoChannel

\* The calls a script returns, whatever calls the configuration adds: at most
\* one of them comes before those of the getters, which are in their order,
\* with one sample at every position or as many as were asked for.
LEMMA CallsRead ==
    ASSUME NEW in, IsList(in.getters), NEW calls \in ScriptCalls(in)
    PROVE  \E off, m : /\ Reads(calls, in, off, m)
                       /\ \/ m = [t \in DOMAIN points |-> 1]
                          \/ m = [t \in DOMAIN points |-> Count(t)]
<1> DEFINE Call(t, m) == [on |-> t, unit |-> UnitOf(t), samples |-> Samples(in, t, m),
                          kind |-> IF in.choice = 0 THEN "scalar" ELSE "buffer"]
           reads(m) == [i \in DOMAIN in.getters |-> Call(in.getters[i], m[in.getters[i]])]
           config == [on |-> in.getters[1], unit |-> OtherUnit(UnitOf(in.getters[1])),
                      samples |-> <<"configuration">>, kind |-> "scalar"]
           foreign == [on |-> NoChannel, unit |-> UnitOf(in.getters[1]),
                       samples |-> <<"foreign">>, kind |-> IF in.choice = 0 THEN "scalar" ELSE "buffer"]
           n == Len(in.getters)
<1>1. PICK m : /\ \/ m = [t \in DOMAIN points |-> 1]
                  \/ m = [t \in DOMAIN points |-> Count(t)]
               /\ calls \in {reads(m), <<config>> \o reads(m), <<foreign>> \o reads(m)}
  BY DEF ScriptCalls, Count
<1> DEFINE s == reads(m)
<1>2. n \in Nat /\ DOMAIN in.getters = 1..n
  BY DEF IsList
<1>3. DOMAIN s = 1..n /\ s = [i \in 1..n |-> s[i]] /\ Len(s) = n
  BY <1>2
<1>4. \A i \in 1..n : s[i] = [on |-> in.getters[i], unit |-> UnitOf(in.getters[i]),
                              samples |-> Samples(in, in.getters[i], m[in.getters[i]]),
                              kind |-> IF in.choice = 0 THEN "scalar" ELSE "buffer"]
  BY <1>2
<1>5. calls \in {s, <<config>> \o s, <<foreign>> \o s}
  BY <1>1
<1>6. config.on = in.getters[1] /\ config.unit = OtherUnit(UnitOf(in.getters[1])) /\ foreign.on = NoChannel
  OBVIOUS
<1> HIDE DEF s, config, foreign
<1>7. CASE calls = s
  <2>1. \A i \in 1..n : calls[i + 0] = s[i]
    BY <1>7
  <2>2. Len(calls) = Len(in.getters) + 0
    BY <1>2, <1>3, <1>7
  <2>3. \A i \in DOMAIN in.getters :
          calls[i + 0] = [on |-> in.getters[i], unit |-> UnitOf(in.getters[i]),
                          samples |-> Samples(in, in.getters[i], m[in.getters[i]]),
                          kind |-> IF in.choice = 0 THEN "scalar" ELSE "buffer"]
    BY <1>2, <1>4, <2>1
  <2>4. Reads(calls, in, 0, m)
    <3>1. 0 # 1
      OBVIOUS
    <3> QED
      BY <2>2, <2>3, <3>1, Zenon DEF Reads
  <2> QED
    BY <1>1, <2>4
<1>8. CASE calls = <<config>> \o s
  <2>1. Len(calls) = n + 1 /\ calls[1] = config /\ \A i \in 1..n : calls[i + 1] = s[i]
    BY <1>2, <1>3, <1>8, Prepended
  <2>2. Reads(calls, in, 1, m)
    BY <1>2, <1>4, <1>6, <2>1 DEF Reads
  <2> QED
    BY <1>1, <2>2
<1>9. CASE calls = <<foreign>> \o s
  <2>1. Len(calls) = n + 1 /\ calls[1] = foreign /\ \A i \in 1..n : calls[i + 1] = s[i]
    BY <1>2, <1>3, <1>9, Prepended
  <2>2. Reads(calls, in, 1, m)
    BY <1>2, <1>4, <1>6, <2>1 DEF Reads
  <2> QED
    BY <1>1, <2>2
<1> QED
  BY <1>5, <1>7, <1>8, <1>9

\* Configuration calls never count: their unit does not convert.
LEMMA OtherUnits ==
    ASSUME NEW u
    PROVE  ~Compatible(OtherUnit(u), u)
<1>1. OtherUnit(u) \in {"K", "T"} /\ OtherUnit(u) # u
  BY DEF OtherUnit
<1>2. OtherUnit(u) \in {OtherUnit(u), u}
  OBVIOUS
<1> QED
  BY <1>1, <1>2 DEF Compatible

\* DecodeTargets: what a getter gets is what its own call returned.
LEMMA OwnSamples ==
    ASSUME NEW in, IsList(in.getters), GettersEncode(in), NEW calls, NEW off, NEW m,
           Reads(calls, in, off, m), NEW q \in DOMAIN in.getters, NEW S,
           Samples(in, in.getters[q], m[in.getters[q]]) \in Seq(S)
    PROVE  SamplesOf(calls, in, in.getters[q], UnitOf(in.getters[q])) \in
             {<< >>, Samples(in, in.getters[q], m[in.getters[q]])}
<1> DEFINE t == in.getters[q]
           u == UnitOf(t)
           n == Len(in.getters)
           N == n + off
           kind == IF in.choice = 0 THEN "scalar" ELSE "buffer"
<1>1. n \in Nat /\ DOMAIN in.getters = 1..n /\ off \in {0, 1} /\ Len(calls) = N
  BY DEF IsList, Reads
<1>2. \A i \in 1..n : i # q => in.getters[i] # t
  BY <1>1 DEF GettersEncode
<1>3. ASSUME NEW i \in 1..n
      PROVE  /\ calls[i + off].on = in.getters[i] /\ calls[i + off].unit = UnitOf(in.getters[i])
             /\ calls[i + off].samples = Samples(in, in.getters[i], m[in.getters[i]])
             /\ in.choice = 0 \/ calls[i + off].kind = "buffer"
  <2>1. calls[i + off] = [on |-> in.getters[i], unit |-> UnitOf(in.getters[i]),
                          samples |-> Samples(in, in.getters[i], m[in.getters[i]]), kind |-> kind]
    BY <1>1 DEF Reads
  <2>2. in.choice = 0 \/ kind = "buffer"
    OBVIOUS
  <2> HIDE DEF kind
  <2> QED
    BY <2>1, <2>2
<1>4. ASSUME NEW i \in 1..n
      PROVE  CallMatches(calls[i + off], in, t, u) <=> i = q /\ u # ""
  <2>1. CASE i = q
    BY <1>3, <2>1 DEF CallMatches, Compatible
  <2>2. CASE i # q
    BY <1>2, <1>3, <2>2 DEF CallMatches
  <2> QED
    BY <2>1, <2>2
<1>5. off = 1 => ~CallMatches(calls[1], in, t, u)
  <2>1. NoChannel # t
    <3>1. Serializable(t)
      BY DEF GettersEncode
    <3>2. NoChannel[1] = ""
      BY DEF NoChannel
    <3> QED
      BY <3>1, <3>2 DEF Serializable
  <2>2. CASE calls[1].on = in.getters[1] /\ calls[1].unit = OtherUnit(UnitOf(in.getters[1]))
    <3>1. CASE in.getters[1] = t
      BY <2>2, <3>1, OtherUnits DEF CallMatches
    <3> QED
      BY <2>2, <3>1 DEF CallMatches
  <2>3. CASE calls[1].on = NoChannel
    BY <2>1, <2>3 DEF CallMatches
  <2> QED
    BY <2>2, <2>3 DEF Reads
<1> HIDE DEF t, u, kind
<1>6. ASSUME NEW i \in 1..N
      PROVE  CallMatches(calls[i], in, t, u) <=> i = q + off /\ u # ""
  <2>1. CASE off = 1 /\ i = 1
    <3>1. q + off # 1
      BY <1>1, <2>1
    <3>2. ~CallMatches(calls[i], in, t, u)
      BY <1>5, <2>1
    <3> QED
      BY <2>1, <3>1, <3>2
  <2>2. CASE ~(off = 1 /\ i = 1)
    <3>1. i - off \in 1..n /\ (i - off) + off = i
      BY <1>1, <2>2
    <3>2. CallMatches(calls[(i - off) + off], in, t, u) <=> (i - off) = q /\ u # ""
      BY <1>4, <3>1
    <3>3. i - off = q <=> i = q + off
      BY <1>1
    <3>4. calls[(i - off) + off] = calls[i]
      BY <3>1
    <3> QED
      BY <3>2, <3>3, <3>4
  <2> QED
    BY <2>1, <2>2
<1>7. N \in Nat /\ q + off \in 1..N
  BY <1>1
<1>8. CASE u = ""
  <2>1. \A i \in 1..N : ~CallMatches(calls[i], in, t, u)
    BY <1>6, <1>8
  <2>2. SamplesOf(calls, in, t, u) = << >>
    BY <1>1, <1>7, <2>1, NoSamples
  <2> QED
    BY <2>2 DEF t, u
<1>9. CASE u # ""
  <2>1. \A i \in 1..N : CallMatches(calls[i], in, t, u) <=> i = q + off
    BY <1>6, <1>9
  <2>2. calls[q + off].samples = Samples(in, t, m[t])
    BY <1>1, <1>3 DEF t
  <2>3. calls[q + off].samples \in Seq(S)
    BY <2>2 DEF t
  <2> DEFINE p == q + off
  <2> HIDE DEF p, N
  <2>4. SamplesOf(calls, in, t, u) = calls[p].samples
    BY <1>1, <1>7, <2>1, <2>3, OneReturn DEF p
  <2> QED
    BY <2>2, <2>4 DEF t, u, p
<1> QED
  BY <1>8, <1>9

\* A common factor cancels.
LEMMA Cancelled ==
    ASSUME NEW a \in Pos, NEW b \in Nat, NEW c \in Nat, a * b = a * c
    PROVE  b = c
<1>1. 0 \in 0..(a - 1) /\ a * b \in Nat /\ a * c \in Nat
  BY DEF Pos
<1>2. (a * b + 0) \div a = b /\ (a * c + 0) \div a = c
  BY <1>1, Quotient
<1> QED
  BY <1>2

\* decodePrimitive: a script whose returns are taken has the asked number of
\* samples at each of its positions.
LEMMA Decoded ==
    ASSUME NEW in, IsList(in.getters), GettersEncode(in), NEW calls \in ScriptCalls(in),
           Decodes(calls, in, points, GetterUnits), NEW Q \in Pos, Product(AxisCounts(in)) = Q,
           NEW q \in DOMAIN in.getters, in.getters[q] \in DOMAIN points, Count(in.getters[q]) \in Pos
    PROVE  SamplesOf(calls, in, in.getters[q], GetterUnits[in.getters[q]]) =
             Samples(in, in.getters[q], Count(in.getters[q]))
<1> DEFINE t == in.getters[q]
           n == Count(t)
<1>1. GetterUnits[t] = UnitOf(t)
  BY DEF GetterUnits
<1>2. PICK off, m : /\ Reads(calls, in, off, m)
                    /\ \/ m = [x \in DOMAIN points |-> 1]
                       \/ m = [x \in DOMAIN points |-> Count(x)]
  BY CallsRead
<1>3. m[t] \in {1, n} /\ 1 \in Pos
  BY <1>2 DEF Pos
<1> DEFINE S == {Sample(in, t, Position(AxisCounts(in), k)) : k \in Nat}
           x == Samples(in, t, m[t])
           y == SamplesOf(calls, in, t, UnitOf(t))
<1>4. n \in Pos /\ m[t] \in Pos
  BY <1>3
<1>5. x \in Seq(S) /\ Len(x) = Q * m[t]
  <2> DEFINE k == m[t]
  <2> HIDE DEF k, t
  <2>1. k \in Pos
    BY <1>4 DEF k
  <2>2. /\ Samples(in, t, k) \in Seq({Sample(in, t, Position(AxisCounts(in), j)) : j \in Nat})
        /\ Len(Samples(in, t, k)) = Q * k
    BY <2>1, SamplesList
  <2> QED
    BY <2>2 DEF k
<1>6. y \in {<< >>, x}
  <2> HIDE DEF S
  <2> QED
    BY <1>2, <1>5, OwnSamples
<1>7. Len(y) = Q * n
  <2>1. Len(y) = Expected(in, points[t])
    BY <1>1 DEF Decodes
  <2> QED
    BY <2>1 DEF Expected, Count
<1> HIDE DEF t, n, S, x, y
<1>8. Q * n \in Pos
  BY <1>4, Times
<1>9. y = x
  <2>1. Len(<< >>) = 0
    OBVIOUS
  <2> QED
    BY <1>6, <1>7, <1>8, <2>1 DEF Pos
<1>10. m[t] = n
  <2>1. Q * m[t] = Q * n
    BY <1>5, <1>7, <1>9
  <2>2. m[t] \in Nat /\ n \in Nat
    BY <1>4 DEF Pos
  <2> QED
    BY <2>1, <2>2, Cancelled
<1> QED
  BY <1>1, <1>9, <1>10 DEF x, y, t, n

\* The rest of the plan.
LEMMA NextScript ==
    ASSUME NEW S, NEW s \in Seq(S), NEW d \in Nat, d <= Len(s), NEW p, p = SubSeq(s, d + 1, Len(s))
    PROVE  /\ p # << >> => /\ d + 1 \in 1..Len(s) /\ p[1] = s[d + 1]
                           /\ Tail(p) = SubSeq(s, (d + 1) + 1, Len(s))
           /\ p = << >> => d = Len(s)
<1> DEFINE n == Len(s)
<1>1. n \in Nat /\ d <= n /\ DOMAIN s = 1..n
  OBVIOUS
<1> HIDE DEF n
<1>2. p \in Seq(S) /\ Len(p) = n - d /\ \A i \in 1..(n - d) : p[i] = s[d + i]
  <2>1. p = SubSeq(s, d + 1, n) /\ n = Len(s)
    BY DEF n
  <2>2. p \in Seq(S)
    BY <1>1, <2>1
  <2>3. Len(p) = n - d
    <3>1. d + 1 \in Int /\ n \in Int /\ \A i \in (d + 1)..n : s[i] \in S
      BY <1>1
    <3>2. Len(p) = IF d + 1 <= n THEN n - (d + 1) + 1 ELSE 0
      BY <2>1, <3>1, SubSeqProperties
    <3> QED
      BY <1>1, <3>2
  <2>4. \A i \in 1..(n - d) : p[i] = s[d + i]
    BY <1>1, <2>1
  <2> QED
    BY <2>2, <2>3, <2>4
<1>3. p = << >> => d = n
  <2>1. p = << >> => Len(p) = 0
    OBVIOUS
  <2> QED
    BY <1>1, <1>2, <2>1
<1>4. ASSUME p # << >>
      PROVE  d + 1 \in 1..n /\ p[1] = s[d + 1] /\ Tail(p) = SubSeq(s, (d + 1) + 1, n)
  <2>1. d < n
    <3>1. Len(p) # 0
      BY <1>2, <1>4
    <3> QED
      BY <1>1, <1>2, <3>1
  <2>2. d + 1 \in 1..n /\ 1 \in 1..(n - d)
    BY <1>1, <2>1
  <2>3. p[1] = s[d + 1]
    BY <1>2, <2>2
  <2>4. Tail(p) \in Seq(S) /\ Len(Tail(p)) = (n - d) - 1 /\ \A i \in 1..((n - d) - 1) : Tail(p)[i] = p[i + 1]
    BY <1>1, <1>2, <1>4, <2>1
  <2> DEFINE r == SubSeq(s, (d + 1) + 1, n)
  <2>5. r \in Seq(S) /\ Len(r) = (n - d) - 1 /\ \A i \in 1..((n - d) - 1) : r[i] = s[(d + 1) + i]
    BY <1>1, <2>1 DEF n
  <2> DEFINE u == Tail(p)
  <2> HIDE DEF r, u
  <2>6. \A i \in 1..((n - d) - 1) : u[i] = r[i]
    <3>1. ASSUME NEW i \in 1..((n - d) - 1)
          PROVE  u[i] = r[i]
      <4>1. i + 1 \in 1..(n - d) /\ d + (i + 1) = (d + 1) + i
        BY <1>1, <2>1
      <4> QED
        BY <1>2, <2>4, <2>5, <4>1 DEF u
    <3> QED
      BY <3>1
  <2>7. u = r
    <3>1. u \in Seq(S) /\ Len(u) = Len(r) /\ \A i \in 1..Len(u) : u[i] = r[i]
      BY <2>4, <2>5, <2>6 DEF u
    <3> QED
      BY <2>5, <3>1, SeqEqual
  <2> QED
    BY <2>2, <2>3, <2>7 DEF u, r
<1> QED
  BY <1>3, <1>4 DEF n

\* Run: a script that ends well leaves the measurement one script further on.
LEMMA ScriptRuns ==
    ASSUME NEW c, NEW d \in Nat, Running(c, d), Planned(c), IsList(GetterTargets(req, ports)),
           RunPrimitive, stage' # "idle"
    PROVE  Running(c, d + 1)'
<1> DEFINE Q == PerLeaf(c)
           in == Leaves[d + 1]
           targets == GetterTargets(req, ports)
<1>1. (\A t \in DOMAIN points : ~(points[t] < 0)) /\ Encodes(Leaf)
  BY DEF RunPrimitive, Refuse, Answer
<1>2. PICK calls \in ScriptCalls(Leaf) :
         /\ Decodes(calls, Leaf, points, GetterUnits) /\ output' = Merge(output, calls, Leaf, GetterUnits)
         /\ plan' = Tail(plan) /\ points' = points
  BY <1>1 DEF RunPrimitive, Refuse, Answer
<1>3. UNCHANGED <<req, ports, dims, points>> /\ plan # << >>
  BY <1>1, <1>2 DEF RunPrimitive, hub
<1>4. Leaves' = Leaves /\ Targets' = Targets /\ PerLeaf(c)' = PerLeaf(c)
  BY <1>3 DEF Leaves, Targets, PerLeaf
<1>5. /\ d + 1 \in 1..Len(Leaves) /\ Leaf = in
      /\ plan' = SubSeq(Leaves, (d + 1) + 1, Len(Leaves))
  <2>1. /\ Leaves \in Seq({PrimitiveInput(req, g, ports) : g \in Fixings(req)})
        /\ d <= Len(Leaves) /\ plan = SubSeq(Leaves, d + 1, Len(Leaves))
    BY DEF Planned, Running
  <2>2. d + 1 \in 1..Len(Leaves) /\ plan[1] = in /\ Tail(plan) = SubSeq(Leaves, (d + 1) + 1, Len(Leaves))
    BY <1>3, <2>1, NextScript
  <2> QED
    BY <1>2, <2>2 DEF Leaf
<1>6. in.getters = targets /\ Product(AxisCounts(in)) = Q /\ Q \in Pos
  BY <1>5 DEF Planned
<1>7. DOMAIN points = Targets /\ DOMAIN output = Targets /\ DOMAIN targets = DOMAIN req.getters
  BY DEF Running, GetterTargets
<1>8. GettersEncode(in)
  BY <1>1, <1>5 DEF Encodes
<1>9. ASSUME NEW t \in Targets
      PROVE  /\ points[t] \in Nat /\ Count(t) \in Pos
             /\ SamplesOf(calls, in, t, GetterUnits[t]) = Samples(in, t, Count(t))
  <2>1. points[t] \in Nat
    BY <1>1, <1>7 DEF Running
  <2>2. Count(t) \in Pos
    BY <2>1 DEF Count, Pos
  <2>3. PICK q \in DOMAIN in.getters : t = in.getters[q]
    BY <1>6, <1>7 DEF Targets
  <2> HIDE DEF in, Q, targets
  <2>4. IsList(in.getters) /\ in.getters[q] \in DOMAIN points /\ Count(in.getters[q]) \in Pos
    BY <1>6, <1>7, <2>2, <2>3 DEF targets
  <2>5. calls \in ScriptCalls(in) /\ Decodes(calls, in, points, GetterUnits)
    BY <1>2, <1>5
  <2>6. SamplesOf(calls, in, in.getters[q], GetterUnits[in.getters[q]]) =
          Samples(in, in.getters[q], Count(in.getters[q]))
    BY <1>6, <1>8, <2>4, <2>5, Decoded
  <2> QED
    BY <2>1, <2>2, <2>3, <2>6
<1>10. /\ DOMAIN output' = Targets
       /\ \A t \in Targets : output'[t] = output[t] \o Samples(in, t, Count(t))
  <2>1. DOMAIN GetterUnits = Targets
    BY <1>7 DEF GetterUnits
  <2>2. output' = [t \in Targets |-> output[t] \o SamplesOf(calls, in, t, GetterUnits[t])]
    BY <1>2, <1>5, <2>1 DEF Merge
  <2> QED
    BY <1>9, <2>2
<1>11. ASSUME NEW t \in Targets
       PROVE  output'[t] \in Seq(SampleSet(t)') /\ Taken(c, d + 1, t)'
  <2> DEFINE n == Count(t)
             S == SampleSet(t)
             x == output[t]
             y == Samples(in, t, n)
             M == Q * n
             part == [l \in 1..Len(Leaves) |-> Samples(Leaves[l], t, n)]
  <2>1. n \in Pos /\ M \in Pos
    BY <1>6, <1>9, Times
  <2>2. x \in Seq(S) /\ Blocks(x, part, d, M)
    BY DEF Running, Taken
  <2>3. y \in Seq({Sample(in, t, Position(AxisCounts(in), k)) : k \in Nat}) /\ Len(y) = M
    <3> HIDE DEF in, Q, n
    <3>1. Product(AxisCounts(in)) = Q /\ Q \in Pos /\ n \in Pos
      BY <1>6, <2>1
    <3>2. /\ Samples(in, t, n) \in Seq({Sample(in, t, Position(AxisCounts(in), k)) : k \in Nat})
          /\ Len(Samples(in, t, n)) = Q * n
      BY <3>1, SamplesList
    <3> QED
      BY <3>2
  <2>4. {Sample(in, t, Position(AxisCounts(in), k)) : k \in Nat} \subseteq S
    BY <1>5 DEF SampleSet
  <2>5. part[d + 1] = y
    BY <1>5
  <2> HIDE DEF n, S, x, y, M, part, in
  <2>6. y \in Seq(S)
    BY <2>3, <2>4
  <2>7. \A j \in 1..M : y[j] = part[d + 1][j]
    BY <2>5
  <2>8. Blocks(x \o y, part, d + 1, M)
    BY <2>1, <2>2, <2>3, <2>6, <2>7, BlocksAppend
  <2>9. x \o y \in Seq(S)
    BY <2>2, <2>6
  <2>10. output'[t] = x \o y
    BY <1>10 DEF x, y, n
  <2>11. SampleSet(t)' = S /\ Count(t)' = n
    BY <1>3, <1>4 DEF SampleSet, Count, S, n
  <2>12. Taken(c, d + 1, t)'
    BY <1>4, <2>8, <2>10, <2>11 DEF Taken, part, M, n, Q
  <2> QED
    BY <2>9, <2>10, <2>11, <2>12
<1>12. (Fixed(req, dims, 0, c) /\ RowMajor(Leaves, req, ports, << >>, 0, c))'
  BY <1>3, <1>4 DEF Running
<1>13. /\ \A i, j \in DOMAIN req.getters' :
            i # j => GetterTargets(req', ports')[i] # GetterTargets(req', ports')[j]
       /\ \A t \in Targets' : points'[t] \in Int /\ points'[t] >= 0
  <2>1. \A i, j \in DOMAIN req.getters : i # j => targets[i] # targets[j]
    BY <1>6, <1>7, <1>8 DEF GettersEncode
  <2> QED
    BY <1>3, <1>4, <1>9, <2>1
<1>14. d + 1 <= Len(Leaves') /\ DOMAIN points' = Targets' /\ DOMAIN output' = Targets'
  BY <1>3, <1>4, <1>5, <1>7, <1>10
<1> QED
  BY <1>4, <1>5, <1>11, <1>12, <1>13, <1>14 DEF Running

-----------------------------------------------------------------------------
(* The record of a measurement.                                            *)

\* The getters of a request are a list of channels.
LEMMA GettersListed ==
    ASSUME NEW m, Meant(req, m)
    PROVE  IsList(GetterTargets(req, ports)) /\ DOMAIN GetterTargets(req, ports) = DOMAIN req.getters
<1>1. DOMAIN req.getters = 1..Len(m.getters) /\ Len(m.getters) \in Nat
  BY DEF Meant, IsList
<1>2. DOMAIN GetterTargets(req, ports) = 1..Len(m.getters)
  BY <1>1 DEF GetterTargets
<1>3. Len(GetterTargets(req, ports)) = Len(m.getters)
  BY <1>1 DEF GetterTargets
<1> QED
  BY <1>1, <1>2, <1>3 DEF IsList

\* buildGetters: of getters on channels of their own, each keeps its port.
LEMMA OwnPort ==
    ASSUME NEW i \in DOMAIN req.getters, DOMAIN req.getters \subseteq Nat,
           \A j, k \in DOMAIN req.getters : j # k => GetterTargets(req, ports)[j] # GetterTargets(req, ports)[k]
    PROVE  GetterPort(req, ports, GetterTargets(req, ports)[i]) = req.getters[i]
<1> DEFINE t == GetterTargets(req, ports)[i]
           Is(j) == /\ ConvertToTarget(req.getters[j], ports) = t
                    /\ \A k \in DOMAIN req.getters : ConvertToTarget(req.getters[k], ports) = t => k <= j
<1>1. \A j \in DOMAIN req.getters : ConvertToTarget(req.getters[j], ports) = GetterTargets(req, ports)[j]
  BY DEF GetterTargets
<1>2. \A j \in DOMAIN req.getters : ConvertToTarget(req.getters[j], ports) = t <=> j = i
  BY <1>1
<1> HIDE DEF t
<1>3. Is(i)
  BY <1>2
<1>4. \A j \in DOMAIN req.getters : Is(j) => j = i
  BY <1>2
<1> HIDE DEF Is
<1>5. (CHOOSE j \in DOMAIN req.getters : Is(j)) = i
  BY <1>3, <1>4
<1> QED
  BY <1>5 DEF GetterPort, t, Is

\* The array of a getter: one sample for every position.
GridData(x, c, t) ==
    LET N == Product(ShapeFromSpace(req))
    IN  /\ N \in Pos /\ DOMAIN x = 1..N /\ Len(x) = N
        /\ \A k \in 1..N : \E z : x[k] = [data |-> {z}] /\ TakenAt(z, req, ports, c, t, k)

\* averageData.
LEMMA AveragedGrid ==
    ASSUME Grid(req, ports), NEW c, Planned(c), RowMajor(Leaves, req, ports, << >>, 0, c),
           NEW t, points[t] \in Nat, NEW S, output[t] \in Seq(S), Taken(c, Len(Leaves), t)
    PROVE  GridData(Averaged(t), c, t)
<1> DEFINE n == Count(t)
           x == output[t]
           N == Product(ShapeFromSpace(req))
<1>1. n \in Pos
  BY DEF Count, Pos
<1>2. Gathered(x, Leaves, req, c, t, n)
  BY DEF Taken, PerLeaf, Gathered
<1>3. c \in 0..Len(Axes(req)) /\ Len(Axes(req)) - c \in 0..2
  BY DEF Planned
<1> HIDE DEF n, x
<1>4. /\ N \in Pos /\ Len(x) = N * n
      /\ \E y : /\ Average(x, n) = [k \in 1..N |-> [data |-> {y[k]}]]
                /\ n = 1 => \A k \in 1..N : x[k] = y[k]
                /\ \A k \in 1..N : TakenAt(y[k], req, ports, c, t, k)
  <2>1. AveragesToGrid(x, req, ports, c, t, n)
    BY <1>1, <1>2, <1>3, Measured
  <2> QED
    BY <2>1 DEF AveragesToGrid
<1>5. PICK y : /\ Average(x, n) = [k \in 1..N |-> [data |-> {y[k]}]]
               /\ n = 1 => \A k \in 1..N : x[k] = y[k]
               /\ \A k \in 1..N : TakenAt(y[k], req, ports, c, t, k)
  BY <1>4
<1> HIDE DEF N
<1>6. Averaged(t) = [k \in 1..N |-> [data |-> {y[k]}]]
  <2>1. CASE points[t] = 0
    <3>1. n = 1 /\ N \in Nat /\ N * 1 = N
      BY <1>4, <2>1 DEF n, Count, Pos
    <3>2. DOMAIN x = 1..N /\ \A k \in 1..N : x[k] = y[k]
      BY <1>4, <1>5, <3>1 DEF x
    <3>3. Averaged(t) = [k \in DOMAIN x |-> [data |-> {x[k]}]]
      BY <2>1 DEF Averaged, x
    <3> QED
      BY <3>2, <3>3
  <2>2. CASE points[t] # 0
    <3>1. n = points[t]
      BY <2>2 DEF n, Count
    <3>2. Averaged(t) = Average(x, n)
      BY <2>2, <3>1 DEF Averaged, x
    <3> QED
      BY <1>5, <3>2
  <2> QED
    BY <2>1, <2>2
<1>7. DOMAIN Averaged(t) = 1..N /\ Len(Averaged(t)) = N
  BY <1>4, <1>6 DEF Pos
<1>8. ASSUME NEW k \in 1..N
      PROVE  \E z : Averaged(t)[k] = [data |-> {z}] /\ TakenAt(z, req, ports, c, t, k)
  BY <1>5, <1>6
<1> QED
  BY <1>4, <1>7, <1>8 DEF GridData, N

\* The axes a script sweeps are the ones the plan does not fix.
LEMMA NativeAre ==
    ASSUME dims \in ScriptSets, NEW m, Meant(req, m), NEW c, Fixed(req, dims, 0, c)
    PROVE  NativeAxes(m) = (c + 1)..Len(Axes(req))
<1> DEFINE r == Len(Axes(req))
           Is(k) == k <= r /\ \A j \in dims : j <= r => j <= k
<1>1. r \in Nat /\ Len(ClientSpace(m).axes) = r
  BY DEF Meant, Grid
<1>2. c \in 0..r /\ r - c \in dims /\ \A b \in 0..(c - 1) : r - b \notin dims
  BY DEF Fixed
<1>3. dims \subseteq 0..2
  BY ScriptSetsAssumption
<1> HIDE DEF r
<1>4. ASSUME NEW j \in dims, j <= r
      PROVE  j <= r - c
  <2>1. j \in 0..2 /\ j \in Int
    BY <1>3
  <2>2. SUFFICES ASSUME ~(j <= r - c)
                 PROVE  FALSE
    OBVIOUS
  <2>3. r - j \in 0..(c - 1) /\ r - (r - j) = j
    BY <1>1, <1>2, <1>4, <2>1, <2>2
  <2> QED
    BY <1>2, <1>4, <2>3
<1>5. Is(r - c)
  BY <1>1, <1>2, <1>4
<1>6. \A k \in dims : Is(k) => k = r - c
  <2>1. ASSUME NEW k \in dims, Is(k)
        PROVE  k = r - c
    <3>1. k <= r - c
      BY <1>4, <2>1
    <3>2. r - c <= k
      BY <1>1, <1>2, <2>1
    <3>3. k \in Int /\ r - c \in Int
      BY <1>1, <1>2, <1>3
    <3> QED
      BY <3>1, <3>2, <3>3
  <2> QED
    BY <2>1
<1> HIDE DEF Is
<1>7. (CHOOSE k \in dims : Is(k)) = r - c
  BY <1>2, <1>5, <1>6
<1>8. NativeAxes(m) = (r - (CHOOSE k \in dims : Is(k)) + 1)..r
  BY <1>1 DEF NativeAxes, Is
<1>9. r - (r - c) + 1 = c + 1
  BY <1>1, <1>2
<1> QED
  BY <1>7, <1>8, <1>9 DEF r

\* The voltage a sample shows on the channels of a swept gate.
LEMMA VoltageShown ==
    ASSUME WellPosed(msg), Meant(req, msg), NEW c, NEW t, NEW k, NEW z, TakenAt(z, req, ports, c, t, k),
           NEW s \in Slots(req)
    PROVE  VoltageAt([data |-> {z}], msg, s) = {GridVoltage(req, c, s, k)}
<1> DEFINE gate(u) == ClientPort(msg, u).port.gate
           T == DOMAIN z.volts \cap ChannelsOf(gate(s))
<1>1. \A u \in Slots(req) : On(req, ports, u) \in ChannelsOf(gate(u))
  BY DEF Meant
<1>2. \A u \in Slots(req) : u # s => ChannelsOf(gate(u)) \cap ChannelsOf(gate(s)) = {}
  <2>1. ClientSlots(msg) = Slots(req)
    BY DEF Meant
  <2> QED
    BY <2>1 DEF WellPosed, ChannelsDistinct
<1>3. DOMAIN z.volts = {On(req, ports, u) : u \in Slots(req)}
  BY DEF TakenAt
<1>4. VoltageAt([data |-> {z}], msg, s) = {z.volts[x] : x \in T}
  BY DEF VoltageAt
<1> HIDE DEF gate
<1>5. T = {On(req, ports, s)}
  BY <1>1, <1>2, <1>3
<1> HIDE DEF T
<1>6. z.volts[On(req, ports, s)] = GridVoltage(req, c, s, k)
  BY DEF TakenAt
<1> QED
  BY <1>4, <1>5, <1>6

\* What is asked of one array of the answer.
RightArray(array, m, i) ==
    LET shape == ClientShape(m)
    IN  /\ array.gate = m.getters[i].gate /\ array.shape = shape
        /\ Len(array.data) = Product(shape)
        /\ \A k \in DOMAIN array.data :
             /\ {x.on : x \in array.data[k].data} \subseteq ChannelsOf(array.gate)
             /\ \A s \in ClientSlots(m) :
                  VoltageAt(array.data[k], m, s) =
                    {IF s[1] \in NativeAxes(m) THEN ClientVoltage(m, s, k)
                     ELSE ClientPoints(m, s[1])[GridIndex(shape, k)[s[1]] + 1]}

\* What is asked of the answer and the file.
RightAnswer(m, sent, files) ==
    LET arrays == MeasurementResponseFromFalcon(sent)
    IN  /\ \A a \in arrays : \A i \in DOMAIN m.getters :
              \E j \in DOMAIN a.arrays : RightArray(a.arrays[j], m, i)
        /\ arrays # {}
        /\ \E file \in UNION {DatabaseEntryFromFalcon(f) : f \in files} :
             \A a \in arrays : file.ranges = a.arrays /\ file.shape = ClientShape(m)

\* An answer that is right about every getter is the grid.
LEMMA RightAnswerSuffices ==
    ASSUME (Answered /\ WellPosed(msg) => RightAnswer(msg, reply.sent, stored.file))'
    PROVE  AnswerIsGrid'
  BY DEF AnswerIsGrid, RightAnswer, RightArray

\* The data of a grid make a right array.
LEMMA ArrayRight ==
    ASSUME dims \in ScriptSets, Taking, WellPosed(msg), Meant(req, msg), NEW c, Planned(c),
           Fixed(req, dims, 0, c), NEW i \in DOMAIN req.getters, NEW array,
           array.gate = req.getters[i].gate, array.shape = ShapeFromSpace(req),
           GridData(array.data, c, GetterTargets(req, ports)[i])
    PROVE  RightArray(array, msg, i)
<1> DEFINE t == GetterTargets(req, ports)[i]
           N == Product(ShapeFromSpace(req))
<1>1. ClientShape(msg) = ShapeFromSpace(req) /\ ClientSlots(msg) = Slots(req)
  BY DEF Meant
<1>2. array.gate = msg.getters[i].gate /\ t \in ChannelsOf(array.gate)
  BY DEF Meant
<1>3. DOMAIN array.data = 1..N /\ Len(array.data) = N
  BY DEF GridData
<1>4. ASSUME NEW k \in 1..N
      PROVE  /\ {x.on : x \in array.data[k].data} \subseteq ChannelsOf(array.gate)
             /\ \A s \in Slots(req) :
                  VoltageAt(array.data[k], msg, s) =
                    {IF s[1] \in NativeAxes(msg) THEN ClientVoltage(msg, s, k)
                     ELSE ClientPoints(msg, s[1])[GridIndex(ClientShape(msg), k)[s[1]] + 1]}
  <2>1. PICK z : array.data[k] = [data |-> {z}] /\ TakenAt(z, req, ports, c, t, k)
    BY DEF GridData
  <2>2. {x.on : x \in array.data[k].data} = {t}
    <3>1. array.data[k].data = {z} /\ z.on = t
      BY <2>1 DEF TakenAt
    <3> QED
      BY <3>1
  <2>3. ASSUME NEW s \in Slots(req)
        PROVE  VoltageAt(array.data[k], msg, s) =
                 {IF s[1] \in NativeAxes(msg) THEN ClientVoltage(msg, s, k)
                  ELSE ClientPoints(msg, s[1])[GridIndex(ClientShape(msg), k)[s[1]] + 1]}
    <3>1. VoltageAt(array.data[k], msg, s) = {GridVoltage(req, c, s, k)}
      BY <2>1, VoltageShown
    <3>2. NativeAxes(msg) = (c + 1)..Len(Axes(req))
      BY NativeAre
    <3>3. c \in Nat /\ Len(Axes(req)) \in Nat /\ s[1] \in 1..Len(Axes(req))
      <4>1. s[1] \in DOMAIN Axes(req)
        BY Slot
      <4>2. Len(Axes(req)) \in Nat /\ DOMAIN Axes(req) = 1..Len(Axes(req))
        BY DEF Meant, Grid
      <4>3. c \in 0..Len(Axes(req))
        BY DEF Planned
      <4>4. c \in Nat
        BY <4>2, <4>3
      <4> QED
        BY <4>1, <4>2, <4>4
    <3>4. s[1] > c => Labelled(req, s).port.gate \in DOMAIN Space(req).increasing[s[1]]
      <4>1. 1 \in 1..Len(Leaves)
        BY DEF Planned, Pos
      <4>2. SettersOK(req, PointsAt(req, << >>, 0, c, 1)) /\ DOMAIN PointsAt(req, << >>, 0, c, 1) = 1..c
        BY <4>1 DEF Planned
      <4> QED
        BY <3>3, <4>2 DEF SettersOK, HasDirection
    <3>5. /\ s[1] > c => GridVoltage(req, c, s, k) = ClientVoltage(msg, s, k)
          /\ s[1] <= c => GridVoltage(req, c, s, k) =
                            ClientPoints(msg, s[1])[GridIndex(ClientShape(msg), k)[s[1]] + 1]
      BY <3>3, <3>4, VoltageMeant DEF Taking
    <3>6. CASE s[1] > c
      <4>1. s[1] \in NativeAxes(msg)
        BY <3>2, <3>3, <3>6
      <4> QED
        BY <3>1, <3>5, <3>6, <4>1
    <3>7. CASE s[1] <= c
      <4>1. s[1] \notin NativeAxes(msg)
        BY <3>2, <3>3, <3>7
      <4> QED
        BY <3>1, <3>5, <3>7, <4>1
    <3> QED
      BY <3>3, <3>6, <3>7
  <2> QED
    BY <1>2, <2>2, <2>3
<1> HIDE DEF N
<1> QED
  BY <1>1, <1>2, <1>3, <1>4 DEF RightArray, N

\* buildRanges: the array of every getter, kept by falcon-core.
LEMMA RangesBuilt ==
    ASSUME NEW L, WellPosed(msg), Meant(req, msg), DOMAIN output = Targets,
           \A t \in Targets : Len(Averaged(t)) = Product(L),
           \A i, j \in DOMAIN req.getters : i # j => GetterTargets(req, ports)[i] # GetterTargets(req, ports)[j]
    PROVE  \E r : /\ BuildRanges(L) = {r} /\ r = [i \in DOMAIN r |-> r[i]] /\ DOMAIN r = DOMAIN req.getters
                  /\ \A i \in DOMAIN r : /\ Kept(r[i])
                                         /\ r[i].gate = req.getters[i].gate /\ r[i].shape = L
                                         /\ r[i].data = Averaged(GetterTargets(req, ports)[i])
<1> DEFINE targets == GetterTargets(req, ports)
           port(i) == req.getters[i]
           r == [i \in DOMAIN req.getters |->
                   [gate |-> port(i).gate, unit |-> port(i).unit, type |-> port(i).type,
                    data |-> Averaged(targets[i]), shape |-> L]]
<1>1. DOMAIN targets = DOMAIN req.getters /\ DOMAIN req.getters \subseteq Nat
  <2>1. IsList(targets) /\ DOMAIN targets = DOMAIN req.getters
    BY GettersListed
  <2> QED
    BY <2>1 DEF IsList
<1>2. \A i \in DOMAIN req.getters : GetterPort(req, ports, targets[i]) = port(i) /\ UnitOf(targets[i]) = port(i).unit
  BY <1>1, OwnPort DEF UnitOf
<1>3. BuildRanges(L) = {[i \in DOMAIN targets |->
                           [gate |-> GetterPort(req, ports, targets[i]).gate, unit |-> UnitOf(targets[i]),
                            type |-> GetterPort(req, ports, targets[i]).type,
                            data |-> Averaged(targets[i]), shape |-> L]]}
  BY DEF BuildRanges
<1>4. BuildRanges(L) = {r}
  <2> HIDE DEF targets, port
  <2> QED
    BY <1>1, <1>2, <1>3
<1>5. ASSUME NEW i \in DOMAIN req.getters
      PROVE  /\ Kept(r[i]) /\ r[i].gate = req.getters[i].gate /\ r[i].shape = L
             /\ r[i].data = Averaged(targets[i])
  <2>1. PortRead(req.getters[i], msg.getters[i]) /\ i \in DOMAIN msg.getters
    BY DEF Meant
  <2>2. msg.getters[i].scope = "local"
    BY <2>1 DEF WellPosed, NamesGate
  <2>3. port(i).gate[1] \in ConnectionTypes /\ port(i).unit \in KnownUnits
    BY <2>1, <2>2 DEF PortRead
  <2>4. r[i] = [gate |-> port(i).gate, unit |-> port(i).unit, type |-> port(i).type,
                data |-> Averaged(targets[i]), shape |-> L]
    OBVIOUS
  <2> DEFINE x == r[i]
  <2> HIDE DEF r, x, targets
  <2>5. /\ x.gate = port(i).gate /\ x.unit = port(i).unit /\ x.type = port(i).type
        /\ x.data = Averaged(targets[i]) /\ x.shape = L
    BY <2>4 DEF x
  <2>6. x = [gate |-> x.gate, unit |-> x.unit, type |-> x.type, data |-> x.data, shape |-> x.shape]
    BY <2>4, <2>5 DEF x
  <2>7. Kept(x)
    BY <2>3, <2>5, <2>6 DEF Kept
  <2> QED
    BY <2>5, <2>7 DEF x
<1>6. DOMAIN r = DOMAIN req.getters /\ r = [i \in DOMAIN r |-> r[i]]
  OBVIOUS
<1> HIDE DEF r
<1> QED
  BY <1>4, <1>5, <1>6

\* Plan.Shape: of either plan it is the shape of the grid.
LEMMA ShapePlanned ==
    ASSUME Grid(req, ports)
    PROVE  PlanShape(req, ports, dims) = ShapeFromSpace(req)
<1>1. Len(Axes(req)) \in Nat
  BY DEF Grid
<1>2. 0 \in 0..Len(Axes(req)) /\ DOMAIN << >> = 1..0
  BY <1>1
<1>3. NativeShape(PrimitiveInput(req, << >>, ports)) = ShapeFromSpace(req)
  BY <1>2, InputOf
<1> QED
  BY <1>3 DEF PlanShape

\* The rest of Handle: what is stored and answered is the grid.
LEMMA GridRecorded ==
    ASSUME Catalogued, dims \in ScriptSets, Taking, WellPosed(msg), NEW c, NEW d \in Nat, Running(c, d),
           plan = << >>, RecordMeasurement, Answered'
    PROVE  RightAnswer(msg, reply'.sent, stored'.file)
<1> DEFINE L == ShapeFromSpace(req)
           targets == GetterTargets(req, ports)
<1>1. Meant(req, msg)
  BY RequestMeant DEF Taking
<1>2. Grid(req, ports) /\ Fixed(req, dims, 0, c) /\ RowMajor(Leaves, req, ports, << >>, 0, c)
  BY <1>1 DEF Meant, Running
<1>3. Planned(c)
  BY <1>2, PlanDivides
<1>4. d = Len(Leaves) /\ d > 0
  <2>1. Leaves \in Seq({PrimitiveInput(req, g, ports) : g \in Fixings(req)}) /\ Len(Leaves) \in Pos
    BY <1>3 DEF Planned
  <2>2. d <= Len(Leaves) /\ plan = SubSeq(Leaves, d + 1, Len(Leaves))
    BY DEF Running
  <2>3. d = Len(Leaves)
    BY <2>1, <2>2, NextScript
  <2> QED
    BY <2>1, <2>3 DEF Pos
<1>5. /\ \A i, j \in DOMAIN req.getters : i # j => targets[i] # targets[j]
      /\ \A t \in Targets : points[t] \in Int /\ points[t] >= 0
      /\ DOMAIN output = Targets
  BY <1>4 DEF Running
<1>6. ASSUME NEW t \in Targets
      PROVE  GridData(Averaged(t), c, t)
  <2>1. points[t] \in Nat
    BY <1>5
  <2>2. output[t] \in Seq(SampleSet(t)) /\ Taken(c, Len(Leaves), t)
    BY <1>4 DEF Running
  <2> QED
    BY <1>2, <1>3, <2>1, <2>2, AveragedGrid
<1>7. \A t \in Targets : Len(Averaged(t)) = Product(L)
  BY <1>6 DEF GridData
<1>8. PICK r : /\ BuildRanges(L) = {r} /\ r = [i \in DOMAIN r |-> r[i]] /\ DOMAIN r = DOMAIN req.getters
               /\ \A i \in DOMAIN r : /\ Kept(r[i])
                                      /\ r[i].gate = req.getters[i].gate /\ r[i].shape = L
                                      /\ r[i].data = Averaged(targets[i])
  BY <1>1, <1>5, <1>7, RangesBuilt
<1> DEFINE entry == BuildDatabaseEntry(L)
           sent == NewFalconMeasurementResponse([arrays |-> entry.ranges])
<1>9. entry.ranges = r /\ entry.shape = L /\ entry.labels = Axes(req)
  <2> DEFINE U == CreateArray(Space(req).space, [i \in DOMAIN L |-> i])
             entries == {[shape |-> L, unitDomain |-> u, labels |-> Axes(req), ranges |-> x, metadata |-> BuildMetadata]
                         : x \in BuildRanges(L), u \in U}
  <2>1. U # {}
    BY Created
  <2>2. entry = IF entries = {} THEN EmptyEntry ELSE Only(entries)
    BY DEF BuildDatabaseEntry
  <2> HIDE DEF U, entry, L
  <2>3. entries # {}
    <3>1. PICK u : u \in U
      BY <2>1
    <3>2. r \in BuildRanges(L)
      BY <1>8
    <3>3. [shape |-> L, unitDomain |-> u, labels |-> Axes(req), ranges |-> r, metadata |-> BuildMetadata] \in entries
      BY <3>1, <3>2
    <3> HIDE DEF entries
    <3> QED
      BY <3>3
  <2>4. \A e \in entries : e.ranges = r /\ e.shape = L /\ e.labels = Axes(req)
    BY <1>8
  <2> HIDE DEF entries
  <2>5. Only(entries) \in entries
    BY <2>3 DEF Only
  <2> QED
    BY <2>2, <2>3, <2>4, <2>5
<1>10. sent = {[arrays |-> r]} /\ MeasurementResponseFromFalcon([arrays |-> r]) = {[arrays |-> r]}
  <2> HIDE DEF entry
  <2> QED
    BY <1>8, <1>9, AnswerKept
<1>11. reply'.sent = [arrays |-> r] /\ stored'.file = NewFalconDatabaseEntry(entry)
  <2>1. PlanShape(req, ports, dims) = L
    BY <1>2, ShapePlanned
  <2>2. ~Refuse
    BY DEF Refuse, Answer, Refused, Answered
  <2> HIDE DEF L
  <2>3. /\ stored' = [row |-> BuildInsertEntry(L), file |-> NewFalconDatabaseEntry(entry)]
        /\ Answer([kind |-> "measure", ok |-> TRUE, sent |-> Only(sent)])
    BY <2>1, <2>2 DEF RecordMeasurement
  <2> HIDE DEF entry, sent
  <2>4. Only(sent) = [arrays |-> r]
    BY <1>10 DEF Only
  <2> QED
    BY <2>3, <2>4 DEF Answer
<1> HIDE DEF entry, sent
<1>12. ASSUME NEW i \in DOMAIN msg.getters
       PROVE  i \in DOMAIN r /\ RightArray(r[i], msg, i)
  <2>1. i \in DOMAIN req.getters /\ i \in DOMAIN r
    BY <1>1, <1>8 DEF Meant
  <2>2. targets[i] \in Targets
    BY <2>1 DEF Targets
  <2>3. GridData(r[i].data, c, targets[i]) /\ r[i].gate = req.getters[i].gate /\ r[i].shape = L
    BY <1>6, <1>8, <2>1, <2>2
  <2> QED
    BY <1>1, <1>2, <1>3, <2>1, <2>3, ArrayRight
<1>13. \E x \in NewFalconAxesCoupledLabelledDomain(Axes(req)) : AxesCoupledLabelledDomainFromFalcon(x) # {}
  <2> DEFINE a == Axes(req)
             h == ClientSpace(msg).axes
  <2>1. 1 \in DOMAIN msg.waveforms
    BY FirstWaveform DEF Taking, CanHandle
  <2>2. RequestRead(req, msg)
    BY <2>1, ReadRequest DEF Taking
  <2>3. /\ DOMAIN a = DOMAIN h /\ \A i \in DOMAIN h : DOMAIN a[i] = DOMAIN h[i]
        /\ \A i \in DOMAIN h : \A j \in DOMAIN h[i] : LabelRead(a[i][j], h[i][j])
    BY <2>2 DEF RequestRead, Axes, Space, ClientSpace
  <2>4. \A i \in DOMAIN h : \A j \in DOMAIN h[i] : h[i][j].port.scope = "local"
    <3>1. ASSUME NEW i \in DOMAIN h, NEW j \in DOMAIN h[i]
          PROVE  h[i][j].port.scope = "local"
      <4>1. <<i, j>> \in ClientSlots(msg)
        BY DEF ClientSlots
      <4>2. NamesGate(ClientPort(msg, <<i, j>>).port)
        BY <4>1 DEF WellPosed
      <4> QED
        BY <4>2 DEF NamesGate, ClientPort
    <3> QED
      BY <3>1
  <2> HIDE DEF a, h
  <2>5. \E x \in NewFalconAxesCoupledLabelledDomain(a) : AxesCoupledLabelledDomainFromFalcon(x) # {}
    BY <2>3, <2>4, AxesKept
  <2> QED
    BY <2>5 DEF a
<1>14. \E file \in UNION {DatabaseEntryFromFalcon(f) : f \in NewFalconDatabaseEntry(entry)} :
          file.ranges = r /\ file.shape = entry.shape
  BY <1>8, <1>9, <1>13, FileKept
<1>15. ClientShape(msg) = L
  BY <1>1 DEF Meant
<1> HIDE DEF L
<1>16. \E file \in UNION {DatabaseEntryFromFalcon(f) : f \in stored'.file} :
          file.ranges = r /\ file.shape = ClientShape(msg)
  BY <1>9, <1>11, <1>14, <1>15
<1>17. MeasurementResponseFromFalcon(reply'.sent) = {[arrays |-> r]}
  BY <1>10, <1>11
<1> DEFINE A == MeasurementResponseFromFalcon(reply'.sent)
<1>18. \A a \in A : a.arrays = r
  BY <1>17
<1>19. A # {}
  BY <1>17
<1> HIDE DEF A
<1>20. \A a \in A : \A i \in DOMAIN msg.getters : \E j \in DOMAIN a.arrays : RightArray(a.arrays[j], msg, i)
  BY <1>12, <1>18
<1>21. \E file \in UNION {DatabaseEntryFromFalcon(f) : f \in stored'.file} :
          \A a \in A : file.ranges = a.arrays /\ file.shape = ClientShape(msg)
  BY <1>16, <1>18
<1> QED
  BY <1>19, <1>20, <1>21 DEF RightAnswer, A

\* Nothing an answer is about changes but the answer.
LEMMA SameGrid ==
    ASSUME UNCHANGED <<wiremap, dims, msg>>, NEW sent, NEW files, RightAnswer(msg, sent, files)
    PROVE  RightAnswer(msg, sent, files)'
<1>1. \A g : ChannelsOf(g)' = ChannelsOf(g)
  BY DEF ChannelsOf
<1>2. NativeAxes(msg)' = NativeAxes(msg)
  BY DEF NativeAxes
<1>3. \A v, s : VoltageAt(v, msg, s)' = VoltageAt(v, msg, s)
  BY <1>1 DEF VoltageAt
<1>4. ASSUME NEW a, NEW i, RightArray(a, msg, i)
      PROVE  RightArray(a, msg, i)'
  <2>1. /\ a.gate = msg'.getters[i].gate /\ a.shape = ClientShape(msg')
        /\ Len(a.data) = Product(ClientShape(msg'))
    BY <1>4 DEF RightArray
  <2>2. ASSUME NEW k \in DOMAIN a.data
        PROVE  {x.on : x \in a.data[k].data} \subseteq ChannelsOf(a.gate)'
    BY <1>1, <1>4 DEF RightArray
  <2>3. ASSUME NEW k \in DOMAIN a.data, NEW s \in ClientSlots(msg')
        PROVE  VoltageAt(a.data[k], msg, s)' =
                 {IF s[1] \in NativeAxes(msg)' THEN ClientVoltage(msg', s, k)
                  ELSE ClientPoints(msg', s[1])[GridIndex(ClientShape(msg'), k)[s[1]] + 1]}
    <3>1. VoltageAt(a.data[k], msg, s)
            = {IF s[1] \in NativeAxes(msg) THEN ClientVoltage(msg, s, k)
               ELSE ClientPoints(msg, s[1])[GridIndex(ClientShape(msg), k)[s[1]] + 1]}
      BY <1>4, Zenon DEF RightArray
    <3>2. VoltageAt(a.data[k], msg, s)' = VoltageAt(a.data[k], msg, s)
      BY <1>3
    <3> QED
      BY <1>2, <3>1, <3>2, Zenon
  <2> QED
    BY <2>1, <2>2, <2>3 DEF RightArray
<1> QED
  BY <1>4 DEF RightAnswer

\* A request is well posed for the wires, which stay.
LEMMA SamePosed ==
    ASSUME UNCHANGED <<wiremap, msg>>
    PROVE  WellPosed(msg)' <=> WellPosed(msg)
<1>1. \A g : ChannelsOf(g)' = ChannelsOf(g)
  BY DEF ChannelsOf
<1>2. ChannelsDistinct(msg)' <=> ChannelsDistinct(msg)
  BY <1>1 DEF ChannelsDistinct
<1> QED
  BY <1>2 DEF WellPosed

\* A measurement that goes on keeps its request.
LEMMA Goes ==
    ASSUME Waiting, Taking,
           BuildMeasurementPlan \/ ReadNumberOfPoints \/ RunPrimitive \/ CaptureVoltages
    PROVE  /\ UNCHANGED <<cfg, dims, wiremap, ports, msg, req, stored>> /\ AnswerIsGrid'
           /\ stage' # "idle" => Taking'
<1>1. /\ UNCHANGED <<cfg, dims, wiremap, ports, msg, req, stored>>
      /\ Refuse \/ reply' = None
  BY DEF BuildMeasurementPlan, ReadNumberOfPoints, RunPrimitive, CaptureVoltages, hub, Waiting
<1>2. AnswerIsGrid'
  BY <1>1, NoAnswer DEF Refuse, Answer
<1> QED
  BY <1>1, <1>2 DEF Taking

\* A step of a measurement of a well-posed request.
LEMMA UnderWayStep ==
    ASSUME Waiting, Catalogued, GridInv,
           BuildMeasurementPlan \/ ReadNumberOfPoints \/ RunPrimitive \/ CaptureVoltages
    PROVE  GridInv'
<1>1. stage \in {"plan", "points", "run"}
  BY DEF BuildMeasurementPlan, ReadNumberOfPoints, RunPrimitive, CaptureVoltages
<1>2. dims \in ScriptSets /\ Taking
  BY <1>1 DEF GridInv
<1>3. /\ UNCHANGED <<cfg, dims, wiremap, ports, msg, req, stored>> /\ AnswerIsGrid'
      /\ stage' # "idle" => Taking'
  BY <1>2, Goes
<1>4. WellPosed(msg)' <=> WellPosed(msg)
  BY <1>3, SamePosed
<1>5. ASSUME stage' # "idle", WellPosed(msg)
      PROVE  /\ \E c, d \in Nat : /\ Running(c, d)'
                                  /\ stage' = "points" => d = 0
                                  /\ stage' = "record" => plan' = << >>
             /\ stage' # "plan"
  <2>1. Meant(req, msg) /\ Grid(req, ports)
    <3>1. Meant(req, msg)
      BY <1>2, <1>5, RequestMeant DEF Taking
    <3> QED
      BY <3>1 DEF Meant
  <2>2. CASE BuildMeasurementPlan
    <3>1. PICK c \in Nat : Running(c, 0)'
      BY <1>2, <1>5, <2>2, PlanStarts
    <3>2. stage' \in {"points", "run"}
      BY <1>5, <2>2 DEF BuildMeasurementPlan, Refuse, Answer
    <3> QED
      BY <3>1, <3>2
  <2>3. ASSUME stage \in {"points", "run"}
        PROVE  \E c, d \in Nat : Running(c, d) /\ Planned(c) /\ (stage = "points" => d = 0)
    <3>1. PICK c \in Nat, d \in Nat : Running(c, d) /\ (stage = "points" => d = 0)
      BY <1>5, <2>3 DEF GridInv, UnderWay
    <3>2. Fixed(req, dims, 0, c) /\ RowMajor(Leaves, req, ports, << >>, 0, c)
      BY <3>1 DEF Running
    <3>3. Planned(c)
      BY <1>2, <2>1, <3>2, PlanDivides
    <3> QED
      BY <3>1, <3>3
  <2>4. CASE ReadNumberOfPoints
    <3>1. stage = "points" /\ stage' = "run"
      BY <1>5, <2>4 DEF ReadNumberOfPoints, Refuse, Answer
    <3>2. PICK c \in Nat : Running(c, 0) /\ Planned(c)
      BY <2>3, <3>1
    <3>3. Running(c, 0)'
      BY <1>5, <2>4, <3>2, CountsRead
    <3> QED
      BY <3>1, <3>3
  <2>5. CASE RunPrimitive
    <3>1. stage = "run" /\ stage' = "run"
      BY <1>5, <2>5 DEF RunPrimitive, Refuse, Answer
    <3>2. PICK c \in Nat, d \in Nat : Running(c, d) /\ Planned(c)
      BY <2>3, <3>1
    <3>3. IsList(GetterTargets(req, ports))
      BY <2>1, GettersListed
    <3>4. Running(c, d + 1)' /\ d + 1 \in Nat
      BY <1>5, <2>5, <3>2, <3>3, ScriptRuns
    <3> QED
      BY <3>1, <3>4
  <2>6. CASE CaptureVoltages
    <3>1. stage = "run" /\ plan = << >> /\ stage' = "record" /\ UNCHANGED <<plan, points, output>>
      BY <1>5, <2>6 DEF CaptureVoltages, Refuse, Answer
    <3>2. PICK c \in Nat, d \in Nat : Running(c, d)
      BY <2>3, <3>1
    <3>3. Leaves' = Leaves /\ Targets' = Targets /\ PerLeaf(c)' = PerLeaf(c)
      BY <1>3 DEF Leaves, Targets, PerLeaf
    <3>4. \A t : SampleSet(t)' = SampleSet(t) /\ Count(t)' = Count(t)
      BY <3>1, <3>3 DEF SampleSet, Count
    <3>5. ASSUME NEW t, Taken(c, d, t)
          PROVE  Taken(c, d, t)'
      BY <3>1, <3>3, <3>4, <3>5 DEF Taken
    <3>6. Running(c, d)'
      BY <1>3, <3>1, <3>2, <3>3, <3>4, <3>5 DEF Running
    <3> QED
      BY <3>1, <3>6
  <2> QED
    BY <2>2, <2>4, <2>5, <2>6
<1>6. stage' # "idle" => UnderWay'
  BY <1>4, <1>5 DEF UnderWay
<1> QED
  BY <1>2, <1>3, <1>6 DEF GridInv

\* A measurement that goes on has the samples of the scripts that ran, in
\* order, and one that was answered is the grid: the inductive invariant.
THEOREM GridInvariance == Spec => []GridInv
<1>1. Init => GridInv
  BY DEF Init, GridInv, AnswerIsGrid, Answered, None
<1>2. IInv /\ GridInv /\ [Next]_vars => GridInv'
  <2> SUFFICES ASSUME IInv, GridInv, [Next]_vars
               PROVE  GridInv'
    OBVIOUS
  <2>1. Waiting /\ dims \in ScriptSets /\ (stage \notin {"load", "rejected"} => Catalogued)
    BY DEF IInv, GridInv
  <2>2. ASSUME dims' = dims, stage' \in {"idle", "rejected"}, AnswerIsGrid'
        PROVE  GridInv'
    BY <2>1, <2>2 DEF GridInv
  <2>3. CASE Load
    <3>1. dims' = dims /\ stage' \in {"idle", "rejected"} /\ reply' = None
      BY <2>1, <2>3 DEF Load, Waiting
    <3> QED
      BY <2>2, <3>1, NoAnswer
  <2>4. ASSUME NEW p \in Settings(ports), GetSetting(p) \/ SetSetting(p)
        PROVE  GridInv'
    <3>1. dims' = dims /\ stage' = "idle"
      BY <2>4 DEF GetSetting, SetSetting, hub
    <3>2. reply'.kind \in {"get", "set"}
      BY <2>4 DEF GetSetting, SetSetting, GetReply, SetReply
    <3> QED
      BY <2>2, <3>1, <3>2, NoAnswer
  <2>5. CASE PortRequest \/ StateRequest
    <3>1. dims' = dims /\ stage' = "idle" /\ reply'.kind \in {"ports", "state"}
      BY <2>5 DEF PortRequest, StateRequest, hub
    <3> QED
      BY <2>2, <3>1, NoAnswer
  <2>6. ASSUME NEW m \in Requests, MeasureCommand(m)
        PROVE  GridInv'
    <3>1. AnswerIsGrid' /\ (stage' # "idle" => stage' = "plan" /\ Taking')
      BY <2>6, CommandTakes
    <3>2. dims' = dims
      BY <2>6 DEF MeasureCommand, hub
    <3> QED
      BY <2>1, <3>1, <3>2 DEF GridInv
  <2>7. CASE BuildMeasurementPlan \/ ReadNumberOfPoints \/ RunPrimitive \/ CaptureVoltages
    <3>1. stage \notin {"load", "rejected"}
      BY <2>7 DEF BuildMeasurementPlan, ReadNumberOfPoints, RunPrimitive, CaptureVoltages
    <3> QED
      BY <2>1, <2>7, <3>1, UnderWayStep
  <2>8. CASE RecordMeasurement
    <3>1. stage = "record" /\ stage' = "idle" /\ UNCHANGED <<dims, wiremap, msg>>
      BY <2>8 DEF RecordMeasurement, Refuse, Answer, hub
    <3>2. (Answered /\ WellPosed(msg) => RightAnswer(msg, reply.sent, stored.file))'
      <4> SUFFICES ASSUME Answered', WellPosed(msg)'
                   PROVE  RightAnswer(msg, reply.sent, stored.file)'
        OBVIOUS
      <4>1. WellPosed(msg)
        BY <3>1, SamePosed
      <4>2. PICK c \in Nat, d \in Nat : Running(c, d) /\ plan = << >>
        BY <3>1, <4>1 DEF GridInv, UnderWay
      <4>3. Catalogued /\ Taking
        BY <2>1, <3>1 DEF GridInv
      <4>4. RightAnswer(msg, reply'.sent, stored'.file)
        BY <2>1, <2>8, <4>1, <4>2, <4>3, GridRecorded
      <4> QED
        BY <3>1, <4>4, SameGrid
    <3>3. AnswerIsGrid'
      BY <3>2, RightAnswerSuffices
    <3> QED
      BY <2>2, <3>1, <3>3
  <2>9. CASE PlanPanics
    <3>1. dims' = dims /\ stage' = "dead" /\ reply' = None
      BY <2>1, <2>9 DEF PlanPanics, hub, Waiting
    <3> QED
      BY <2>1, <3>1, NoAnswer DEF GridInv
  <2>10. CASE UNCHANGED vars
    <3>1. /\ UNCHANGED <<dims, stage, wiremap, ports, msg, req, plan, points, output, stored, reply>>
      BY <2>10 DEF vars
    <3>2. AnswerIsGrid'
      <4>1. Answered /\ WellPosed(msg) => RightAnswer(msg, reply.sent, stored.file)
        BY DEF GridInv, AnswerIsGrid, RightAnswer, RightArray
      <4>2. (Answered' <=> Answered) /\ (WellPosed(msg)' <=> WellPosed(msg))
        BY <3>1, SamePosed DEF Answered
      <4>3. RightAnswer(msg, reply.sent, stored.file) => RightAnswer(msg, reply.sent, stored.file)'
        BY <3>1, SameGrid
      <4> QED
        BY <4>1, <4>2, <4>3, RightAnswerSuffices
    <3>3. Taking' <=> Taking
      BY <3>1 DEF Taking
    <3>4. WellPosed(msg)' <=> WellPosed(msg)
      BY <3>1, SamePosed
    <3>5. ASSUME NEW c, NEW d
          PROVE  Running(c, d)' <=> Running(c, d)
      BY <3>1 DEF Running, Targets, Leaves, SampleSet, Taken, Count, PerLeaf
    <3>6. UnderWay' <=> UnderWay
      BY <3>1, <3>4, <3>5 DEF UnderWay
    <3> QED
      BY <2>1, <3>1, <3>2, <3>3, <3>6 DEF GridInv
  <2> QED
    BY <2>3, <2>4, <2>5, <2>6, <2>7, <2>8, <2>9, <2>10 DEF Next
<1> QED
  BY <1>1, <1>2, Invariance, PTL DEF Spec

\* A measurement of a well-posed request that is answered is complete and in
\* order, in the answer and in the file, for any configuration, scripts of up
\* to two axes, requests and numbers of samples.
THEOREM AnswersAreGrids == Spec => []AnswerIsGrid
<1>1. GridInv => AnswerIsGrid
  BY DEF GridInv
<1> QED
  BY <1>1, GridInvariance, PTL

-----------------------------------------------------------------------------
(* Limits.                                                                 *)

\* resolveLimitCharacteristic asks for a command with a reducer, which
\* validation refuses.
LEMMA NoLimit ==
    ASSUME ValidServer(cfg.instruments), NEW port, NEW kind \in {"min", "max"}
    PROVE  ResolveLimit(port, cfg.instruments, ports, kind) = {}
<1>1. ASSUME NEW inst \in MetadataOf(port, cfg.instruments), NEW d \in FindCharacteristic(port, inst),
             d.read.command # "", d.read.reducer = kind
      PROVE  FALSE
  <2>1. PICK i \in DOMAIN cfg.instruments : inst = cfg.instruments[i]
    BY DEF MetadataOf
  <2>2. PICK j \in DOMAIN inst.chars : d = inst.chars[j]
    BY DEF FindCharacteristic
  <2>3. ValidCharacteristic(inst, d)
    BY <2>1, <2>2 DEF ValidServer, ValidInstrument
  <2>4. Empty(d.read) \/ ValidCommand(inst, d.read)
    BY <2>3 DEF ValidCharacteristic
  <2>5. d.read.reducer = ""
    BY <1>1, <2>4 DEF Empty, ValidCommand
  <2> QED
    BY <1>1, <2>5
<1> QED
  BY <1>1 DEF ResolveLimit

\* The characteristics that are limits of others.
LimitChars == LimitCharacteristics("min") \cup LimitCharacteristics("max")

\* A server whose instruments are valid reads no limit.
LEMMA LimitUnreadable ==
    ASSUME ValidServer(cfg.instruments), NEW port, port.char \in LimitChars
    PROVE  Readable(port) = {}
<1>1. ~LimitCanGet(port, cfg.instruments, ports, "min") /\ ~LimitCanGet(port, cfg.instruments, ports, "max")
  BY NoLimit DEF LimitCanGet
<1>2. port.char \notin ScriptedCharacteristics
  <2>1. PICK q, k : port.char = <<q, k>> /\ k \in {"min", "max"}
    BY DEF LimitChars, LimitCharacteristics
  <2>2. port.char[2] # "base"
    BY <2>1
  <2>3. \A c \in ScriptedCharacteristics : c[2] = "base"
    BY DEF ScriptedCharacteristics, Base
  <2> QED
    BY <2>2, <2>3
<1>3. GetterFor(port, cfg, ports) = "nobody"
  BY <1>1, <1>2 DEF GetterFor, MeasurementCanGet
<1> QED
  BY <1>3 DEF Readable

\* The opposite of LimitsReadable: a request to read a minimum or maximum is
\* never served.
LimitsUnreadable == reply.kind = "get" /\ reply.port.char \in LimitChars => ~reply.possible

\* What the hub serves passed validation, and no answer was a limit.
LimitInv ==
    /\ stage \notin {"load", "rejected"} => ValidServer(cfg.instruments)
    /\ LimitsUnreadable

\* A get of a limit is turned away.
LEMMA LimitRequest ==
    ASSUME Catalogued, ValidServer(cfg.instruments), NEW p \in Settings(ports), GetSetting(p)
    PROVE  LimitsUnreadable'
<1> DEFINE c == Client(p)
           h == Advertised(p)
<1>1. p \in ports /\ p.role = "setting" /\ Sound(p, cfg.instruments) /\ p.gate[1] \in ConnectionTypes
  BY DEF Settings, Catalogued
<1>2. h.char = p.char /\ c.char = p.char
  BY <1>1, AdvertisedSound DEF Client
<1>3. PortsFromFalcon(<<h>>) = {<<c>>}
  BY <1>1, ReadBack, OnePort
<1>4. PICK returns \in ScriptReturns(p) : reply' = GetReply(p, returns)
  BY DEF GetSetting
<1>5. /\ reply'.port = h
      /\ reply'.possible = (UNION {Readable(r[1]) : r \in PortsFromFalcon(<<h>>)} # {})
  BY <1>4 DEF GetReply
<1> HIDE DEF c, h
<1>6. UNION {Readable(r[1]) : r \in {<<c>>}} = Readable(c)
  OBVIOUS
<1>7. reply'.possible = (Readable(c) # {})
  BY <1>3, <1>5, <1>6
<1>8. h.char \in LimitChars => Readable(c) = {}
  BY <1>2, LimitUnreadable
<1> QED
  BY <1>5, <1>7, <1>8 DEF LimitsUnreadable

\* No configuration that passes validation has a limit that can be read: the
\* finding of LimitsReadable holds for every one of them.
THEOREM LimitsNeverRead == Spec => []LimitsUnreadable
<1>1. Init => LimitInv
  BY DEF Init, LimitInv, LimitsUnreadable, None
<1>2. IInv /\ LimitInv /\ [Next]_vars => LimitInv'
  <2> SUFFICES ASSUME IInv, LimitInv, [Next]_vars
               PROVE  LimitInv'
    OBVIOUS
  <2>1. ASSUME cfg' = cfg, stage \notin {"load", "rejected"}, LimitsUnreadable'
        PROVE  LimitInv'
    BY <2>1 DEF LimitInv
  <2>2. CASE Load
    <3>1. cfg' = cfg /\ reply' = reply /\ (stage' # "rejected" => ValidServer(cfg.instruments))
      BY <2>2 DEF Load, ValidConfig
    <3> QED
      BY <3>1 DEF LimitInv, LimitsUnreadable
  <2>3. ASSUME NEW p \in Settings(ports), GetSetting(p)
        PROVE  LimitInv'
    <3>1. cfg' = cfg /\ stage = "idle"
      BY <2>3 DEF GetSetting, hub
    <3> QED
      BY <2>1, <2>3, <3>1, LimitRequest DEF IInv, LimitInv
  <2>4. ASSUME NEW p \in Settings(ports), SetSetting(p)
        PROVE  LimitInv'
    <3>1. cfg' = cfg /\ stage = "idle" /\ reply'.kind = "set"
      BY <2>4 DEF SetSetting, SetReply, hub
    <3> QED
      BY <2>1, <3>1 DEF LimitsUnreadable
  <2>5. CASE PortRequest \/ StateRequest
    <3>1. cfg' = cfg /\ stage = "idle" /\ reply'.kind \in {"ports", "state"}
      BY <2>5 DEF PortRequest, StateRequest, hub
    <3> QED
      BY <2>1, <3>1 DEF LimitsUnreadable
  <2>6. CASE \/ \E m \in Requests : MeasureCommand(m)
             \/ BuildMeasurementPlan
             \/ PlanPanics
             \/ ReadNumberOfPoints
             \/ RunPrimitive
             \/ CaptureVoltages
             \/ RecordMeasurement
    <3>1. /\ stage \notin {"load", "rejected"} /\ cfg' = cfg
          /\ reply' = None \/ reply'.kind = "measure"
      BY <2>6, MeasureStep DEF IInv
    <3> QED
      BY <2>1, <3>1 DEF LimitsUnreadable, None
  <2>7. CASE UNCHANGED vars
    BY <2>7 DEF vars, LimitInv, LimitsUnreadable
  <2> QED
    BY <2>2, <2>3, <2>4, <2>5, <2>6, <2>7 DEF Next
<1>3. LimitInv => LimitsUnreadable
  BY DEF LimitInv
<1> QED
  BY <1>1, <1>2, <1>3, Invariance, PTL DEF Spec

=============================================================================
