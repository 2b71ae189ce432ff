------------------------ MODULE MCCartesianMeasurement ------------------------
(***************************************************************************)
(* A voltage source with three channels and a voltmeter with two, in       *)
(* configurations that differ in one thing each, and requests of one to    *)
(* three axes on their ports.                                              *)
(***************************************************************************)
EXTENDS CartesianMeasurement

P1 == <<"plunger", "P1">>
P2 == <<"plunger", "P2">>
B1 == <<"barrier", "B1">>
O1 == <<"ohmic", "O1">>
O2 == <<"ohmic", "O2">>

NoCommand == [command |-> "", param |-> NoName, reducer |-> ""]
Command(c) == [command |-> c, param |-> NoName, reducer |-> ""]
Bounded(p, r) == [command |-> "", param |-> p, reducer |-> r]
Io(name, suffix, role, unit) ==
    [name |-> name, suffix |-> suffix, role |-> role, unit |-> unit, min |-> "number", max |-> "number"]

Dac(role, group) ==
    LET out == Io(NoName, "voltage", role, "V")
    IN  [name |-> "dac", type |-> "voltage_source",
         groups |-> {[name |-> "analog", min |-> 1, max |-> 3, param |-> <<"channel">>, ios |-> {out}]},
         io |-> [n \in {<<"analog", c, "voltage">> : c \in 1..3} |-> [out EXCEPT !.name = n, !.suffix = ""]]
                @@ (<<"slew">> :> Io(<<"slew">>, "", "setting", "V")),
         ioConfig |-> << >>,
         commands |-> ("get_v" :> group) @@ ("set_v" :> group),
         chars |-> << [id |-> Base("source_voltage"), read |-> Command("get_v"), write |-> Command("set_v")],
                      [id |-> <<"source_voltage", "min">>, read |-> Bounded(<<"voltage">>, "min"), write |-> NoCommand] >>]

Adc(group) ==
    LET in == Io(NoName, "voltage", "input", "V")
    IN  [name |-> "adc", type |-> "voltmeter",
         groups |-> {[name |-> "in", min |-> 1, max |-> 2, param |-> <<"channel">>, ios |-> {in}]},
         io |-> [n \in {<<"in", c, "voltage">> : c \in 1..2} |-> [in EXCEPT !.name = n, !.suffix = ""]],
         ioConfig |-> << >>,
         commands |-> ("get_n" :> group) @@ ("set_n" :> group),
         chars |-> << [id |-> Base("number_of_samples"), read |-> Command("get_n"), write |-> Command("set_n")],
                      [id |-> Base("sample_rate"), read |-> Command("get_n"), write |-> NoCommand] >>]

Wire(device, instrument, group, channel) ==
    [device |-> device, instrument |-> instrument, group |-> group, channel |-> channel]

Standard ==
    [gates |-> <<P1, P2, B1, O1, O2>>,
     wiremap |-> {Wire("P1", "dac", "analog", 1), Wire("P2", "dac", "analog", 2), Wire("B1", "dac", "analog", 3),
                  Wire("O1", "adc", "in", 1), Wire("O2", "adc", "in", 2)},
     initial |-> ("P1" :> [value |-> 250, unit |-> "mV"]), instruments |-> <<Dac("output", "analog"), Adc("in")>>,
     scripts |-> {<<"get", Base("source_voltage")>>, <<"set", Base("source_voltage")>>,
                  <<"get", Base("number_of_samples")>>}]

\* Two gates on one channel and a channel without gate.
SharedChannel ==
    [Standard EXCEPT !.wiremap = {Wire("P1", "dac", "analog", 1), Wire("P2", "dac", "analog", 1),
                                  Wire("O1", "adc", "in", 1)}]

MCConfigs ==
    {Standard, SharedChannel,
     [Standard EXCEPT !.instruments = <<Dac("inout", "analog"), Adc("in")>>],
     [Standard EXCEPT !.instruments = <<Dac("output", ""), Adc("in")>>],
     [Standard EXCEPT !.instruments = <<Dac("output", "analog"), Adc("")>>],
     [Standard EXCEPT !.instruments = <<Adc("in")>>],
     [Standard EXCEPT !.instruments = <<Dac("output", "analog"), Dac("output", "analog")>>],
     [Standard EXCEPT !.instruments = <<Dac("output", "nowhere"), Adc("in")>>],
     [Standard EXCEPT !.instruments = << [Dac("output", "analog") EXCEPT !.type = "voltmeter"] >>],
     [Standard EXCEPT !.gates = <<P1, O1>>],
     [Standard EXCEPT !.gates = <<P1, P2, B1, O1, <<"wire", "O2">> >>],
     [Standard EXCEPT !.initial = ("P9" :> [value |-> 1, unit |-> "V"])]}

\* Handles of ports as the standard configuration advertises them.
Catalogue == ConnectWireMap(Only(ResolveWiremap(Standard)), BuildPortLibrary(Standard.instruments))
Knob(gate) == Advertised(CHOOSE p \in Knobs(Catalogue) : p.gate = gate)
Meter(gate) == Advertised(CHOOSE p \in Meters(Catalogue) : p.gate = gate)

Sweep(gate, lo, hi) == [port |-> Knob(gate), lo |-> lo, hi |-> hi, loIn |-> TRUE, hiIn |-> TRUE]
Request(axes, deltas, down, getters) ==
    [waveforms |->
        << [space |-> [space |-> [items |-> [i \in DOMAIN deltas |-> [type |-> "cartesian", delta |-> deltas[i]]],
                                  domain |-> [lo |-> 0, hi |-> 2, loIn |-> TRUE, hiIn |-> TRUE]],
                       axes |-> axes,
                       increasing |-> [i \in DOMAIN axes |->
                                         [j \in DOMAIN axes[i] |->
                                            <<axes[i][j].port.gate, axes[i][j].port.gate \notin down>>]]],
            transforms |-> << >>] >>,
     getters |-> getters, meterTransforms |-> << >>,
     timeDomain |-> Sweep(P1, 0, 1)]

Axis1 == <<Sweep(P1, 10, 14)>>
Coupled1 == <<Sweep(P1, 10, 14), Sweep(B1, 20, 24)>>
Axis2 == <<Sweep(P2, 0, 4)>>
Grid2 == Request(<<Axis1, Axis2>>, <<1, 2>>, {P2}, <<Meter(O1), Meter(O2)>>)

MCRequests ==
    {Request(<<Axis1>>, <<1>>, {}, <<Meter(O1)>>),
     Request(<<Coupled1>>, <<1>>, {B1}, <<Meter(O2)>>),
     Grid2,
     Request(<<Axis2, Axis1, <<Sweep(B1, 0, 2)>> >>, <<2, 2, 2>>, {}, <<Meter(O1)>>),
     Request(<<Axis1>>, <<1>>, {}, <<Meter(O1), Meter(O1)>>),
     Request(<<Axis1, Axis1>>, <<1, 2>>, {}, <<Meter(O1)>>),
     [Grid2 EXCEPT !.waveforms = << >>],
     [Grid2 EXCEPT !.timeDomain = [port |-> Knob(P1), lo |-> 0]],
     [Grid2 EXCEPT !.waveforms[1].space.increasing = << << >>, << >> >>],
     [Grid2 EXCEPT !.waveforms[1].space.increasing = <<@[1]>>]}

MCScriptSets == {{}, {0}, {1}, {2}, {0, 1}, {0, 1, 2}}
MCSampleCounts == {-1, 0, 1, 2}

=============================================================================
