--------------------------- MODULE MeasurementPlan ---------------------------
(***************************************************************************)
(* The plan of a cartesian measurement: which primitive scripts run, with  *)
(* which setters and getters, what they are expected to return and how the *)
(* returns become one array per getter.                                    *)
(*                                                                         *)
(* Requests are the hub's own (see FalconMessages): only the first         *)
(* waveform counts.  Voltages are integers and the steps of a sweep divide *)
(* its domain evenly.  An Input of the code whose Num and Stop are nil has *)
(* swept = FALSE.                                                          *)
(***************************************************************************)
EXTENDS PortConfiguration

Space(req) == req.waveforms[1].space
Axes(req) == Space(req).axes
Slots(req) == UNION {{<<i, j>> : j \in DOMAIN Axes(req)[i]} : i \in DOMAIN Axes(req)}
Labelled(req, s) == Axes(req)[s[1]][s[2]]

\* unitspace.CreateArray for one axis (external): the coordinates from the
\* lesser bound on in steps of the discretizer.
ProjectAxis(space, i) ==
    LET n == ((space.domain.hi - space.domain.lo) \div space.axes[i].delta) + 1
    IN  [data |-> [k \in 1..n |-> space.domain.lo + (k - 1) * space.axes[i].delta], shape |-> <<n>>]

\* UnitSpace.CreateArray.
CreateArray(space, axes) ==
    AxesControlArrayFromFalcon([i \in DOMAIN axes |-> ProjectAxis(space, axes[i])])

\* axisValues: the points of an axis of the unit space.
AxisValues(req, i) == Only(CreateArray(Space(req).space, <<i>>))[1].data

\* CanHandle: a waveform, and every port is in the catalogue.
CanHandle(req, ports) ==
    /\ Len(req.waveforms) >= 1
    /\ \A i \in DOMAIN req.getters : PortExists(req.getters[i], ports)
    /\ \A s \in Slots(req) : PortExists(Labelled(req, s).port, ports)

\* convertToTarget: every match of a port has the port's name, so its channel.
ConvertToTarget(port, ports) == Target(CHOOSE p \in ResolvePort(port, ports) : TRUE)

\* buildGetters: the targets, and the port of each, the last one when several
\* ports share a channel.
GetterTargets(req, ports) ==
    [i \in DOMAIN req.getters |-> ConvertToTarget(req.getters[i], ports)]
GetterPort(req, ports, t) ==
    req.getters[CHOOSE i \in DOMAIN req.getters :
                  /\ ConvertToTarget(req.getters[i], ports) = t
                  /\ \A j \in DOMAIN req.getters :
                       ConvertToTarget(req.getters[j], ports) = t => j <= i]

\* inputFromDomain.
InputFromDomain(domain, increasing, num, axis) ==
    [swept |-> TRUE, axis |-> axis, num |-> num,
     start |-> IF increasing THEN domain.lo ELSE domain.hi,
     stop |-> IF increasing THEN domain.hi ELSE domain.lo]

\* The axis a script sees for axis i once the fixed ones are left out.
PrimitiveAxis(i, fixed) == Cardinality({k \in 1..(i - 1) : k \notin DOMAIN fixed})

\* buildSetters, one labelled domain.  fixed holds the index of the point each
\* fixed axis is at; the value is the coordinate of the unit space.
SetterInput(req, s, fixed) ==
    IF s[1] \in DOMAIN fixed
    THEN [swept |-> FALSE, axis |-> 0, num |-> 0, stop |-> 0,
          start |-> AxisValues(req, s[1])[fixed[s[1]]]]
    ELSE InputFromDomain(Labelled(req, s).domain, Space(req).increasing[s[1]][Labelled(req, s).port.gate],
                         Len(AxisValues(req, s[1])), PrimitiveAxis(s[1], fixed))

\* The request has a direction for the gate at slot s.
HasDirection(req, s) ==
    /\ s[1] \in DOMAIN Space(req).increasing
    /\ Labelled(req, s).port.gate \in DOMAIN Space(req).increasing[s[1]]

\* buildSetters: a swept port without direction ends the planning.
SettersOK(req, fixed) ==
    \A s \in Slots(req) : s[1] \in DOMAIN fixed \/ HasDirection(req, s)

\* buildSetters: a list of directions shorter than the axes is indexed beyond
\* its end, unless a gate of an earlier axis has no direction.  As no axis is
\* fixed at first, this is the only call in which it can happen.
SettersPanic(req) ==
    \E s \in Slots(req) :
        /\ s[1] \notin DOMAIN Space(req).increasing
        /\ \A r \in Slots(req) : r[1] < s[1] => HasDirection(req, r)

\* buildSetters: the inputs by channel, the last one written stays.
BuildSetters(req, fixed, ports) ==
    LET On(s) == ConvertToTarget(Labelled(req, s).port, ports)
        Later(s, r) == s[1] > r[1] \/ (s[1] = r[1] /\ s[2] >= r[2])
    IN  [t \in {On(s) : s \in Slots(req)} |->
            SetterInput(req, CHOOSE s \in Slots(req) :
                               On(s) = t /\ \A r \in Slots(req) : On(r) = t => Later(s, r),
                        fixed)]

Swept(setters) == {t \in DOMAIN setters : setters[t].swept}

\* buildPrimitiveInput: the input of one script; its dimension is the number
\* of axes that are swept.
PrimitiveInput(req, fixed, ports) ==
    LET setters == BuildSetters(req, fixed, ports)
    IN  [setters |-> setters, getters |-> GetterTargets(req, ports), fixed |-> fixed,
         choice |-> Cardinality({setters[t].axis : t \in Swept(setters)})]

\* The maps from fixed axes to points on them.
Fixings(req) ==
    UNION {[S -> UNION {DOMAIN AxisValues(req, i) : i \in S}] : S \in SUBSET DOMAIN Axes(req)}

NoPlan == [ok |-> FALSE, leaves |-> << >>]

\* Mutant: the second free axis is fixed first.
AxisToReduceLast(req, fixed) == {i \in DOMAIN Axes(req) : i \notin DOMAIN fixed /\
                                   \A k \in DOMAIN Axes(req) : k \in DOMAIN fixed \/ k <= i}

\* The first axis that is not fixed.
AxisToReduce(req, fixed) == {i \in DOMAIN Axes(req) : i \notin DOMAIN fixed /\
                               \A k \in 1..(i - 1) : k \in DOMAIN fixed}

\* buildPlan: a script runs the request when there is one for its dimension;
\* else the first free axis is fixed at each of its points in turn.  The leaves
\* of the plan, in the order NestedPlan.Execute runs them.
BuildPlan(req, ports, fixed, dims) ==
    LET Plan[f \in Fixings(req)] ==
            LET input == PrimitiveInput(req, f, ports)
                axes == AxisToReduce(req, f)
            IN  IF ~SettersOK(req, f) THEN NoPlan
                ELSE IF input.choice \in dims THEN [ok |-> TRUE, leaves |-> <<input>>]
                ELSE IF axes = {} THEN NoPlan
                ELSE LET a == CHOOSE i \in axes : TRUE
                         sub == [k \in DOMAIN AxisValues(req, a) |-> Plan[f @@ (a :> k)]]
                         Upto[k \in 0..Len(sub)] ==
                             IF k = 0 THEN << >> ELSE Upto[k - 1] \o sub[k].leaves
                     IN  IF \A k \in DOMAIN sub : sub[k].ok
                         THEN [ok |-> TRUE, leaves |-> Upto[Len(sub)]] ELSE NoPlan
    IN  Plan[fixed]

\* NativePlan.Shape: the lengths of the swept axes, 0 for one without setter.
NativeShape(input) ==
    LET axes == {input.setters[t].axis : t \in Swept(input.setters)}
    IN  [a \in 1..Cardinality(axes) |->
            IF a - 1 \in axes
            THEN input.setters[CHOOSE t \in Swept(input.setters) : input.setters[t].axis = a - 1].num
            ELSE 0]

\* shapeFromSpace: the lengths of all axes of the unit space.
ShapeFromSpace(req) == [i \in DOMAIN Axes(req) |-> Len(AxisValues(req, i))]

\* Plan.Shape: of the native plan, or of the nested one.
PlanShape(req, ports, dims) ==
    IF PrimitiveInput(req, << >>, ports).choice \in dims
    THEN NativeShape(PrimitiveInput(req, << >>, ports)) ELSE ShapeFromSpace(req)

Product(shape) == LET F[i \in 0..Len(shape)] == IF i = 0 THEN 1 ELSE F[i - 1] * shape[i]
                  IN  F[Len(shape)]

-----------------------------------------------------------------------------
(* Primitive scripts                                                       *)

\* getterArray: getters, none twice, each with a serialized form.
GettersEncode(input) ==
    /\ input.getters # << >>
    /\ \A i, j \in DOMAIN input.getters : i # j => input.getters[i] # input.getters[j]
    /\ \A i \in DOMAIN input.getters : Serializable(input.getters[i])

\* axisCounts: the setters of an axis agree, and every axis has one.
AxisCountsOK(input) ==
    LET swept == Swept(input.setters)
    IN  /\ \A t \in swept : input.setters[t].axis < input.choice /\ input.setters[t].num > 0
        /\ \A t, u \in swept : input.setters[t].axis = input.setters[u].axis
                                 => input.setters[t].num = input.setters[u].num
        /\ \A a \in 0..(input.choice - 1) : \E t \in swept : input.setters[t].axis = a
AxisCounts(input) ==
    [a \in 1..input.choice |->
        input.setters[CHOOSE t \in Swept(input.setters) : input.setters[t].axis = a - 1].num]

\* validateEncoder with encodeGetSet, encode1DBuffered and encode2DBuffered:
\* the two dimensional script has no place for a fixed setter.
Encodes(input) ==
    /\ GettersEncode(input)
    /\ \A t \in DOMAIN input.setters : Serializable(t)
    /\ AxisCountsOK(input)
    /\ input.choice = 2 => Swept(input.setters) = DOMAIN input.setters

\* The scripts (external).  measure_1D_buffered and measure_2D_buffered go
\* through their positions in row-major order; a sample is known by the
\* channel it was read from and the voltages on the setters at that moment.
Position(counts, k) ==
    CASE Len(counts) = 0 -> << >>
      [] Len(counts) = 1 -> <<k - 1>>
      [] OTHER -> <<(k - 1) \div counts[2], (k - 1) % counts[2]>>
Voltage(setter, pos) ==
    IF ~setter.swept \/ setter.num = 1 THEN setter.start
    ELSE setter.start + (pos[setter.axis + 1] * (setter.stop - setter.start)) \div (setter.num - 1)
Sample(input, t, pos) ==
    [on |-> t, volts |-> [u \in DOMAIN input.setters |-> Voltage(input.setters[u], pos)]]
Samples(input, t, n) ==
    LET counts == AxisCounts(input)
    IN  [k \in 1..(Product(counts) * n) |-> Sample(input, t, Position(counts, ((k - 1) \div n) + 1))]

\* Units between which falcon-core converts (external).
Compatible(u, v) == u = v \/ {u, v} = {"V", "mV"}

\* DecodeTargets: the returns that count for a getter.  Configuration calls
\* return other units, and only buffers count unless the script is get_set.
CallMatches(call, input, t, unit) ==
    /\ call.on = t /\ call.unit # ""
    /\ Compatible(call.unit, unit)
    /\ input.choice = 0 \/ call.kind = "buffer"

\* returnSamples and consumeBuffer, in call order.
SamplesOf(calls, input, t, unit) ==
    LET F[i \in 0..Len(calls)] ==
            IF i = 0 THEN << >>
            ELSE IF CallMatches(calls[i], input, t, unit) THEN F[i - 1] \o calls[i].samples
            ELSE F[i - 1]
    IN  F[Len(calls)]

\* decodePrimitive: as many samples as the shape asks for, or an error; a
\* count of 0, which was not read, stands for 1.
Expected(input, n) == Product(AxisCounts(input)) * (IF n = 0 THEN 1 ELSE n)
Decodes(calls, input, points, unitOf) ==
    \A i \in DOMAIN input.getters :
        LET t == input.getters[i]
        IN  Len(SamplesOf(calls, input, t, unitOf[t])) = Expected(input, points[t])

\* mergePrimitiveMeasurementOutputs.
Merge(total, calls, input, unitOf) ==
    [t \in DOMAIN unitOf |-> total[t] \o SamplesOf(calls, input, t, unitOf[t])]

\* averageData: n consecutive samples become one; what is averaged is kept as
\* the set of the samples.
Average(data, n) ==
    [k \in 1..(Len(data) \div n) |-> [data |-> {data[(k - 1) * n + j] : j \in 1..n}]]

-----------------------------------------------------------------------------
(* The request as its client means it, from the message itself            *)

ClientSpace(m) == m.waveforms[1].space
ClientPort(m, s) == ClientSpace(m).axes[s[1]][s[2]]
ClientSlots(m) ==
    UNION {{<<i, j>> : j \in DOMAIN ClientSpace(m).axes[i]} : i \in DOMAIN ClientSpace(m).axes}

\* The points of an axis in the unit space, and the shape of the grid.
ClientPoints(m, i) ==
    LET space == ClientSpace(m).space
    IN  ProjectAxis([axes |-> space.items, domain |-> space.domain], i).data
ClientShape(m) == [i \in DOMAIN ClientSpace(m).axes |-> Len(ClientPoints(m, i))]

\* The step on each axis of the k-th position, in row-major order.
GridIndex(shape, k) ==
    [i \in DOMAIN shape |->
        ((k - 1) \div Product(SubSeq(shape, i + 1, Len(shape)))) % shape[i]]

\* The voltage of a labelled domain at the k-th position.
ClientVoltage(m, s, k) ==
    LET d == ClientPort(m, s)
        n == ClientShape(m)[s[1]]
        up == <<d.port.gate, TRUE>> \in {ClientSpace(m).increasing[s[1]][j]
                                         : j \in DOMAIN ClientSpace(m).increasing[s[1]]}
        start == IF up THEN d.lo ELSE d.hi
        stop == IF up THEN d.hi ELSE d.lo
    IN  IF n = 1 THEN start
        ELSE start + (GridIndex(ClientShape(m), k)[s[1]] * (stop - start)) \div (n - 1)

=============================================================================
