--------------------------- MODULE VariableValues ---------------------------
(***************************************************************************)
(* The values that cross the wire between the hub and the instrument       *)
(* script server, by their kind.  A Go value has one of the kinds of the   *)
(* type switches in client.go; on the wire it takes the form of one branch *)
(* of the protobuf oneof; a type manifest or a result names its Lua type.  *)
(* Abstracted: the payload, and maps inside maps (a map is known by the    *)
(* set of the kinds of its items).                                         *)
(***************************************************************************)
EXTENDS Naturals

IntKinds == {"int", "int8", "int16", "int32", "int64",
             "uint", "uint8", "uint16", "uint32", "uint64"}
FloatKinds == {"float32", "float64"}
ArrayKinds == {"Int64Array", "DoubleArray", "BoolArray", "StringArray",
               "DataBufferArray", "CallStackArray",
               "InstrumentTargetArray", "InstrumentDomainArray"}

\* The type VariableValue: what its Value field may hold.  A uint64 beyond
\* MaxInt64 is a kind of its own.
Kinds == {"nil", "bool", "string", "DataBuffer", "CallStack",
          "InstrumentTarget", "InstrumentDomain", "MixedMap", "bigUint64"}
         \cup IntKinds \cup FloatKinds \cup ArrayKinds

\* The declared types of a manifest: those of the kinds LuaType knows.
LuaTypes == {"unspecified", "int64", "float64", "bool", "string", "DataBuffer",
             "CallStack", "InstrumentTarget", "InstrumentDomain"} \cup ArrayKinds

\* Mutant: a kind is missing from the type switch.
LuaTypeNoTarget(k) ==
    CASE k \in {"nil", "MixedMap"} -> "unspecified"
      [] k \in LuaTypes \ {"unspecified", "InstrumentTarget"} -> k
      [] OTHER -> "panic"

\* VariableValue.LuaType: the declared type of a Go value; it panics on the
\* others, among them integer kinds that toGrpcVariableValue accepts.
LuaType(k) ==
    CASE k \in {"nil", "MixedMap"} -> "unspecified"
      [] k \in LuaTypes \ {"unspecified"} -> k
      [] OTHER -> "panic"

\* toGrpcVariableValue without maps: the wire form of one value.  Strings of
\* four kinds share one form; a single DataBuffer has none.
ScalarToGrpc(k) ==
    CASE k \in IntKinds -> "int64"
      [] k \in FloatKinds -> "float64"
      [] k \in {"string", "CallStack", "InstrumentDomain", "InstrumentTarget"} -> "string"
      [] k \in {"nil", "bool"} \cup ArrayKinds -> k
      [] OTHER -> "error"

\* toGrpcVariableValue: a map fails when an item does.
ToGrpc(k, items) ==
    IF k # "MixedMap" THEN ScalarToGrpc(k)
    ELSE IF \E i \in items : ScalarToGrpc(i) = "error" THEN "error"
    ELSE "MixedMap"

\* The wire forms of a result: "absent" is one without a value, "unset" a value
\* whose oneof is empty, and a mixed array is part of the protocol although no
\* Go kind stands for it.
WireForms == {"absent", "unset", "nil", "bool", "int64", "float64", "string", "MixedMap", "MixedArray"}
             \cup ArrayKinds

\* fromGrpcVariableValue without maps: the Go kind of a wire form; it panics on
\* the forms its type switch does not know.
ScalarFromGrpc(w) ==
    CASE w \in {"absent", "nil"} -> "nil"
      [] w \in {"unset", "MixedArray"} -> "panic"
      [] OTHER -> w

\* fromGrpcVariableValue: a map panics when an item does.
FromGrpc(w, items) ==
    IF w = "MixedMap" /\ \E i \in items : ScalarFromGrpc(i) = "panic" THEN "panic"
    ELSE ScalarFromGrpc(w)

\* buildMeasureJobRequest, for one variable: the request is refused when a
\* value has no wire form, and only then is its Lua type asked for.
BuildMeasureJobRequest(k, items) ==
    IF ToGrpc(k, items) = "error" THEN "error"
    ELSE IF LuaType(k) = "panic" THEN "panic"
    ELSE "request"

\* Mutant: the declared type of a result is not used to restore its kind.
MeasureJobResultTypeLost(type, w, items) == FromGrpc(w, items)

\* measureJobResultToCallResults, for one return value: a buffer id travels as
\* a string and gets its kind back from the declared type.
MeasureJobResult(type, w, items) ==
    IF type = "DataBuffer" /\ FromGrpc(w, items) = "string" THEN "DataBuffer" ELSE FromGrpc(w, items)

\* The server's encoding of a value of its declared type (external): it is sent
\* as the client would send it, a single buffer id as a string.
ServerEncodes(type) ==
    CASE type = "unspecified" -> "absent"
      [] type = "DataBuffer" -> "string"
      [] OTHER -> ScalarToGrpc(type)

=============================================================================
