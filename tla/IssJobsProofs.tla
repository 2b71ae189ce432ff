---------------------------- MODULE IssJobsProofs ----------------------------
(***************************************************************************)
(* The safety properties of ScriptServerClient.Measure, for any number of  *)
(* callers, any base timeout and any job time below it.                    *)
(*                                                                         *)
(* That no call times out while the environment behaves is an argument     *)
(* about the whole queue: every queued job belongs to a call in flight, so *)
(* the job of a call that begins to wait is at a position not beyond the   *)
(* calls in flight, and its deadline leaves one base timeout for each      *)
(* position.  From then on a tick takes one from the deadline and one from *)
(* the time the jobs in front still need.                                  *)
(***************************************************************************)
EXTENDS IssJobs, TLAPS, FunctionTheorems, FiniteSetTheorems

InFlight == {c \in Callers : pc[c] # "idle"}

\* The counter counts the calls in flight, also after a panic and a restart.
Counted == inflight = Cardinality(InFlight)

\* Only calls that wait have polled, and a call has a job once it was accepted.
Calling ==
    /\ \A c \in polled : pc[c] = "wait"
    /\ \A c \in Callers : pc[c] \in {"accepted", "wait", "collect"} => job[c] \in Ids

\* The queue holds ids of accepted jobs, each once.
Queued ==
    /\ \A i \in 1..Len(queue) : queue[i] \in Ids
    /\ \A i, j \in 1..Len(queue) : queue[i] = queue[j] => i = j

\* Without a mishap the hub and the daemon are up and no job hangs.
Healthy == ~mishap => hub = "up" /\ daemon = "up" /\ hung = {}

\* Without a mishap every queued job belongs to a call that is about to wait
\* or waits for it.
Owned ==
    ~mishap => \A i \in 1..Len(queue) :
                  \E c \in Callers : pc[c] \in {"accepted", "wait"} /\ job[c] = queue[i]

\* Without a mishap the jobs that are not over are the ones in the queue.
PendingIsQueued ==
    ~mishap => \A id \in Ids :
                  IF \E i \in 1..Len(queue) : queue[i] = id
                  THEN status[id] = "pending"
                  ELSE status[id] \in {"completed", "failed"}

\* Without a mishap the budget of a call that waits covers the jobs up to its
\* own, with a tick to spare for the poll that finds it finished; after that
\* the spare tick is left until that poll is due.
Covered ==
    ~mishap => \A c \in Callers : pc[c] = "wait" =>
        /\ budget[c] >= IF c \in polled THEN 1 ELSE 0
        /\ \A i \in 1..Len(queue) : queue[i] = job[c] => budget[c] >= i * JobTime - ran + 1

IInv ==
    /\ TypeOK
    /\ Counted
    /\ Calling
    /\ Queued
    /\ Healthy
    /\ Owned
    /\ PendingIsQueued
    /\ Covered
    /\ ResultKeepsType
    /\ NoFalseTimeout

-----------------------------------------------------------------------------
(* The values that cross the wire.                                         *)

\* What the callers pass never makes LuaType panic.
LEMMA ArgumentsKnown ==
    ASSUME NEW k \in ArgKinds
    PROVE  BuildMeasureJobRequest(k, ItemKinds) \in {"request", "error"}
<1>1. k \in (LuaTypes \ {"unspecified"}) \cup {"nil", "MixedMap"}
  BY KindAssumption DEF Kinds, LuaTypes, IntKinds, FloatKinds, ArrayKinds
<1>2. LuaType(k) # "panic"
  <2>1. CASE k \in {"nil", "MixedMap"}
    BY <2>1 DEF LuaType
  <2>2. CASE k \in LuaTypes \ {"unspecified"} /\ k \notin {"nil", "MixedMap"}
    <3>1. LuaType(k) = k
      BY <2>2 DEF LuaType
    <3>2. "panic" \notin LuaTypes
      BY DEF LuaTypes, ArrayKinds
    <3> QED
      BY <2>2, <3>1, <3>2
  <2> QED
    BY <1>1, <2>1, <2>2
<1> QED
  BY <1>2 DEF BuildMeasureJobRequest

\* fromGrpcVariableValue returns a kind of the hub or panics.
LEMMA ResultConverted ==
    ASSUME NEW t \in LuaTypes, NEW w \in WireForms, NEW items
    PROVE  MeasureJobResult(t, w, items) \in Kinds \cup {"panic"}
<1>1. CASE w \in {"absent", "nil", "unset", "MixedArray"}
  <2>1. ScalarFromGrpc(w) \in {"nil", "panic"} /\ w # "MixedMap"
    BY <1>1 DEF ScalarFromGrpc
  <2>2. MeasureJobResult(t, w, items) \in {"nil", "panic"}
    BY <2>1 DEF MeasureJobResult, FromGrpc
  <2> QED
    BY <2>2 DEF Kinds
<1>2. CASE w \notin {"absent", "nil", "unset", "MixedArray"}
  <2>1. ScalarFromGrpc(w) = w
    BY <1>2 DEF ScalarFromGrpc
  <2>2. MeasureJobResult(t, w, items) \in {w, "panic", "DataBuffer"}
    BY <2>1 DEF MeasureJobResult, FromGrpc
  <2>3. w \in Kinds
    BY <1>2 DEF WireForms, Kinds, IntKinds, FloatKinds
  <2> QED
    BY <2>2, <2>3 DEF Kinds
<1> QED
  BY <1>1, <1>2

\* A result that is the encoding of a type the callers use gets the kind that
\* type names.
LEMMA ResultsTyped ==
    ASSUME NEW t \in ReturnTypes, NEW items
    PROVE  /\ t \in LuaTypes /\ ServerEncodes(t) \in WireForms
           /\ MeasureJobResult(t, ServerEncodes(t), items) = IF t = "unspecified" THEN "nil" ELSE t
           /\ t # "panic"
<1>1. t \in LuaTypes /\ t \notin {"CallStack", "InstrumentTarget", "InstrumentDomain"}
  BY KindAssumption
<1>2. CASE t = "unspecified"
  BY <1>2 DEF MeasureJobResult, ServerEncodes, FromGrpc, ScalarFromGrpc, WireForms, LuaTypes
<1>3. CASE t = "DataBuffer"
  BY <1>3 DEF MeasureJobResult, ServerEncodes, FromGrpc, ScalarFromGrpc, WireForms, LuaTypes
<1>4. CASE t \in {"int64", "float64", "bool", "string"} \cup ArrayKinds
  <2>1. ServerEncodes(t) = ScalarToGrpc(t) /\ t # "DataBuffer" /\ t # "unspecified"
    BY <1>4 DEF ServerEncodes, ArrayKinds
  <2>2. ScalarToGrpc(t) = t /\ t \notin {"absent", "nil", "unset", "MixedArray", "MixedMap"}
    BY <1>4 DEF ScalarToGrpc, IntKinds, FloatKinds, ArrayKinds
  <2>3. MeasureJobResult(t, ServerEncodes(t), items) = t
    BY <2>1, <2>2 DEF MeasureJobResult, FromGrpc, ScalarFromGrpc
  <2>4. t \in WireForms
    BY <1>4 DEF WireForms
  <2>5. t # "panic"
    BY <1>4 DEF ArrayKinds
  <2> QED
    BY <1>1, <2>1, <2>2, <2>3, <2>4, <2>5
<1> QED
  BY <1>1, <1>2, <1>3, <1>4 DEF LuaTypes

\* What a job returns is a result, and of the kind its type names when it is
\* the encoding of that type.
LEMMA ReturnedResult ==
    ASSUME NEW t \in ReturnTypes, NEW w \in {ServerEncodes(t)} \cup OtherForms, NEW items
    PROVE  LET r == [type |-> t, form |-> w, kind |-> MeasureJobResult(t, w, items)]
           IN  /\ r \in Results
               /\ r.form = ServerEncodes(r.type) => r.kind = IF r.type = "unspecified" THEN "nil" ELSE r.type
               /\ r.kind = "panic" => r.form # ServerEncodes(r.type)
<1>1. t \in LuaTypes /\ w \in WireForms
  BY ResultsTyped, KindAssumption
<1>2. MeasureJobResult(t, w, items) \in Kinds \cup {"panic"}
  BY <1>1, ResultConverted
<1>3. w = ServerEncodes(t) => /\ MeasureJobResult(t, w, items) = IF t = "unspecified" THEN "nil" ELSE t
                              /\ MeasureJobResult(t, w, items) # "panic"
  BY ResultsTyped
<1> QED
  BY <1>1, <1>2, <1>3 DEF Results

\* A call that returned nothing yet has an empty result.
LEMMA NoResultTyped ==
    /\ NoResult \in Results
    /\ NoResult.form = ServerEncodes(NoResult.type) /\ NoResult.kind = "nil" /\ NoResult.type = "unspecified"
  BY DEF NoResult, Results, LuaTypes, WireForms, Kinds, ServerEncodes

-----------------------------------------------------------------------------
(* Calls in flight.                                                        *)

\* The calls in flight are finitely many.
LEMMA InFlightFinite == IsFiniteSet(InFlight) /\ Cardinality(InFlight) \in Nat
<1>1. InFlight \in SUBSET Callers
  BY DEF InFlight
<1>2. IsFiniteSet(InFlight)
  BY <1>1, CallerAssumption, FS_Subset
<1> QED
  BY <1>2, FS_CardinalityType

\* A call that returns leaves one call less in flight.
LEMMA ReturnFacts ==
    ASSUME TypeOK, Counted, NEW c \in Callers, pc[c] # "idle",
           NEW how \in {"results", "error", "timeout"}, Return(c, how)
    PROVE  /\ pc' \in [Callers -> {"idle", "entered", "accepted", "wait", "collect"}]
           /\ job' \in [Callers -> Nat] /\ budget' \in [Callers -> Int]
           /\ last' \in [Callers -> {"none", "results", "error", "timeout"}]
           /\ inflight' \in Nat /\ polled' \subseteq Callers
           /\ Counted'
<1>1. /\ pc' \in [Callers -> {"idle", "entered", "accepted", "wait", "collect"}]
      /\ job' \in [Callers -> Nat] /\ budget' \in [Callers -> Int]
      /\ last' \in [Callers -> {"none", "results", "error", "timeout"}]
      /\ polled' \subseteq Callers
  BY DEF TypeOK, Return
<1>2. InFlight' = InFlight \ {c} /\ c \in InFlight
  BY DEF TypeOK, Return, InFlight
<1>3. Cardinality(InFlight') = Cardinality(InFlight) - 1
  BY <1>2, InFlightFinite, FS_RemoveElement
<1>4. Cardinality(InFlight') \in Nat
  <2>1. IsFiniteSet(InFlight')
    BY <1>2, InFlightFinite, FS_RemoveElement
  <2> QED
    BY <2>1, FS_CardinalityType
<1>5. inflight' = Cardinality(InFlight')
  BY <1>3 DEF Counted, Return
<1> QED
  BY <1>1, <1>4, <1>5 DEF Counted

\* A call that stays in flight leaves the number of calls in flight alone.
LEMMA StaysInFlight ==
    ASSUME TypeOK, Counted, NEW c \in Callers, pc[c] # "idle", NEW s, s # "idle",
           pc' = [pc EXCEPT ![c] = s], inflight' = inflight
    PROVE  Counted'
<1>1. InFlight' = InFlight
  BY DEF TypeOK, InFlight
<1> QED
  BY <1>1 DEF Counted

\* The calls in flight do not change when the steps of the calls do not.
LEMMA SameInFlight ==
    ASSUME Counted, pc' = pc, inflight' = inflight
    PROVE  Counted'
<1>1. InFlight' = InFlight
  BY DEF InFlight
<1> QED
  BY <1>1 DEF Counted

\* Without a mishap the queue is not longer than the calls in flight are many.
LEMMA QueueWithinCalls ==
    ASSUME TypeOK, Counted, Queued, Owned, ~mishap
    PROVE  Len(queue) <= inflight
<1> DEFINE owner == [i \in 1..Len(queue) |->
                       CHOOSE c \in Callers : pc[c] \in {"accepted", "wait"} /\ job[c] = queue[i]]
<1>1. ASSUME NEW i \in 1..Len(queue)
      PROVE  owner[i] \in Callers /\ pc[owner[i]] \in {"accepted", "wait"} /\ job[owner[i]] = queue[i]
  BY DEF Owned
<1>2. owner \in [1..Len(queue) -> InFlight]
  BY <1>1 DEF InFlight
<1>3. \A i, j \in 1..Len(queue) : owner[i] = owner[j] => i = j
  BY <1>1 DEF Queued
<1> HIDE DEF owner
<1>4. owner \in Injection(1..Len(queue), InFlight)
  BY <1>2, <1>3, Fun_IsInj
<1>5. Cardinality(1..Len(queue)) <= Cardinality(InFlight)
  BY <1>4, InFlightFinite, FS_Injection
<1>6. Len(queue) \in Nat
  BY DEF TypeOK
<1>7. Cardinality(1..Len(queue)) = Len(queue)
  BY <1>6, FS_Interval
<1> QED
  BY <1>5, <1>7 DEF Counted

-----------------------------------------------------------------------------
(* Steps of one call that leave the server alone.                          *)

\* Nothing of another call changes.
Others(c) ==
    \A d \in Callers \ {c} :
        /\ pc'[d] = pc[d] /\ job'[d] = job[d] /\ budget'[d] = budget[d]
        /\ last'[d] = last[d] /\ got'[d] = got[d]
        /\ d \in polled' <=> d \in polled

\* A call may leave or pass the states before and after its wait when the
\* server does not owe it a job any more.
LEMMA OneCall ==
    ASSUME IInv, NEW c \in Callers, Others(c), UNCHANGED <<issVars, hub, daemon, mishap>>,
           pc'[c] # "wait", mishap \/ last'[c] # "timeout",
           \/ mishap \/ pc[c] \notin {"accepted", "wait"}
           \/ \A i \in 1..Len(queue) : queue[i] # job[c]
    PROVE  Queued' /\ Healthy' /\ Owned' /\ PendingIsQueued' /\ Covered' /\ NoFalseTimeout'
<1>1. UNCHANGED <<queue, ran, hung, status>> /\ Ids' = Ids
  BY DEF issVars, Ids
<1>2. Queued' /\ Healthy' /\ PendingIsQueued'
  BY <1>1 DEF IInv, Queued, Healthy, PendingIsQueued
<1>3. Owned'
  <2> SUFFICES ASSUME ~mishap, NEW i \in 1..Len(queue)
               PROVE  \E d \in Callers : pc'[d] \in {"accepted", "wait"} /\ job'[d] = queue[i]
    BY <1>1 DEF Owned
  <2>1. PICK d \in Callers : pc[d] \in {"accepted", "wait"} /\ job[d] = queue[i]
    BY DEF IInv, Owned
  <2>2. d # c
    BY <2>1
  <2> QED
    BY <2>1, <2>2 DEF Others
<1>4. Covered'
  <2> SUFFICES ASSUME ~mishap, NEW d \in Callers, pc'[d] = "wait"
               PROVE  /\ budget'[d] >= IF d \in polled' THEN 1 ELSE 0
                      /\ \A i \in 1..Len(queue) : queue[i] = job'[d] => budget'[d] >= i * JobTime - ran + 1
    BY <1>1 DEF Covered
  <2>1. d # c
    OBVIOUS
  <2> QED
    BY <2>1 DEF IInv, Covered, Others
<1>5. NoFalseTimeout'
  BY DEF IInv, NoFalseTimeout, Others
<1> QED
  BY <1>2, <1>3, <1>4, <1>5

\* A call that returns touches no other call.
LEMMA ReturnOthers ==
    ASSUME TypeOK, NEW c \in Callers, NEW how, Return(c, how),
           got' = got \/ \E r : got' = [got EXCEPT ![c] = r]
    PROVE  Others(c) /\ pc'[c] = "idle" /\ last'[c] = how
<1>1. \A d \in Callers \ {c} : got'[d] = got[d]
  BY DEF TypeOK
<1>2. /\ pc'[c] = "idle" /\ last'[c] = how
      /\ \A d \in Callers \ {c} : pc'[d] = pc[d] /\ job'[d] = job[d] /\ budget'[d] = budget[d] /\ last'[d] = last[d]
  BY DEF TypeOK, Return
<1>3. \A d \in Callers \ {c} : d \in polled' <=> d \in polled
  BY DEF Return
<1> QED
  BY <1>1, <1>2, <1>3 DEF Others

\* Measure: the call is counted, or refused at once.
LEMMA MeasureIInv ==
    ASSUME IInv, NEW c \in Callers, Measure(c)
    PROVE  IInv'
<1> USE DEF issVars
<1>1. pc[c] = "idle" /\ UNCHANGED <<issVars, daemon, mishap>>
  BY DEF Measure
<1>2. PICK k \in ArgKinds :
         CASE BuildMeasureJobRequest(k, ItemKinds) = "request" ->
                /\ pc' = [pc EXCEPT ![c] = "entered"]
                /\ inflight' = inflight + 1
                /\ last' = [last EXCEPT ![c] = "none"]
                /\ got' = [got EXCEPT ![c] = NoResult]
                /\ UNCHANGED <<job, budget, polled, hub>>
           [] BuildMeasureJobRequest(k, ItemKinds) = "error" ->
                /\ last' = [last EXCEPT ![c] = "error"]
                /\ UNCHANGED <<pc, job, budget, got, inflight, polled, hub>>
           [] OTHER -> Panic("argument")
  BY DEF Measure
<1>3. BuildMeasureJobRequest(k, ItemKinds) \in {"request", "error"}
  BY ArgumentsKnown
<1>4. CASE /\ pc' = [pc EXCEPT ![c] = "entered"]
           /\ inflight' = inflight + 1
           /\ last' = [last EXCEPT ![c] = "none"]
           /\ got' = [got EXCEPT ![c] = NoResult]
           /\ UNCHANGED <<job, budget, polled, hub>>
  <2>1. NoResult \in Results
    BY NoResultTyped
  <2>2. inflight' \in Nat /\ got' \in [Callers -> Results]
    BY <1>4, <2>1 DEF IInv, TypeOK
  <2>3. TypeOK'
    BY <1>1, <1>4, <2>2 DEF IInv, TypeOK
  <2>4. InFlight' = InFlight \cup {c} /\ c \notin InFlight
    BY <1>1, <1>4 DEF IInv, TypeOK, InFlight
  <2>5. Cardinality(InFlight') = Cardinality(InFlight) + 1
    BY <2>4, InFlightFinite, FS_AddElement
  <2>6. Counted'
    BY <1>4, <2>5 DEF IInv, Counted
  <2>7. Calling'
    BY <1>1, <1>4 DEF IInv, TypeOK, Calling, Ids
  <2>8. Others(c) /\ pc'[c] = "entered" /\ last'[c] = "none"
    BY <1>4 DEF IInv, TypeOK, Others
  <2>9. Queued' /\ Healthy' /\ Owned' /\ PendingIsQueued' /\ Covered' /\ NoFalseTimeout'
    BY <1>1, <1>4, <2>8, OneCall
  <2>10. ResultKeepsType'
    BY <1>4, NoResultTyped DEF IInv, TypeOK, ResultKeepsType
  <2> QED
    BY <2>3, <2>6, <2>7, <2>9, <2>10 DEF IInv
<1>5. CASE /\ last' = [last EXCEPT ![c] = "error"]
           /\ UNCHANGED <<pc, job, budget, got, inflight, polled, hub>>
  <2>1. TypeOK'
    BY <1>1, <1>5 DEF IInv, TypeOK
  <2>2. Counted'
    BY <1>5, SameInFlight DEF IInv
  <2>3. Calling' /\ ResultKeepsType'
    BY <1>1, <1>5 DEF IInv, Calling, Ids, ResultKeepsType
  <2>4. Others(c) /\ pc'[c] = "idle" /\ last'[c] = "error"
    BY <1>1, <1>5 DEF IInv, TypeOK, Others
  <2>5. Queued' /\ Healthy' /\ Owned' /\ PendingIsQueued' /\ Covered' /\ NoFalseTimeout'
    BY <1>1, <1>5, <2>4, OneCall
  <2> QED
    BY <2>1, <2>2, <2>3, <2>5 DEF IInv
<1> QED
  BY <1>2, <1>3, <1>4, <1>5

\* A call returns that has no job in the queue, or after a mishap.
LEMMA ReturnIInv ==
    ASSUME IInv, NEW c \in Callers, pc[c] # "idle",
           NEW how \in {"results", "error", "timeout"}, Return(c, how),
           UNCHANGED <<issVars, hub, daemon, mishap>>,
           mishap \/ how # "timeout",
           \/ mishap \/ pc[c] \notin {"accepted", "wait"}
           \/ \A i \in 1..Len(queue) : queue[i] # job[c],
           got' \in [Callers -> Results], ResultKeepsType',
           got' = got \/ \E r : got' = [got EXCEPT ![c] = r]
    PROVE  IInv'
<1> USE DEF issVars
<1>1. /\ pc' \in [Callers -> {"idle", "entered", "accepted", "wait", "collect"}]
      /\ job' \in [Callers -> Nat] /\ budget' \in [Callers -> Int]
      /\ last' \in [Callers -> {"none", "results", "error", "timeout"}]
      /\ inflight' \in Nat /\ polled' \subseteq Callers
      /\ Counted'
  BY ReturnFacts DEF IInv
<1>3. TypeOK'
  BY <1>1 DEF IInv, TypeOK
<1>4. Others(c) /\ pc'[c] = "idle" /\ last'[c] = how
  BY ReturnOthers DEF IInv
<1>5. Queued' /\ Healthy' /\ Owned' /\ PendingIsQueued' /\ Covered' /\ NoFalseTimeout'
  BY <1>4, OneCall
<1>6. Calling'
  <2>1. Ids' = Ids /\ polled' = polled \ {c}
    BY DEF Ids, Return
  <2> QED
    BY <1>4, <2>1 DEF IInv, TypeOK, Calling, Others
<1> QED
  BY <1>1, <1>3, <1>5, <1>6 DEF IInv

\* A call that returns without a result keeps what it got.
LEMMA GotKept ==
    ASSUME IInv, got' = got
    PROVE  got' \in [Callers -> Results] /\ ResultKeepsType'
  BY DEF IInv, TypeOK, ResultKeepsType

\* The returns outside the wait.
LEMMA EndsIInv ==
    ASSUME IInv, NEW c \in Callers, RequestRefused(c) \/ CollectFails(c)
    PROVE  IInv'
<1>1. /\ pc[c] \in {"entered", "collect"} /\ UNCHANGED <<issVars, hub, daemon, mishap>>
      /\ Return(c, "error") /\ got' = got
  BY DEF RequestRefused, CollectFails
<1> QED
  BY <1>1, GotKept, ReturnIInv

\* The deadline does not pass unless there was a mishap.
LEMMA TimeoutIInv ==
    ASSUME IInv, NEW c \in Callers, Timeout(c)
    PROVE  IInv'
<1>1. /\ pc[c] = "wait" /\ budget[c] < 0 /\ Return(c, "timeout") /\ got' = got
      /\ UNCHANGED <<issVars, hub, daemon, mishap>>
  BY DEF Timeout
<1>2. ASSUME ~mishap PROVE FALSE
  <2>1. budget[c] \in Int /\ budget[c] >= (IF c \in polled THEN 1 ELSE 0)
    BY <1>1, <1>2 DEF IInv, Covered, TypeOK
  <2> QED
    BY <1>1, <2>1
<1> QED
  BY <1>1, <1>2, GotKept, ReturnIInv

-----------------------------------------------------------------------------
(* Steps of the server and of calls that meet it.                          *)

\* A mishap ends what is promised without one.
LEMMA AfterMishap ==
    ASSUME mishap'
    PROVE  Healthy' /\ Owned' /\ PendingIsQueued' /\ Covered' /\ NoFalseTimeout'
  BY DEF Healthy, Owned, PendingIsQueued, Covered, NoFalseTimeout

\* The server puts a new job at the end of its queue.
LEMMA EnqueueFacts ==
    ASSUME TypeOK, Queued, Enqueue
    PROVE  /\ queue' \in Seq(Nat) /\ status' \in Seq({"pending", "completed", "failed", "canceling"})
           /\ ran' = ran /\ hung' = hung
           /\ Len(queue') = Len(queue) + 1 /\ Len(queue) \in Nat /\ Len(status) \in Nat
           /\ 1..Len(queue') = (1..Len(queue)) \cup {Len(queue) + 1}
           /\ Ids' = Ids \cup {Len(status) + 1} /\ Len(status) + 1 \notin Ids
           /\ \A i \in 1..Len(queue) : queue'[i] = queue[i]
           /\ queue'[Len(queue) + 1] = Len(status) + 1
           /\ \A id \in Ids : status'[id] = status[id]
           /\ status'[Len(status) + 1] = "pending"
           /\ Queued'
<1>1. /\ queue' = Append(queue, Len(status) + 1) /\ status' = Append(status, "pending")
      /\ ran' = ran /\ hung' = hung
  BY DEF Enqueue
<1>2. Len(queue) \in Nat /\ Len(status) \in Nat
  BY DEF TypeOK
<1>3. /\ queue' \in Seq(Nat) /\ Len(queue') = Len(queue) + 1
      /\ \A i \in 1..Len(queue) : queue'[i] = queue[i]
      /\ queue'[Len(queue) + 1] = Len(status) + 1
  BY <1>1, <1>2 DEF TypeOK
<1>4. /\ status' \in Seq({"pending", "completed", "failed", "canceling"})
      /\ Len(status') = Len(status) + 1
      /\ \A id \in Ids : status'[id] = status[id]
      /\ status'[Len(status) + 1] = "pending"
  BY <1>1, <1>2 DEF TypeOK, Ids
<1>5. Ids' = Ids \cup {Len(status) + 1} /\ Len(status) + 1 \notin Ids
  BY <1>2, <1>4 DEF Ids
<1>6. 1..Len(queue') = (1..Len(queue)) \cup {Len(queue) + 1}
  BY <1>2, <1>3
<1>7. \A i \in 1..Len(queue') : \/ i \in 1..Len(queue) /\ queue'[i] = queue[i] /\ queue'[i] \in Ids
                                \/ i = Len(queue) + 1 /\ queue'[i] = Len(status) + 1
  <2> TAKE i \in 1..Len(queue')
  <2>1. CASE i \in 1..Len(queue)
    <3>1. queue'[i] = queue[i]
      BY <1>3, <2>1
    <3>2. queue[i] \in Ids
      BY <2>1 DEF Queued
    <3> QED
      BY <2>1, <3>1, <3>2
  <2>2. CASE i = Len(queue) + 1
    BY <1>3, <2>2
  <2> QED
    BY <1>6, <2>1, <2>2
<1>8. Queued'
  BY <1>5, <1>7 DEF Queued
<1> QED
  BY <1>1, <1>2, <1>3, <1>4, <1>5, <1>6, <1>8

\* requestMeasurement: the call owns the job it put at the end of the queue.
LEMMA RequestIInv ==
    ASSUME IInv, NEW c \in Callers, RequestMeasurement(c)
    PROVE  IInv'
<1> DEFINE n == Len(status) + 1
<1>1. /\ pc[c] = "entered" /\ Enqueue
      /\ job' = [job EXCEPT ![c] = n] /\ pc' = [pc EXCEPT ![c] = "accepted"]
      /\ UNCHANGED <<budget, last, got, inflight, polled, hub, daemon, mishap>>
  BY DEF RequestMeasurement
<1>2. /\ queue' \in Seq(Nat) /\ status' \in Seq({"pending", "completed", "failed", "canceling"})
      /\ ran' = ran /\ hung' = hung
      /\ Len(queue') = Len(queue) + 1 /\ Len(queue) \in Nat /\ n \in Nat
      /\ 1..Len(queue') = (1..Len(queue)) \cup {Len(queue) + 1}
      /\ Ids' = Ids \cup {n} /\ n \notin Ids
      /\ \A i \in 1..Len(queue) : queue'[i] = queue[i]
      /\ queue'[Len(queue) + 1] = n
      /\ \A id \in Ids : status'[id] = status[id]
      /\ status'[n] = "pending"
      /\ Queued'
  BY <1>1, EnqueueFacts DEF IInv
<1> HIDE DEF n
<1>3. job' \in [Callers -> Nat] /\ pc' \in [Callers -> {"idle", "entered", "accepted", "wait", "collect"}]
  BY <1>1, <1>2 DEF IInv, TypeOK
<1>4. TypeOK'
  BY <1>1, <1>2, <1>3 DEF IInv, TypeOK
<1>5. Counted'
  BY <1>1, StaysInFlight DEF IInv
<1>6. /\ pc'[c] = "accepted" /\ job'[c] = n
      /\ \A d \in Callers \ {c} : pc'[d] = pc[d] /\ job'[d] = job[d]
  BY <1>1 DEF IInv, TypeOK
<1>7. Calling'
  BY <1>1, <1>2, <1>6 DEF IInv, TypeOK, Calling
<1>8. Healthy' /\ NoFalseTimeout' /\ ResultKeepsType'
  BY <1>1, <1>2 DEF IInv, Healthy, NoFalseTimeout, ResultKeepsType
<1>9. Owned'
  <2> SUFFICES ASSUME ~mishap, NEW i \in 1..Len(queue')
               PROVE  \E d \in Callers : pc'[d] \in {"accepted", "wait"} /\ job'[d] = queue'[i]
    BY <1>1 DEF Owned
  <2>1. CASE i = Len(queue) + 1
    BY <1>2, <1>6, <2>1
  <2>2. CASE i # Len(queue) + 1
    <3>1. i \in 1..Len(queue) /\ queue'[i] = queue[i]
      BY <1>2, <2>2
    <3>2. PICK d \in Callers : pc[d] \in {"accepted", "wait"} /\ job[d] = queue[i]
      BY <3>1 DEF IInv, Owned
    <3> QED
      BY <1>1, <1>6, <3>1, <3>2
  <2> QED
    BY <2>1, <2>2
<1>10. PendingIsQueued'
  <2> SUFFICES ASSUME ~mishap, NEW id \in Ids'
               PROVE  IF \E i \in 1..Len(queue') : queue'[i] = id
                      THEN status'[id] = "pending" ELSE status'[id] \in {"completed", "failed"}
    BY <1>1 DEF PendingIsQueued
  <2>1. CASE id = n
    BY <1>2, <2>1
  <2>2. CASE id # n
    <3>1. id \in Ids /\ status'[id] = status[id]
      BY <1>2, <2>2
    <3>2. (\E i \in 1..Len(queue') : queue'[i] = id) <=> (\E i \in 1..Len(queue) : queue[i] = id)
      BY <1>2, <2>2
    <3> QED
      BY <3>1, <3>2 DEF IInv, PendingIsQueued
  <2> QED
    BY <2>1, <2>2
<1>11. Covered'
  <2> SUFFICES ASSUME ~mishap, NEW d \in Callers, pc'[d] = "wait"
               PROVE  /\ budget[d] >= IF d \in polled THEN 1 ELSE 0
                      /\ \A i \in 1..Len(queue') : queue'[i] = job'[d] => budget[d] >= i * JobTime - ran + 1
    BY <1>1, <1>2 DEF Covered
  <2>1. d # c /\ pc[d] = "wait" /\ job'[d] = job[d] /\ job[d] \in Ids
    BY <1>6 DEF IInv, Calling
  <2>2. budget[d] >= IF d \in polled THEN 1 ELSE 0
    BY <2>1 DEF IInv, Covered
  <2>3. ASSUME NEW i \in 1..Len(queue'), queue'[i] = job[d] PROVE i \in 1..Len(queue) /\ queue[i] = job[d]
    BY <1>2, <2>1, <2>3
  <2> QED
    BY <2>1, <2>2, <2>3 DEF IInv, Covered
<1> QED
  BY <1>2, <1>4, <1>5, <1>7, <1>8, <1>9, <1>10, <1>11 DEF IInv

\* requestMeasurement without an answer: the job stays in the queue.
LEMMA AnswerLostIInv ==
    ASSUME IInv, NEW c \in Callers, RequestAnswerLost(c)
    PROVE  IInv'
<1>1. /\ pc[c] = "entered" /\ Enqueue /\ Return(c, "error") /\ mishap' = TRUE
      /\ UNCHANGED <<got, hub, daemon>>
  BY DEF RequestAnswerLost
<1>2. /\ queue' \in Seq(Nat) /\ status' \in Seq({"pending", "completed", "failed", "canceling"})
      /\ ran' = ran /\ hung' = hung /\ Ids \subseteq Ids' /\ Queued'
  BY <1>1, EnqueueFacts DEF IInv
<1>3. /\ pc' \in [Callers -> {"idle", "entered", "accepted", "wait", "collect"}]
      /\ job' \in [Callers -> Nat] /\ budget' \in [Callers -> Int]
      /\ last' \in [Callers -> {"none", "results", "error", "timeout"}]
      /\ inflight' \in Nat /\ polled' \subseteq Callers
      /\ Counted'
  BY <1>1, ReturnFacts DEF IInv
<1>4. TypeOK'
  BY <1>1, <1>2, <1>3 DEF IInv, TypeOK
<1>5. Others(c) /\ pc'[c] = "idle" /\ polled' = polled \ {c}
  BY <1>1, ReturnOthers DEF IInv, Return
<1>6. Calling'
  BY <1>2, <1>5 DEF IInv, TypeOK, Calling, Others
<1>7. ResultKeepsType'
  BY <1>1 DEF IInv, ResultKeepsType
<1>8. mishap'
  BY <1>1
<1> QED
  BY <1>2, <1>3, <1>4, <1>6, <1>7, <1>8, AfterMishap DEF IInv

-----------------------------------------------------------------------------
(* The wait.                                                               *)

\* The deadline leaves a base timeout, hence more than a job time, for every
\* position up to the number of calls in flight.
LEMMA DeadlineCovers ==
    ASSUME TypeOK, NEW i \in Nat \ {0}, i <= inflight
    PROVE  CurrentMeasurementTimeout >= i * JobTime - ran + 1
<1>1. /\ inflight \in Nat /\ ran \in Nat /\ JobTime \in Nat /\ Base \in Nat /\ Base >= JobTime + 1
      /\ i \in Nat /\ i >= 1 /\ inflight >= 1
  BY TimeAssumption DEF TypeOK
<1>2. CurrentMeasurementTimeout = inflight * Base
  BY <1>1 DEF CurrentMeasurementTimeout
<1>3. \A a, b, x \in Nat : a <= b => a * x <= b * x
  OBVIOUS
<1>4. i * Base <= inflight * Base
  BY <1>1, <1>3
<1>5. (JobTime + 1) * i <= Base * i
  BY <1>1, <1>3
<1>6. (JobTime + 1) * i = i * JobTime + i /\ Base * i = i * Base /\ i * JobTime \in Nat
  BY <1>1
<1> QED
  BY <1>1, <1>2, <1>4, <1>5, <1>6

\* waitForMeasureJob begins with a deadline that covers its job.
LEMMA StartWaitIInv ==
    ASSUME IInv, NEW c \in Callers, StartWait(c)
    PROVE  IInv'
<1> USE DEF issVars
<1>1. /\ pc[c] = "accepted"
      /\ budget' = [budget EXCEPT ![c] = CurrentMeasurementTimeout]
      /\ pc' = [pc EXCEPT ![c] = "wait"]
      /\ UNCHANGED <<job, last, got, inflight, polled, issVars, hub, daemon, mishap>>
  BY DEF StartWait
<1>2. CurrentMeasurementTimeout \in Int /\ CurrentMeasurementTimeout >= 1
  <2>1. /\ inflight \in Nat /\ Base \in Nat /\ Base >= 1
    BY TimeAssumption DEF IInv, TypeOK
  <2>2. \A a, b \in Nat : a >= 1 /\ b >= 1 => a * b \in Nat /\ a * b >= 1
    OBVIOUS
  <2> QED
    BY <2>1, <2>2 DEF CurrentMeasurementTimeout
<1>3. TypeOK'
  BY <1>1, <1>2 DEF IInv, TypeOK
<1>4. Counted'
  BY <1>1, StaysInFlight DEF IInv
<1>5. /\ pc'[c] = "wait" /\ budget'[c] = CurrentMeasurementTimeout
      /\ \A d \in Callers \ {c} : pc'[d] = pc[d] /\ budget'[d] = budget[d]
  BY <1>1 DEF IInv, TypeOK
<1>6. Ids' = Ids
  BY <1>1 DEF Ids
<1>7. Calling'
  BY <1>1, <1>5, <1>6 DEF IInv, TypeOK, Calling
<1>8. Queued' /\ Healthy' /\ PendingIsQueued' /\ NoFalseTimeout' /\ ResultKeepsType'
  BY <1>1, <1>6 DEF IInv, Queued, Healthy, PendingIsQueued, NoFalseTimeout, ResultKeepsType
<1>9. Owned'
  BY <1>1, <1>5 DEF IInv, Owned
<1>10. Covered'
  <2> SUFFICES ASSUME ~mishap, NEW d \in Callers, pc'[d] = "wait"
               PROVE  /\ budget'[d] >= IF d \in polled THEN 1 ELSE 0
                      /\ \A i \in 1..Len(queue) : queue[i] = job[d] => budget'[d] >= i * JobTime - ran + 1
    BY <1>1 DEF Covered
  <2>1. CASE d = c
    <3>1. Len(queue) <= inflight /\ Len(queue) \in Nat /\ inflight \in Nat
      BY QueueWithinCalls DEF IInv, TypeOK
    <3>2. ASSUME NEW i \in 1..Len(queue) PROVE budget'[c] >= i * JobTime - ran + 1
      <4>1. i \in Nat \ {0} /\ i <= inflight
        BY <3>1
      <4> QED
        BY <1>5, <4>1, DeadlineCovers DEF IInv
    <3>3. budget'[c] >= 1 /\ budget'[c] >= 0
      BY <1>2, <1>5
    <3> QED
      BY <2>1, <3>2, <3>3
  <2>2. CASE d # c
    BY <1>5, <2>2 DEF IInv, Covered
  <2> QED
    BY <2>1, <2>2
<1> QED
  BY <1>3, <1>4, <1>7, <1>8, <1>9, <1>10 DEF IInv

\* One turn of the loop of waitForMeasureJob.
LEMMA PollIInv ==
    ASSUME IInv, NEW c \in Callers, Poll(c)
    PROVE  IInv'
<1> USE DEF issVars
<1>1. /\ pc[c] = "wait" /\ c \notin polled /\ job[c] \in Ids
      /\ UNCHANGED <<got, issVars, hub, daemon, mishap>>
  BY DEF IInv, Calling, Poll
<1>2. Ids' = Ids
  BY <1>1 DEF Ids
<1>3. ASSUME ~mishap, status[job[c]] # "pending" PROVE \A i \in 1..Len(queue) : queue[i] # job[c]
  BY <1>1, <1>3 DEF IInv, PendingIsQueued
<1>4. CASE status[job[c]] = "completed"
  <2>1. pc' = [pc EXCEPT ![c] = "collect"] /\ UNCHANGED <<job, budget, last, inflight, polled>>
    BY <1>4 DEF Poll
  <2>2. TypeOK'
    BY <1>1, <2>1 DEF IInv, TypeOK
  <2>3. Counted'
    BY <1>1, <2>1, StaysInFlight DEF IInv
  <2>4. Others(c) /\ pc'[c] = "collect"
    BY <1>1, <2>1 DEF IInv, TypeOK, Others
  <2>5. Calling' /\ ResultKeepsType'
    BY <1>1, <1>2, <2>1, <2>4 DEF IInv, TypeOK, Calling, Others, ResultKeepsType
  <2>6. mishap \/ last'[c] # "timeout"
    BY <2>1 DEF IInv, NoFalseTimeout
  <2>7. Queued' /\ Healthy' /\ Owned' /\ PendingIsQueued' /\ Covered' /\ NoFalseTimeout'
    BY <1>1, <1>3, <1>4, <2>4, <2>6, OneCall
  <2> QED
    BY <2>2, <2>3, <2>5, <2>7 DEF IInv
<1>5. CASE status[job[c]] \in {"failed", "canceling"}
  <2>1. Return(c, "error")
    BY <1>5 DEF Poll
  <2>2. mishap \/ \A i \in 1..Len(queue) : queue[i] # job[c]
    BY <1>3, <1>5
  <2> QED
    BY <1>1, <2>1, <2>2, GotKept, ReturnIInv
<1>6. CASE status[job[c]] \notin {"completed", "failed", "canceling"}
  <2>1. polled' = polled \cup {c} /\ UNCHANGED <<pc, job, budget, last, inflight>>
    BY <1>6 DEF Poll
  <2>2. TypeOK'
    BY <1>1, <2>1 DEF IInv, TypeOK
  <2>3. Counted'
    BY <2>1, SameInFlight DEF IInv
  <2>4. Calling'
    BY <1>1, <1>2, <2>1 DEF IInv, Calling
  <2>5. Queued' /\ Healthy' /\ Owned' /\ PendingIsQueued' /\ NoFalseTimeout' /\ ResultKeepsType'
    BY <1>1, <1>2, <2>1 DEF IInv, Queued, Healthy, Owned, PendingIsQueued, NoFalseTimeout, ResultKeepsType
  <2>6. ASSUME ~mishap PROVE budget[c] >= 1
    <3>1. PICK i \in 1..Len(queue) : queue[i] = job[c]
      BY <1>1, <1>6, <2>6 DEF IInv, PendingIsQueued
    <3>2. budget[c] >= i * JobTime - ran + 1 /\ budget[c] \in Int
      BY <1>1, <2>6, <3>1 DEF IInv, Covered, TypeOK
    <3>3. i \in Nat /\ i >= 1 /\ JobTime \in Nat /\ ran \in Nat /\ ran <= JobTime
      BY TimeAssumption DEF IInv, TypeOK
    <3>4. i * JobTime >= JobTime /\ i * JobTime \in Nat
      BY <3>3
    <3> QED
      BY <3>2, <3>3, <3>4
  <2>7. Covered'
    BY <1>1, <2>1, <2>6 DEF IInv, Covered
  <2> QED
    BY <2>2, <2>3, <2>4, <2>5, <2>7 DEF IInv
<1> QED
  BY <1>4, <1>5, <1>6

\* A failing status call ends the hub and leaves its calls as they were.
LEMMA StatusCallFailsIInv ==
    ASSUME IInv, NEW c \in Callers, StatusCallFails(c)
    PROVE  IInv'
<1>1. /\ mishap' = TRUE /\ hub' = "statusCall" /\ UNCHANGED <<callVars, issVars, daemon>>
  BY DEF StatusCallFails, Panic
<1>2. TypeOK'
  BY <1>1 DEF IInv, TypeOK, callVars, issVars
<1>3. Counted'
  BY <1>1, SameInFlight DEF IInv, callVars
<1>4. Calling' /\ Queued' /\ ResultKeepsType'
  BY <1>1 DEF IInv, Calling, Queued, ResultKeepsType, Ids, callVars, issVars
<1>5. mishap'
  BY <1>1
<1> QED
  BY <1>2, <1>3, <1>4, <1>5, AfterMishap DEF IInv

\* A result is converted: the call returns with it, or the hub ends and leaves
\* its calls as they were.
LEMMA CollectIInv ==
    ASSUME IInv, NEW c \in Callers, Collect(c)
    PROVE  IInv'
<1>1. PICK t \in ReturnTypes : \E w \in {ServerEncodes(t)} \cup OtherForms, items \in SUBSET OtherForms :
         Convert(c, [type |-> t, form |-> w, kind |-> MeasureJobResult(t, w, items)])
  BY DEF Collect
<1>2. PICK w \in {ServerEncodes(t)} \cup OtherForms, items \in SUBSET OtherForms :
         Convert(c, [type |-> t, form |-> w, kind |-> MeasureJobResult(t, w, items)])
  BY <1>1
<1> DEFINE r == [type |-> t, form |-> w, kind |-> MeasureJobResult(t, w, items)]
<1>3. /\ r \in Results
      /\ r.form = ServerEncodes(r.type) => r.kind = IF r.type = "unspecified" THEN "nil" ELSE r.type
  BY ReturnedResult
<1>4. Convert(c, r) /\ pc[c] = "collect" /\ UNCHANGED <<issVars, daemon>>
  BY <1>2 DEF Collect
<1> HIDE DEF r
<1>5. got' = [got EXCEPT ![c] = r]
  BY <1>4 DEF Convert
<1>6. got' \in [Callers -> Results] /\ ResultKeepsType'
  BY <1>3, <1>5 DEF IInv, TypeOK, ResultKeepsType
<1>7. CASE r.kind = "panic"
  <2>1. /\ hub' = "result" /\ mishap' = TRUE
        /\ UNCHANGED <<pc, job, budget, last, inflight, polled, issVars, daemon>>
    BY <1>4, <1>7 DEF Convert
  <2>2. TypeOK'
    BY <1>6, <2>1 DEF IInv, TypeOK, issVars
  <2>3. Counted'
    BY <2>1, SameInFlight DEF IInv
  <2>4. Calling' /\ Queued'
    BY <2>1 DEF IInv, Calling, Queued, Ids, issVars
  <2>5. mishap'
    BY <2>1
  <2> QED
    BY <1>6, <2>2, <2>3, <2>4, <2>5, AfterMishap DEF IInv
<1>8. CASE r.kind # "panic"
  <2>1. Return(c, "results") /\ UNCHANGED <<issVars, hub, daemon, mishap>>
    BY <1>4, <1>8 DEF Convert
  <2> QED
    BY <1>4, <1>5, <1>6, <2>1, ReturnIInv
<1> QED
  BY <1>7, <1>8

-----------------------------------------------------------------------------
(* The server, time and the faults.                                        *)

\* The queue without its first job.
LEMMA TailFacts ==
    ASSUME TypeOK, queue # << >>
    PROVE  /\ Tail(queue) \in Seq(Nat) /\ Len(queue) \in Nat /\ 1 \in 1..Len(queue)
           /\ Head(queue) = queue[1]
           /\ \A i \in 1..Len(Tail(queue)) : i + 1 \in 1..Len(queue) /\ Tail(queue)[i] = queue[i + 1]
           /\ \A i \in 1..Len(queue) :
                 i # 1 => i - 1 \in 1..Len(Tail(queue)) /\ Tail(queue)[i - 1] = queue[i]
<1>1. queue \in Seq(Nat) /\ Len(queue) \in Nat /\ Len(queue) >= 1
  BY DEF TypeOK
<1>2. Tail(queue) \in Seq(Nat) /\ Len(Tail(queue)) = Len(queue) - 1 /\ Head(queue) = queue[1]
  BY <1>1
<1>3. ASSUME NEW i \in 1..Len(Tail(queue))
      PROVE  i + 1 \in 1..Len(queue) /\ Tail(queue)[i] = queue[i + 1]
  BY <1>1, <1>2
<1>4. ASSUME NEW i \in 1..Len(queue), i # 1
      PROVE  i - 1 \in 1..Len(Tail(queue)) /\ Tail(queue)[i - 1] = queue[i]
  BY <1>1, <1>2, <1>4
<1> QED
  BY <1>1, <1>2, <1>3, <1>4

\* The first job ends: what it did not use is left to the jobs behind it.
LEMMA FinishJobIInv ==
    ASSUME IInv, FinishJob
    PROVE  IInv'
<1> DEFINE q == Tail(queue)
<1> USE DEF callVars
<1>1. /\ queue # << >> /\ queue' = q /\ ran' = 0
      /\ UNCHANGED <<callVars, hung, hub, daemon, mishap>>
  BY DEF FinishJob
<1>2. PICK s \in {"completed", "failed"} : status' = [status EXCEPT ![Head(queue)] = s]
  BY DEF FinishJob
<1>3. /\ q \in Seq(Nat) /\ Len(queue) \in Nat /\ 1 \in 1..Len(queue)
      /\ Head(queue) = queue[1]
      /\ \A i \in 1..Len(q) : i + 1 \in 1..Len(queue) /\ q[i] = queue[i + 1]
      /\ \A i \in 1..Len(queue) : i # 1 => i - 1 \in 1..Len(q) /\ q[i - 1] = queue[i]
  BY <1>1, TailFacts DEF IInv
<1> HIDE DEF q
<1>4. queue[1] \in Ids
  BY <1>3 DEF IInv, Queued
<1>5. /\ status' \in Seq({"pending", "completed", "failed", "canceling"}) /\ Ids' = Ids
      /\ status'[queue[1]] = s
      /\ \A id \in Ids : id # queue[1] => status'[id] = status[id]
  BY <1>2, <1>3, <1>4 DEF IInv, TypeOK, Ids
<1>6. TypeOK'
  BY <1>1, <1>3, <1>5, TimeAssumption DEF IInv, TypeOK
<1>7. Counted'
  BY <1>1, SameInFlight DEF IInv
<1>8. Calling' /\ Healthy' /\ NoFalseTimeout' /\ ResultKeepsType'
  BY <1>1, <1>5 DEF IInv, Calling, Healthy, NoFalseTimeout, ResultKeepsType
<1>9. Queued'
  <2>1. \A i \in 1..Len(q) : q[i] \in Ids
    BY <1>3 DEF IInv, Queued
  <2>2. ASSUME NEW i \in 1..Len(q), NEW j \in 1..Len(q), q[i] = q[j] PROVE i = j
    <3>1. i + 1 = j + 1
      BY <1>3, <2>2 DEF IInv, Queued
    <3> QED
      BY <3>1
  <2> QED
    BY <1>1, <1>5, <2>1, <2>2 DEF Queued
<1>10. Owned'
  <2> SUFFICES ASSUME ~mishap, NEW i \in 1..Len(q)
               PROVE  \E c \in Callers : pc[c] \in {"accepted", "wait"} /\ job[c] = q[i]
    BY <1>1 DEF Owned
  <2>1. i + 1 \in 1..Len(queue) /\ q[i] = queue[i + 1]
    BY <1>3
  <2> QED
    BY <2>1 DEF IInv, Owned
<1>11. PendingIsQueued'
  <2> SUFFICES ASSUME ~mishap, NEW id \in Ids
               PROVE  IF \E i \in 1..Len(q) : q[i] = id
                      THEN status'[id] = "pending" ELSE status'[id] \in {"completed", "failed"}
    BY <1>1, <1>5 DEF PendingIsQueued
  <2>1. CASE id = queue[1]
    <3>1. ASSUME NEW i \in 1..Len(q), q[i] = id PROVE FALSE
      <4>1. i + 1 = 1
        BY <1>3, <2>1, <3>1 DEF IInv, Queued
      <4> QED
        BY <4>1
    <3> QED
      BY <1>5, <2>1, <3>1
  <2>2. CASE id # queue[1]
    <3>1. status'[id] = status[id]
      BY <1>5, <2>2
    <3>2. (\E i \in 1..Len(q) : q[i] = id) <=> (\E i \in 1..Len(queue) : queue[i] = id)
      BY <1>3, <2>2
    <3> QED
      BY <3>1, <3>2 DEF IInv, PendingIsQueued
  <2> QED
    BY <2>1, <2>2
<1>12. Covered'
  <2> SUFFICES ASSUME ~mishap, NEW c \in Callers, pc[c] = "wait"
               PROVE  /\ budget[c] >= IF c \in polled THEN 1 ELSE 0
                      /\ \A i \in 1..Len(q) : q[i] = job[c] => budget[c] >= i * JobTime - 0 + 1
    BY <1>1 DEF Covered
  <2>1. budget[c] >= IF c \in polled THEN 1 ELSE 0
    BY DEF IInv, Covered
  <2>2. ASSUME NEW i \in 1..Len(q), q[i] = job[c] PROVE budget[c] >= i * JobTime - 0 + 1
    <3>1. budget[c] >= (i + 1) * JobTime - ran + 1
      BY <1>3, <2>2 DEF IInv, Covered
    <3>2. /\ i \in Nat /\ JobTime \in Nat /\ ran \in Nat /\ ran <= JobTime /\ budget[c] \in Int
      BY <1>3, TimeAssumption DEF IInv, TypeOK
    <3>3. (i + 1) * JobTime = i * JobTime + JobTime /\ i * JobTime \in Nat
      BY <3>2
    <3> QED
      BY <3>1, <3>2, <3>3
  <2> QED
    BY <2>1, <2>2
<1> QED
  BY <1>6, <1>7, <1>8, <1>9, <1>10, <1>11, <1>12 DEF IInv

\* A tick takes one from every budget and one from the time the first job needs.
LEMMA TickIInv ==
    ASSUME IInv, Tick
    PROVE  IInv'
<1>1. /\ \A c \in Callers : pc[c] = "wait" => c \in polled
      /\ queue # << >> /\ daemon = "up" /\ Head(queue) \notin hung => ran < JobTime
      /\ polled' = {}
      /\ budget' = [c \in Callers |-> IF pc[c] = "wait" THEN budget[c] - 1 ELSE budget[c]]
      /\ ran' = IF queue # << >> /\ ran < JobTime THEN ran + 1 ELSE ran
      /\ UNCHANGED <<pc, job, last, got, inflight, queue, hung, status, hub, daemon, mishap>>
  BY DEF Tick
<1>2. ran \in Nat /\ ran <= JobTime /\ JobTime \in Nat
  BY TimeAssumption DEF IInv, TypeOK
<1>3. budget' \in [Callers -> Int] /\ ran' \in 0..JobTime
  BY <1>1, <1>2 DEF IInv, TypeOK
<1>4. TypeOK'
  BY <1>1, <1>3 DEF IInv, TypeOK
<1>5. Counted'
  BY <1>1, SameInFlight DEF IInv
<1>6. Calling' /\ Queued' /\ ResultKeepsType'
  BY <1>1 DEF IInv, Calling, Queued, Ids, ResultKeepsType
<1>7. Healthy' /\ Owned' /\ PendingIsQueued' /\ NoFalseTimeout'
  BY <1>1 DEF IInv, Healthy, Owned, PendingIsQueued, Ids, NoFalseTimeout
<1>8. Covered'
  <2> SUFFICES ASSUME ~mishap, NEW c \in Callers, pc[c] = "wait"
               PROVE  /\ budget'[c] >= 0
                      /\ \A i \in 1..Len(queue) : queue[i] = job[c] => budget'[c] >= i * JobTime - ran' + 1
    BY <1>1 DEF Covered
  <2>1. c \in polled /\ budget'[c] = budget[c] - 1 /\ budget[c] \in Int
    BY <1>1 DEF IInv, TypeOK
  <2>2. budget[c] >= 1
    BY <2>1 DEF IInv, Covered
  <2>3. ASSUME NEW i \in 1..Len(queue), queue[i] = job[c] PROVE budget'[c] >= i * JobTime - ran' + 1
    <3>1. budget[c] >= i * JobTime - ran + 1
      BY <2>3 DEF IInv, Covered
    <3>2. queue # << >> /\ i \in Nat
      BY DEF IInv, TypeOK
    <3>3. ran' = ran + 1
      BY <1>1, <3>2 DEF IInv, Healthy
    <3>4. i * JobTime \in Nat
      BY <1>2, <3>2
    <3> QED
      BY <1>2, <2>1, <3>1, <3>3, <3>4
  <2> QED
    BY <2>1, <2>2, <2>3
<1> QED
  BY <1>4, <1>5, <1>6, <1>7, <1>8 DEF IInv

\* The faults of the server are mishaps; the hub does not see them at once.
LEMMA FaultIInv ==
    ASSUME IInv, Hang \/ Cancel \/ DaemonDies
    PROVE  IInv'
<1> USE DEF callVars
<1>1. mishap' = TRUE /\ UNCHANGED <<callVars, hub>>
  BY DEF Hang, Cancel, DaemonDies
<1>2. Counted'
  BY <1>1, SameInFlight DEF IInv
<1>3. CASE Hang
  <2>1. queue # << >> /\ hung' = hung \cup {Head(queue)} /\ UNCHANGED <<queue, ran, status, daemon>>
    BY <1>3 DEF Hang
  <2>2. Head(queue) \in Nat
    BY <2>1 DEF IInv, TypeOK
  <2>3. TypeOK'
    BY <1>1, <2>1, <2>2 DEF IInv, TypeOK
  <2>4. Calling' /\ Queued' /\ ResultKeepsType'
    BY <1>1, <2>1 DEF IInv, Calling, Queued, Ids, ResultKeepsType
  <2> QED
    BY <1>1, <1>2, <2>3, <2>4, AfterMishap DEF IInv
<1>4. CASE Cancel
  <2>1. PICK k \in Ids : status' = [status EXCEPT ![k] = "canceling"]
    BY <1>4 DEF Cancel
  <2>2. UNCHANGED <<queue, ran, hung, daemon>>
    BY <1>4 DEF Cancel
  <2>3. status' \in Seq({"pending", "completed", "failed", "canceling"}) /\ Ids' = Ids
    BY <2>1 DEF IInv, TypeOK, Ids
  <2>4. TypeOK'
    BY <1>1, <2>2, <2>3 DEF IInv, TypeOK
  <2>5. Calling' /\ Queued' /\ ResultKeepsType'
    BY <1>1, <2>2, <2>3 DEF IInv, Calling, Queued, ResultKeepsType
  <2> QED
    BY <1>1, <1>2, <2>4, <2>5, AfterMishap DEF IInv
<1>5. CASE DaemonDies
  <2>1. queue' = << >> /\ ran' = 0 /\ daemon' = "down" /\ UNCHANGED <<hung, status>>
    BY <1>5 DEF DaemonDies
  <2>2. TypeOK'
    BY <1>1, <2>1, TimeAssumption DEF IInv, TypeOK
  <2>3. Calling' /\ Queued' /\ ResultKeepsType'
    BY <1>1, <2>1 DEF IInv, Calling, Queued, Ids, ResultKeepsType
  <2> QED
    BY <1>1, <1>2, <2>2, <2>3, AfterMishap DEF IInv
<1> QED
  BY <1>3, <1>4, <1>5

\* A new hub has no calls; the server's jobs are those of the old one.
LEMMA RestartIInv ==
    ASSUME IInv, RestartHub
    PROVE  IInv'
<1>1. /\ hub # "up" /\ hub' = "up"
      /\ pc' = [c \in Callers |-> "idle"] /\ job' = [c \in Callers |-> 0]
      /\ budget' = [c \in Callers |-> 0] /\ last' = [c \in Callers |-> "none"]
      /\ got' = [c \in Callers |-> NoResult]
      /\ inflight' = 0 /\ polled' = {}
      /\ UNCHANGED <<issVars, daemon, mishap>>
  BY DEF RestartHub
<1>2. NoResult \in Results
  BY NoResultTyped
<1>3. TypeOK'
  BY <1>1, <1>2 DEF IInv, TypeOK, issVars
<1>4. InFlight' = {}
  BY <1>1 DEF InFlight
<1>5. Counted'
  BY <1>1, <1>4, FS_EmptySet DEF Counted
<1>6. Calling' /\ Queued' /\ ResultKeepsType'
  BY <1>1, NoResultTyped DEF IInv, Calling, Queued, Ids, ResultKeepsType, issVars
<1>7. mishap'
  BY <1>1 DEF IInv, Healthy, TypeOK
<1> QED
  BY <1>3, <1>5, <1>6, <1>7, AfterMishap DEF IInv

-----------------------------------------------------------------------------
(* The theorems.                                                           *)

\* Nobody calls at first.
LEMMA InitIInv == Init => IInv
<1> SUFFICES ASSUME Init PROVE IInv
  OBVIOUS
<1>1. NoResult \in Results
  BY NoResultTyped
<1>2. TypeOK
  <2>1. mishap \in BOOLEAN
    BY DEF Init
  <2> QED
    BY <1>1, <2>1, TimeAssumption DEF Init, TypeOK
<1>3. InFlight = {}
  BY DEF Init, InFlight
<1>4. Counted
  BY <1>3, FS_EmptySet DEF Init, Counted
<1>5. Calling /\ Queued /\ Healthy /\ Owned
  BY DEF Init, Calling, Queued, Healthy, Owned
<1>6. PendingIsQueued /\ Covered /\ ResultKeepsType /\ NoFalseTimeout
  BY NoResultTyped DEF Init, PendingIsQueued, Ids, Covered, ResultKeepsType, NoFalseTimeout
<1> QED
  BY <1>2, <1>4, <1>5, <1>6 DEF IInv

\* Every step keeps the invariant.
LEMMA NextIInv == IInv /\ [Next]_vars => IInv'
<1> SUFFICES ASSUME IInv, [Next]_vars PROVE IInv'
  OBVIOUS
<1>1. ASSUME NEW c \in Callers, Measure(c) PROVE IInv'
  BY <1>1, MeasureIInv
<1>2. ASSUME NEW c \in Callers, Step(c) PROVE IInv'
  BY <1>2, RequestIInv, EndsIInv, AnswerLostIInv, StartWaitIInv, PollIInv, TimeoutIInv,
     StatusCallFailsIInv, CollectIInv DEF Step
<1>3. CASE FinishJob \/ Tick
  BY <1>3, FinishJobIInv, TickIInv
<1>4. CASE Hang \/ Cancel \/ DaemonDies \/ RestartHub
  BY <1>4, FaultIInv, RestartIInv
<1>5. CASE UNCHANGED vars
  <2>1. UNCHANGED <<callVars, issVars, hub, daemon, mishap>>
    BY <1>5 DEF vars
  <2>2. TypeOK' /\ Counted' /\ Calling' /\ Queued' /\ Healthy'
    BY <2>1 DEF IInv, TypeOK, Counted, InFlight, Calling, Queued, Healthy, Ids, callVars, issVars
  <2>3. Owned' /\ PendingIsQueued' /\ Covered' /\ ResultKeepsType' /\ NoFalseTimeout'
    BY <2>1 DEF IInv, Owned, PendingIsQueued, Covered, ResultKeepsType, NoFalseTimeout, Ids, callVars, issVars
  <2> QED
    BY <2>2, <2>3 DEF IInv
<1> QED
  BY <1>1, <1>2, <1>3, <1>4, <1>5 DEF Next

\* Calls, queue, status and budgets agree in every state of every behaviour.
THEOREM Invariance == Spec => []IInv
  BY InitIInv, NextIInv, PTL DEF Spec

\* Every variable has its type; inflightMeasurements never becomes negative.
THEOREM TypeCorrect == Spec => []TypeOK
<1>1. IInv => TypeOK
  BY DEF IInv
<1> QED
  BY <1>1, Invariance, PTL

\* The deadline of waitForMeasureJob covers the jobs queued in front, for any
\* number of callers and any job time below the base timeout.
THEOREM DeadlineIsEnough == Spec => []NoFalseTimeout
<1>1. IInv => NoFalseTimeout
  BY DEF IInv
<1> QED
  BY <1>1, Invariance, PTL

\* No step of a call kills the hub by a value: LuaType knows the arguments, and
\* fromGrpcVariableValue the results that encode their declared types.
LEMMA NextDies == IInv /\ DiesOnlyOfAnswers /\ [Next]_vars => DiesOnlyOfAnswers'
<1> SUFFICES ASSUME IInv, DiesOnlyOfAnswers, [Next]_vars PROVE DiesOnlyOfAnswers'
  OBVIOUS
<1>1. ASSUME hub' = "up" PROVE DiesOnlyOfAnswers'
  BY <1>1 DEF DiesOnlyOfAnswers
<1>2. ASSUME hub' = hub, got' = got PROVE DiesOnlyOfAnswers'
  BY <1>2 DEF DiesOnlyOfAnswers
<1>3. ASSUME NEW c \in Callers, Measure(c) PROVE DiesOnlyOfAnswers'
  <2>1. hub = "up" /\ \E k \in ArgKinds : BuildMeasureJobRequest(k, ItemKinds) \notin {"request", "error"} \/ hub' = hub
    BY <1>3 DEF Measure
  <2>2. hub' = "up"
    BY <2>1, ArgumentsKnown
  <2> QED
    BY <1>1, <2>2
<1>4. ASSUME NEW c \in Callers, Step(c), ~StatusCallFails(c), ~Collect(c) PROVE DiesOnlyOfAnswers'
  <2>1. hub' = "up"
    BY <1>4 DEF Step, RequestMeasurement, RequestRefused, RequestAnswerLost, StartWait, Poll, Timeout,
                CollectFails
  <2> QED
    BY <1>1, <2>1
<1>5. ASSUME NEW c \in Callers, StatusCallFails(c) PROVE DiesOnlyOfAnswers'
  BY <1>5 DEF StatusCallFails, Panic, DiesOnlyOfAnswers
<1>6. ASSUME NEW c \in Callers, Collect(c) PROVE DiesOnlyOfAnswers'
  <2>1. PICK t \in ReturnTypes : \E w \in {ServerEncodes(t)} \cup OtherForms, items \in SUBSET OtherForms :
           Convert(c, [type |-> t, form |-> w, kind |-> MeasureJobResult(t, w, items)])
    BY <1>6 DEF Collect
  <2>2. PICK w \in {ServerEncodes(t)} \cup OtherForms, items \in SUBSET OtherForms :
           Convert(c, [type |-> t, form |-> w, kind |-> MeasureJobResult(t, w, items)])
    BY <2>1
  <2> DEFINE r == [type |-> t, form |-> w, kind |-> MeasureJobResult(t, w, items)]
  <2>3. r.kind = "panic" => r.form # ServerEncodes(r.type)
    BY ReturnedResult
  <2>4. Convert(c, r) /\ hub = "up"
    BY <1>6, <2>2 DEF Collect
  <2> HIDE DEF r
  <2>5. got' = [got EXCEPT ![c] = r] /\ (hub' = "up" \/ (hub' = "result" /\ r.kind = "panic"))
    BY <2>4 DEF Convert
  <2>6. got'[c] = r
    BY <2>5 DEF IInv, TypeOK
  <2> QED
    BY <2>3, <2>5, <2>6 DEF DiesOnlyOfAnswers
<1>7. CASE FinishJob \/ Tick \/ Hang \/ Cancel \/ DaemonDies
  BY <1>2, <1>7 DEF FinishJob, Tick, Hang, Cancel, DaemonDies, callVars
<1>8. CASE RestartHub
  BY <1>1, <1>8 DEF RestartHub
<1>9. CASE UNCHANGED vars
  BY <1>2, <1>9 DEF vars, callVars
<1> QED
  BY <1>3, <1>4, <1>5, <1>6, <1>7, <1>8, <1>9 DEF Next

\* The hub dies of nothing its callers pass and of no result that is what its
\* script declares, for any kinds and types the callers use.
THEOREM ValuesNeverKill == Spec => []DiesOnlyOfAnswers
<1>1. Init => DiesOnlyOfAnswers
  BY DEF Init, DiesOnlyOfAnswers
<1> QED
  BY <1>1, NextDies, Invariance, PTL DEF Spec

\* measureJobResultToCallResults restores the kind of every type the hub uses.
THEOREM ResultTypeIsKept == Spec => []ResultKeepsType
<1>1. IInv => ResultKeepsType
  BY DEF IInv
<1> QED
  BY <1>1, Invariance, PTL

=============================================================================
