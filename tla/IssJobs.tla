------------------------------- MODULE IssJobs -------------------------------
(***************************************************************************)
(* ScriptServerClient.Measure: a caller submits a script as a job of the   *)
(* instrument script server (ISS), polls the job until a deadline and      *)
(* collects its result.  The ISS runs its jobs one after the other; it is  *)
(* external, as is whoever starts the hub again after it died.             *)
(*                                                                         *)
(* The deadline of a call is the number of calls in flight when its wait   *)
(* begins times the base timeout: it is meant to cover the jobs queued in  *)
(* front.  One Tick is one poll interval; a budget counts the ticks that   *)
(* are left until the deadline.  Modelled with the faults the client can   *)
(* meet: a job that hangs, a request whose answer is lost, a job someone   *)
(* else cancels, a failing status call, a result of another form than its  *)
(* type's, the death of the daemon and a restart of the hub while the      *)
(* daemon lives on.                                                        *)
(***************************************************************************)
EXTENDS Integers, Sequences, FiniteSets, VariableValues

CONSTANTS
    Callers,      \* goroutines that call Measure, one call at a time
    Base,         \* baseMeasurementTimeout, in poll intervals
    JobTime,      \* the longest a job of the ISS runs unless it hangs
    ArgKinds,     \* kinds of the values the hub's callers pass
    ItemKinds,    \* kinds of the items of the maps among them
    ReturnTypes,  \* declared types of the values the hub's callers use
    OtherForms,   \* wire forms a result may have although its type has another
    MaxJobs       \* bound: jobs the ISS accepts

ASSUME CallerAssumption == IsFiniteSet(Callers)
ASSUME TimeAssumption == JobTime \in Nat \ {0} /\ Base \in Nat /\ Base > JobTime
\* The callers pass numbers as int64 and float64 and the rest as values of the
\* named types; of a result they use numbers and buffers (returnSamples, the
\* getter registry, registerBuffers), none of the types that only look like a
\* string on the wire.
ASSUME KindAssumption ==
    /\ ArgKinds \subseteq (Kinds \cap LuaTypes) \cup {"nil", "MixedMap"}
    /\ ItemKinds \subseteq Kinds
    /\ ReturnTypes \subseteq LuaTypes \ {"CallStack", "InstrumentTarget", "InstrumentDomain"}
    /\ OtherForms \subseteq WireForms
ASSUME JobAssumption == MaxJobs \in Nat

VARIABLES
    pc,        \* where each caller is in Measure
    job,       \* the job id of its call, 0 before it has one
    budget,    \* ticks left until its deadline
    last,      \* how its last call ended, "none" during a call
    got,       \* [type, form, kind] of the result it collected
    inflight,  \* inflightMeasurements
    polled,    \* callers that polled since the last tick
    queue,     \* jobs of the ISS, the first one running
    ran,       \* ticks the first one has run
    hung,      \* jobs that will never end
    status,    \* status of every accepted job
    hub,       \* "up", or what it died of: an argument, a status call, a result
    daemon,    \* "up" or "down"
    mishap     \* history: a fault of the environment happened

callVars == <<pc, job, budget, last, got, inflight, polled>>
issVars == <<queue, ran, hung, status>>
vars == <<callVars, issVars, hub, daemon, mishap>>

Ids == 1..Len(status)
NoResult == [type |-> "unspecified", form |-> "absent", kind |-> "nil"]
Results == [type : LuaTypes, form : WireForms, kind : Kinds \cup {"panic"}]

\* Every variable has its type.
TypeOK ==
    /\ pc \in [Callers -> {"idle", "entered", "accepted", "wait", "collect"}]
    /\ job \in [Callers -> Nat]
    /\ budget \in [Callers -> Int]
    /\ last \in [Callers -> {"none", "results", "error", "timeout"}]
    /\ got \in [Callers -> Results]
    /\ inflight \in Nat
    /\ polled \subseteq Callers
    /\ status \in Seq({"pending", "completed", "failed", "canceling"})
    /\ queue \in Seq(Nat) /\ ran \in 0..JobTime /\ hung \in SUBSET Nat
    /\ hub \in {"up", "argument", "statusCall", "result"} /\ daemon \in {"up", "down"} /\ mishap \in BOOLEAN

Init ==
    /\ pc = [c \in Callers |-> "idle"]
    /\ job = [c \in Callers |-> 0]
    /\ budget = [c \in Callers |-> 0]
    /\ last = [c \in Callers |-> "none"]
    /\ got = [c \in Callers |-> NoResult]
    /\ inflight = 0 /\ polled = {}
    /\ queue = << >> /\ ran = 0 /\ hung = {} /\ status = << >>
    /\ hub = "up" /\ daemon = "up" /\ mishap = FALSE

-----------------------------------------------------------------------------
(* The call                                                                *)

\* Mutant: the jobs queued in front are not counted.
OneJobTimeout == Base

\* currentMeasurementTimeout, in ticks.
CurrentMeasurementTimeout == (IF inflight > 1 THEN inflight ELSE 1) * Base

\* Mutant: the counter is decremented twice when a call ends.
ReturnTwice(c, how) ==
    /\ pc' = [pc EXCEPT ![c] = "idle"]
    /\ job' = [job EXCEPT ![c] = 0]
    /\ budget' = [budget EXCEPT ![c] = 0]
    /\ last' = [last EXCEPT ![c] = how]
    /\ inflight' = inflight - 2
    /\ polled' = polled \ {c}

\* The call of c returns: its deferred decrement runs.
Return(c, how) ==
    /\ pc' = [pc EXCEPT ![c] = "idle"]
    /\ job' = [job EXCEPT ![c] = 0]
    /\ budget' = [budget EXCEPT ![c] = 0]
    /\ last' = [last EXCEPT ![c] = how]
    /\ inflight' = inflight - 1
    /\ polled' = polled \ {c}

\* A panic in a goroutine of the hub ends the process.
Panic(cause) == hub' = cause /\ UNCHANGED callVars

\* Measure up to buildMeasureJobRequest: the call is counted, the variables
\* are converted; a variable without wire form ends the call again.
Measure(c) ==
    /\ hub = "up" /\ pc[c] = "idle" /\ Len(status) < MaxJobs
    /\ \E k \in ArgKinds :
         CASE BuildMeasureJobRequest(k, ItemKinds) = "request" ->
                /\ pc' = [pc EXCEPT ![c] = "entered"]
                /\ inflight' = inflight + 1
                /\ last' = [last EXCEPT ![c] = "none"]
                /\ got' = [got EXCEPT ![c] = NoResult]
                /\ UNCHANGED <<job, budget, polled, hub>>
           [] BuildMeasureJobRequest(k, ItemKinds) = "error" ->
                /\ last' = [last EXCEPT ![c] = "error"]
                /\ UNCHANGED <<pc, job, budget, got, inflight, polled, hub>>
           [] OTHER -> Panic("argument")
    /\ UNCHANGED <<issVars, daemon, mishap>>

\* MeasureJob as the server sees it: the job joins the queue (external).
Enqueue == /\ queue' = Append(queue, Len(status) + 1)
           /\ status' = Append(status, "pending")
           /\ UNCHANGED <<ran, hung>>

\* requestMeasurement: the job was accepted.
RequestMeasurement(c) ==
    /\ hub = "up" /\ daemon = "up" /\ pc[c] = "entered" /\ Len(status) < MaxJobs
    /\ Enqueue
    /\ job' = [job EXCEPT ![c] = Len(status) + 1]
    /\ pc' = [pc EXCEPT ![c] = "accepted"]
    /\ UNCHANGED <<budget, last, got, inflight, polled, hub, daemon, mishap>>

\* requestMeasurement: the server refuses the request, or cannot be reached.
RequestRefused(c) ==
    /\ hub = "up" /\ pc[c] = "entered"
    /\ Return(c, "error")
    /\ UNCHANGED <<got, issVars, hub, daemon, mishap>>

\* requestMeasurement: the job is accepted and the answer does not arrive in
\* time; the call ends, the job stays.
RequestAnswerLost(c) ==
    /\ hub = "up" /\ daemon = "up" /\ pc[c] = "entered" /\ Len(status) < MaxJobs
    /\ Enqueue
    /\ Return(c, "error")
    /\ mishap' = TRUE
    /\ UNCHANGED <<got, hub, daemon>>

\* waitForMeasureJob begins: the deadline is computed once.
StartWait(c) ==
    /\ hub = "up" /\ pc[c] = "accepted"
    /\ budget' = [budget EXCEPT ![c] = CurrentMeasurementTimeout]
    /\ pc' = [pc EXCEPT ![c] = "wait"]
    /\ UNCHANGED <<job, last, got, inflight, polled, issVars, hub, daemon, mishap>>

\* Mutant: the deadline is computed again after every poll.
PollRenewsDeadline(c) ==
    /\ hub = "up" /\ daemon = "up" /\ pc[c] = "wait" /\ c \notin polled /\ budget[c] >= 0
    /\ CASE status[job[c]] = "completed" ->
              /\ pc' = [pc EXCEPT ![c] = "collect"]
              /\ UNCHANGED <<job, budget, last, inflight, polled>>
         [] status[job[c]] \in {"failed", "canceling"} -> Return(c, "error")
         [] OTHER -> /\ polled' = polled \cup {c}
                     /\ budget' = [budget EXCEPT ![c] = CurrentMeasurementTimeout]
                     /\ UNCHANGED <<pc, job, last, inflight>>
    /\ UNCHANGED <<got, issVars, hub, daemon, mishap>>

\* One turn of the loop of waitForMeasureJob before the deadline.
Poll(c) ==
    /\ hub = "up" /\ daemon = "up" /\ pc[c] = "wait" /\ c \notin polled /\ budget[c] >= 0
    /\ CASE status[job[c]] = "completed" ->
              /\ pc' = [pc EXCEPT ![c] = "collect"]
              /\ UNCHANGED <<job, budget, last, inflight, polled>>
         [] status[job[c]] \in {"failed", "canceling"} -> Return(c, "error")
         [] OTHER -> /\ polled' = polled \cup {c}
                     /\ UNCHANGED <<pc, job, budget, last, inflight>>
    /\ UNCHANGED <<got, issVars, hub, daemon, mishap>>

\* waitForMeasureJob gives up after the deadline, which is looked at before
\* the status; the job is not canceled.
Timeout(c) ==
    /\ hub = "up" /\ pc[c] = "wait" /\ c \notin polled /\ budget[c] < 0
    /\ Return(c, "timeout")
    /\ UNCHANGED <<got, issVars, hub, daemon, mishap>>

\* checkJobStatus when the call fails: the job of a nil response is read
\* before the error is, in a goroutine that nothing recovers.
StatusCallFails(c) ==
    /\ hub = "up" /\ pc[c] = "wait" /\ budget[c] >= 0
    /\ Panic("statusCall")
    /\ mishap' = TRUE
    /\ UNCHANGED <<issVars, daemon>>

\* The result r of c is converted: it is returned, or a value in it makes the
\* hub panic.
Convert(c, r) ==
    /\ got' = [got EXCEPT ![c] = r]
    /\ IF r.kind = "panic"
       THEN /\ hub' = "result" /\ mishap' = TRUE
            /\ UNCHANGED <<pc, job, budget, last, inflight, polled>>
       ELSE Return(c, "results") /\ UNCHANGED <<hub, mishap>>

\* collectMeasureJobResult and measureJobResultToCallResults: the script sends
\* a value of the type it declares, or one that has another wire form.
Collect(c) ==
    /\ hub = "up" /\ daemon = "up" /\ pc[c] = "collect"
    /\ \E t \in ReturnTypes : \E w \in {ServerEncodes(t)} \cup OtherForms, items \in SUBSET OtherForms :
         Convert(c, [type |-> t, form |-> w, kind |-> MeasureJobResult(t, w, items)])
    /\ UNCHANGED <<issVars, daemon>>

\* collectMeasureJobResult when the call fails.
CollectFails(c) ==
    /\ hub = "up" /\ pc[c] = "collect"
    /\ Return(c, "error")
    /\ UNCHANGED <<got, issVars, hub, daemon, mishap>>

-----------------------------------------------------------------------------
(* The server and the world (external)                                     *)

\* The first job of the queue ends, well or badly.
FinishJob ==
    /\ daemon = "up" /\ queue # << >> /\ Head(queue) \notin hung
    /\ \E s \in {"completed", "failed"} : status' = [status EXCEPT ![Head(queue)] = s]
    /\ queue' = Tail(queue) /\ ran' = 0
    /\ UNCHANGED <<callVars, hung, hub, daemon, mishap>>

\* A poll interval passes: the first job runs on, at most JobTime unless it
\* hangs, and every caller that waits has polled.
Tick ==
    /\ hub = "up"
    /\ \A c \in Callers : pc[c] = "wait" => c \in polled
    /\ queue # << >> /\ daemon = "up" /\ Head(queue) \notin hung => ran < JobTime
    /\ polled' = {}
    /\ budget' = [c \in Callers |-> IF pc[c] = "wait" THEN budget[c] - 1 ELSE budget[c]]
    /\ ran' = IF queue # << >> /\ ran < JobTime THEN ran + 1 ELSE ran
    /\ \E c \in Callers : pc[c] = "wait"
    /\ UNCHANGED <<pc, job, last, got, inflight, queue, hung, status, hub, daemon, mishap>>

\* A job hangs.
Hang ==
    /\ daemon = "up" /\ queue # << >> /\ Head(queue) \notin hung
    /\ hung' = hung \cup {Head(queue)}
    /\ mishap' = TRUE
    /\ UNCHANGED <<callVars, queue, ran, status, hub, daemon>>

\* Someone else asks the server to cancel a job, which goes on for a while.
Cancel ==
    /\ daemon = "up"
    /\ \E i \in Ids : status[i] = "pending" /\ status' = [status EXCEPT ![i] = "canceling"]
    /\ mishap' = TRUE
    /\ UNCHANGED <<callVars, queue, ran, hung, hub, daemon>>

\* The daemon dies with its jobs.
DaemonDies ==
    /\ daemon = "up"
    /\ daemon' = "down" /\ queue' = << >> /\ ran' = 0
    /\ mishap' = TRUE
    /\ UNCHANGED <<callVars, hung, status, hub>>

\* The hub is started again and attaches to the daemon that still runs.
RestartHub ==
    /\ hub # "up" /\ daemon = "up"
    /\ hub' = "up"
    /\ pc' = [c \in Callers |-> "idle"] /\ job' = [c \in Callers |-> 0]
    /\ budget' = [c \in Callers |-> 0] /\ last' = [c \in Callers |-> "none"]
    /\ got' = [c \in Callers |-> NoResult]
    /\ inflight' = 0 /\ polled' = {}
    /\ UNCHANGED <<issVars, daemon, mishap>>

Step(c) ==
    \/ RequestMeasurement(c) \/ RequestRefused(c) \/ RequestAnswerLost(c)
    \/ StartWait(c) \/ Poll(c) \/ Timeout(c) \/ StatusCallFails(c) \/ Collect(c) \/ CollectFails(c)

Next ==
    \/ \E c \in Callers : Measure(c) \/ Step(c)
    \/ FinishJob \/ Tick \/ Hang \/ Cancel \/ DaemonDies \/ RestartHub

\* The goroutines of the hub are scheduled, and time passes.
Fairness == /\ \A c \in Callers : WF_vars(Step(c))
            /\ WF_vars(Tick) /\ WF_vars(FinishJob)

Spec == Init /\ [][Next]_vars /\ Fairness

-----------------------------------------------------------------------------
(* Properties                                                              *)

\* While the environment is well behaved no call times out: the deadline
\* computed from the calls in flight covers the jobs queued in front, in
\* whatever order calls enter, submit, begin to wait and return.
NoFalseTimeout == ~mishap => \A c \in Callers : last[c] # "timeout"

\* The values the hub's callers pass never make it panic in Measure, and of what
\* the server answers only a failing status call does, or a result that is not
\* the encoding of its declared type (checkJobStatus and fromGrpcVariableValue):
\* as long as scripts return what they declare no result does.
DiesOnlyOfAnswers ==
    /\ hub # "argument"
    /\ hub = "result" => \E c \in Callers : got[c].form # ServerEncodes(got[c].type)

\* A value that a job returns as the type it declares has the kind that type
\* names, although a buffer id and a string look the same on the wire.
ResultKeepsType ==
    \A c \in Callers : got[c].form = ServerEncodes(got[c].type) =>
        got[c].kind = IF got[c].type = "unspecified" THEN "nil" ELSE got[c].type

\* Every call returns unless the hub dies, hanging jobs and dead daemons
\* included: the deadline ends what the server does not.
CallsReturn == \A c \in Callers : pc[c] # "idle" ~> (pc[c] = "idle" \/ hub # "up")

=============================================================================
