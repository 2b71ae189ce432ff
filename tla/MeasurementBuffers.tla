------------------------- MODULE MeasurementBuffers -------------------------
(***************************************************************************)
(* Ownership of the shared-memory data buffers a measurement returns.      *)
(*                                                                         *)
(* The instrument script server (ISS) writes samples into shared-memory    *)
(* segments and holds a reference to each.  A measurement returns the ids  *)
(* of its buffers; the hub attaches to every one of them, takes the        *)
(* reference over from the ISS, tracks it under the id of the measurement, *)
(* copies the samples out and drops the reference.                         *)
(*                                                                         *)
(* Modelled code: dispatcher.MeasurementDispatcher (RunAll and below),     *)
(* databuffer.DataBufferManager, measurementRegistry.Run, which releases   *)
(* what a primitive measurement leaves, and the setting getters and        *)
(* setters, which run scripts through the same dispatcher and release      *)
(* nothing.  The buffer library and the ISS are external.                  *)
(***************************************************************************)
EXTENDS Integers, Sequences, FiniteSets

CONSTANTS
    Callers,          \* goroutines that call RunAll: one per NATS subscription
    MeasureCallers,   \* those of them that run primitive measurements
    Buffers,          \* buffer ids
    NoBuffer,         \* "this caller attaches to no buffer"
    MaxMeasurements,  \* bound: measurement ids handed out
    MaxReturned       \* bound: buffer ids in one measurement's results

ASSUME CallersAssumption == IsFiniteSet(Callers) /\ MeasureCallers \subseteq Callers
ASSUME BufferAssumption == NoBuffer \notin Buffers
ASSUME BoundsAssumption == MaxMeasurements \in Nat /\ MaxReturned \in Nat

VARIABLES
    lastID,      \* globalMeasurementID
    pc,          \* where each caller is in its current RunAll
    id,          \* measurement id of the caller's current run, 0 if none
    settingIDs,  \* history: the ids used by setting getters and setters
    todo,        \* returned buffer ids the caller has still to register
    results,     \* buffer ids named in the caller's results
    holding,     \* buffer attached by getBuffer and not yet tracked
    tracked,     \* DataBufferManager.buffers: requestor id, 0 if absent
    hubRefs,     \* references the hub holds in the buffer library
    issHolds,    \* buffers the ISS still holds a reference to
    created,     \* buffer ids the ISS has handed out
    delivered    \* history: the measurements that got a buffer's samples

vars == <<lastID, pc, id, settingIDs, todo, results, holding, tracked,
          hubRefs, issHolds, created, delivered>>

Steps == {"idle", "measure", "register", "metadata", "release", "track",
          "decode", "finish"}

\* Where a caller is between getBuffer and the entry in m.buffers.
Attached == {"metadata", "release", "track"}

\* Every variable has its type.  In particular the hub never drops a buffer
\* reference it does not hold: hubRefs stays a natural number.
TypeOK ==
    /\ lastID \in Nat
    /\ pc \in [Callers -> Steps]
    /\ id \in [Callers -> Nat]
    /\ settingIDs \in SUBSET Nat
    /\ todo \in [Callers -> Seq(Buffers)]
    /\ results \in [Callers -> SUBSET Buffers]
    /\ holding \in [Callers -> Buffers \cup {NoBuffer}]
    /\ tracked \in [Buffers -> Nat]
    /\ hubRefs \in [Buffers -> Nat]
    /\ issHolds \in SUBSET Buffers
    /\ created \in SUBSET Buffers
    /\ delivered \in [Buffers -> SUBSET Nat]

Init ==
    /\ lastID = 0
    /\ pc = [c \in Callers |-> "idle"]
    /\ id = [c \in Callers |-> 0]
    /\ settingIDs = {}
    /\ todo = [c \in Callers |-> <<>>]
    /\ results = [c \in Callers |-> {}]
    /\ holding = [c \in Callers |-> NoBuffer]
    /\ tracked = [b \in Buffers |-> 0]
    /\ hubRefs = [b \in Buffers |-> 0]
    /\ issHolds = {}
    /\ created = {}
    /\ delivered = [b \in Buffers |-> {}]

-----------------------------------------------------------------------------
(* RunAll: every request runs in a goroutine under a fresh measurement id. *)
(* All callers in the hub pass exactly one request.                        *)

\* kind is "primitive" (measurementRegistry.Run) or "setting" (Get and Set).
StartRun(c, kind) ==
    /\ pc[c] = "idle"
    /\ lastID < MaxMeasurements
    /\ kind = "primitive" => c \in MeasureCallers
    /\ lastID' = lastID + 1
    /\ id' = [id EXCEPT ![c] = lastID']
    /\ settingIDs' = IF kind = "setting" THEN settingIDs \cup {lastID'} ELSE settingIDs
    /\ pc' = [pc EXCEPT ![c] = "measure"]
    /\ UNCHANGED <<todo, results, holding, tracked, hubRefs, issHolds, created, delivered>>

\* ScriptPath or Measure returns an error: a result with the id and no returns.
MeasureFails(c) ==
    /\ pc[c] = "measure"
    /\ pc' = [pc EXCEPT ![c] = "finish"]
    /\ UNCHANGED <<lastID, id, settingIDs, todo, results, holding, tracked,
                   hubRefs, issHolds, created, delivered>>

\* Measure returns the buffer ids s.  The ISS holds the buffers it created for
\* the job; a script may also name a buffer twice or one it returned earlier.
MeasureReturns(c, s) ==
    LET named == {s[i] : i \in DOMAIN s} IN
    /\ pc[c] = "measure"
    /\ todo' = [todo EXCEPT ![c] = s]
    /\ results' = [results EXCEPT ![c] = named]
    /\ issHolds' = issHolds \cup (named \ created)
    /\ created' = created \cup named
    /\ pc' = [pc EXCEPT ![c] = "register"]
    /\ UNCHANGED <<lastID, id, settingIDs, holding, tracked, hubRefs, delivered>>

-----------------------------------------------------------------------------
(* RegisterBuffer, for every id in the results, one after the other.       *)

\* A segment exists as long as somebody references it.
Exists(b) == b \in issHolds \/ hubRefs[b] > 0

\* Mutant: the error path forgets releaseBuffer.
DropAttachedLeaks(c, b) ==
    /\ holding' = [holding EXCEPT ![c] = NoBuffer]
    /\ pc' = [pc EXCEPT ![c] = "finish"]
    /\ UNCHANGED hubRefs

\* The caller gives up the reference of getBuffer and returns the error.
DropAttached(c, b) ==
    /\ hubRefs' = [hubRefs EXCEPT ![b] = @ - 1]
    /\ holding' = [holding EXCEPT ![c] = NoBuffer]
    /\ pc' = [pc EXCEPT ![c] = "finish"]

GetBuffer(c) ==
    /\ pc[c] = "register"
    /\ todo[c] # <<>>
    /\ LET b == Head(todo[c]) IN
       \/ /\ Exists(b)
          /\ hubRefs' = [hubRefs EXCEPT ![b] = @ + 1]
          /\ holding' = [holding EXCEPT ![c] = b]
          /\ pc' = [pc EXCEPT ![c] = "metadata"]
       \/ /\ pc' = [pc EXCEPT ![c] = "finish"]      \* not found
          /\ UNCHANGED <<hubRefs, holding>>
    /\ UNCHANGED <<lastID, id, settingIDs, todo, results, tracked, issHolds,
                   created, delivered>>

GetMetadata(c) ==
    /\ pc[c] = "metadata"
    /\ \/ /\ pc' = [pc EXCEPT ![c] = "release"]
          /\ UNCHANGED <<hubRefs, holding>>
       \/ DropAttached(c, holding[c])
    /\ UNCHANGED <<lastID, id, settingIDs, todo, results, tracked, issHolds,
                   created, delivered>>

\* Mutant: the error of the ISS is ignored.
ReleaseAtISSUnchecked(c) ==
    /\ pc[c] = "release"
    /\ issHolds' = issHolds \ {holding[c]}
    /\ pc' = [pc EXCEPT ![c] = "track"]
    /\ UNCHANGED <<lastID, id, settingIDs, todo, results, holding, tracked,
                   hubRefs, created, delivered>>

\* The ISS gives up its reference, and refuses to when it holds none.  When the
\* call fails it may have given it up all the same: the answer can be lost.
ReleaseAtISS(c) ==
    LET b == holding[c] IN
    /\ pc[c] = "release"
    /\ \/ /\ b \in issHolds
          /\ issHolds' = issHolds \ {b}
          /\ pc' = [pc EXCEPT ![c] = "track"]
          /\ UNCHANGED <<hubRefs, holding>>
       \/ /\ issHolds' \in {issHolds, issHolds \ {b}}
          /\ DropAttached(c, b)
    /\ UNCHANGED <<lastID, id, settingIDs, todo, results, tracked, created, delivered>>

Track(c) ==
    /\ pc[c] = "track"
    /\ tracked' = [tracked EXCEPT ![holding[c]] = id[c]]
    /\ holding' = [holding EXCEPT ![c] = NoBuffer]
    /\ todo' = [todo EXCEPT ![c] = Tail(@)]
    /\ pc' = [pc EXCEPT ![c] = "register"]
    /\ UNCHANGED <<lastID, id, settingIDs, results, hubRefs, issHolds, created, delivered>>

\* RunAll returns.  A primitive measurement decodes its buffers; a setting
\* reads the one scalar of its result and returns.
RunAllReturns(c) ==
    /\ pc[c] = "register"
    /\ todo[c] = <<>>
    /\ pc' = [pc EXCEPT ![c] = IF id[c] \in settingIDs THEN "finish" ELSE "decode"]
    /\ UNCHANGED <<lastID, id, settingIDs, todo, results, holding, tracked,
                   hubRefs, issHolds, created, delivered>>

-----------------------------------------------------------------------------
(* Decoding, and the deferred release of whatever it left.                 *)

\* Mutant: the entry of a consumed buffer stays in the map.
ConsumeSamplesKeeps(c, b) ==
    /\ pc[c] = "decode"
    /\ tracked[b] = id[c]
    /\ hubRefs' = [hubRefs EXCEPT ![b] = @ - 1]
    /\ delivered' = [delivered EXCEPT ![b] = @ \cup {id[c]}]
    /\ UNCHANGED <<lastID, pc, id, settingIDs, todo, results, holding, tracked,
                   issHolds, created>>

\* ConsumeSamples runs under the manager's lock.  Its buffer is released even
\* when it has a wrong type or no samples; a buffer that is gone or belongs to
\* another measurement is left alone.  Every error ends the decoding.
ConsumeSamples(c, b) ==
    /\ pc[c] = "decode"
    /\ \/ /\ tracked[b] = id[c]
          /\ tracked' = [tracked EXCEPT ![b] = 0]
          /\ hubRefs' = [hubRefs EXCEPT ![b] = @ - 1]
          /\ \/ /\ delivered' = [delivered EXCEPT ![b] = @ \cup {id[c]}]
                /\ UNCHANGED pc
             \/ /\ pc' = [pc EXCEPT ![c] = "finish"]
                /\ UNCHANGED delivered
       \/ /\ tracked[b] # id[c]
          /\ pc' = [pc EXCEPT ![c] = "finish"]
          /\ UNCHANGED <<tracked, hubRefs, delivered>>
    /\ UNCHANGED <<lastID, id, settingIDs, todo, results, holding, issHolds, created>>

\* All series are decoded, or a unit, a value's type or a sample count is wrong.
DecodeEnds(c) ==
    /\ pc[c] = "decode"
    /\ pc' = [pc EXCEPT ![c] = "finish"]
    /\ UNCHANGED <<lastID, id, settingIDs, todo, results, holding, tracked,
                   hubRefs, issHolds, created, delivered>>

\* Mutant: the requestor of an entry is not compared.
ReleaseRequestorAll(i) ==
    /\ tracked' = [b \in Buffers |-> 0]
    /\ hubRefs' = [b \in Buffers |-> IF tracked[b] # 0 THEN hubRefs[b] - 1 ELSE hubRefs[b]]

\* ReleaseRequestor: every buffer tracked under requestor i, under one lock.
ReleaseRequestor(i) ==
    /\ tracked' = [b \in Buffers |-> IF tracked[b] = i THEN 0 ELSE tracked[b]]
    /\ hubRefs' = [b \in Buffers |-> IF tracked[b] = i THEN hubRefs[b] - 1 ELSE hubRefs[b]]

\* Mutant: the cleanup is skipped.
FinishWithoutCleanup(c) ==
    /\ pc[c] = "finish"
    /\ pc' = [pc EXCEPT ![c] = "idle"]
    /\ id' = [id EXCEPT ![c] = 0]
    /\ todo' = [todo EXCEPT ![c] = <<>>]
    /\ results' = [results EXCEPT ![c] = {}]
    /\ UNCHANGED <<lastID, settingIDs, holding, tracked, hubRefs, issHolds, created, delivered>>

\* The caller returns.  Only a primitive measurement has deferred
\* ReleaseMeasurementBuffers; the setting getters and setters have not.
Finish(c) ==
    /\ pc[c] = "finish"
    /\ IF id[c] \in settingIDs
       THEN UNCHANGED <<tracked, hubRefs>>
       ELSE ReleaseRequestor(id[c])
    /\ pc' = [pc EXCEPT ![c] = "idle"]
    /\ id' = [id EXCEPT ![c] = 0]
    /\ todo' = [todo EXCEPT ![c] = <<>>]
    /\ results' = [results EXCEPT ![c] = {}]
    /\ UNCHANGED <<lastID, settingIDs, holding, issHolds, created, delivered>>

-----------------------------------------------------------------------------
Returned == UNION {[1..n -> Buffers] : n \in 0..MaxReturned}

CallerStep(c) ==
    \/ \E kind \in {"primitive", "setting"} : StartRun(c, kind)
    \/ MeasureFails(c)
    \/ \E s \in Returned : MeasureReturns(c, s)
    \/ GetBuffer(c)
    \/ GetMetadata(c)
    \/ ReleaseAtISS(c)
    \/ Track(c)
    \/ RunAllReturns(c)
    \/ \E b \in results[c] : ConsumeSamples(c, b)
    \/ DecodeEnds(c)
    \/ Finish(c)

Next == \E c \in Callers : CallerStep(c)

Spec == Init /\ [][Next]_vars

-----------------------------------------------------------------------------
(* Properties.                                                             *)

\* The hub holds exactly one library reference for every entry of m.buffers
\* and one for every registration under way: no path of RegisterBuffer,
\* ConsumeSamples or ReleaseRequestor leaks a reference or drops one twice,
\* whatever call fails in between.
RefsAccounted ==
    \A b \in Buffers :
        hubRefs[b] = Cardinality({c \in Callers : holding[c] = b})
                     + (IF tracked[b] = 0 THEN 0 ELSE 1)

\* A buffer has one claimant: once the ISS has given a buffer up to one
\* registration, no other gets through RegisterBuffer, so the assignment to
\* m.buffers[bufferID], which tests nothing, never replaces an entry.
ExclusiveClaim ==
    \A b \in Buffers :
        LET claims == {c \in Callers : pc[c] = "track" /\ holding[c] = b} IN
        /\ claims # {} \/ tracked[b] # 0 => b \notin issHolds
        /\ tracked[b] # 0 => claims = {}
        /\ \A c, d \in claims : c = d

\* When measurementRegistry.Run has returned, on whatever path, nothing of its
\* measurement is tracked any more.  What stays behind belongs to a run under
\* way or was returned by the script of a setting getter or setter.
NothingLeftBehind ==
    \A b \in Buffers :
        \/ tracked[b] \in {0} \cup settingIDs
        \/ \E c \in MeasureCallers : tracked[b] = id[c]

\* The samples of a buffer are handed to one measurement, at most.
DeliveredOnce ==
    \A b \in Buffers : \A i, j \in delivered[b] : i = j

\* An entry of m.buffers is removed only by the run that owns it, while it
\* decodes or returns, and is never handed over to another requestor.
OnlyOwnerReleases ==
    [][\A b \in Buffers :
          tracked[b] # 0 /\ tracked'[b] # tracked[b] =>
              /\ tracked'[b] = 0
              /\ \E c \in Callers : id[c] = tracked[b] /\ pc[c] \in {"decode", "finish"}]_vars

=============================================================================
