---------------------- MODULE MeasurementBuffersProofs ----------------------
(***************************************************************************)
(* The ownership properties of MeasurementBuffers, for any number of       *)
(* callers, buffers and measurements.                                      *)
(***************************************************************************)
EXTENDS MeasurementBuffers, FiniteSetTheorems, TLAPS

\* The callers between getBuffer and the entry in m.buffers for buffer b.
Holders(h, b) == {c \in Callers : h[c] = b}

-----------------------------------------------------------------------------
(* The inductive invariant, in parts.                                      *)

\* Types; that hubRefs is never negative follows from RefsAccounted.
Typed ==
    /\ lastID \in Nat
    /\ pc \in [Callers -> Steps]
    /\ id \in [Callers -> Nat]
    /\ settingIDs \in SUBSET Nat
    /\ todo \in [Callers -> Seq(Buffers)]
    /\ results \in [Callers -> SUBSET Buffers]
    /\ holding \in [Callers -> Buffers \cup {NoBuffer}]
    /\ tracked \in [Buffers -> Nat]
    /\ hubRefs \in [Buffers -> Int]
    /\ issHolds \in SUBSET Buffers
    /\ created \in SUBSET Buffers
    /\ delivered \in [Buffers -> SUBSET Nat]

\* A caller has a measurement id exactly while a run is under way; a run that
\* is not a setting's belongs to a caller that releases its buffers.
Identified ==
    \A c \in Callers :
        /\ pc[c] = "idle" <=> id[c] = 0
        /\ id[c] \in {0} \cup settingIDs \/ c \in MeasureCallers

\* A caller holds an untracked reference exactly while it registers a buffer.
Attaching ==
    \A c \in Callers :
        /\ holding[c] # NoBuffer <=> pc[c] \in Attached
        /\ pc[c] \in Attached => todo[c] # <<>>

\* Whatever the hub or the ISS refers to has been created.
Known ==
    /\ issHolds \subseteq created
    /\ \A c \in Callers : \A i \in 1..Len(todo[c]) : todo[c][i] \in created
    /\ \A c \in Callers : holding[c] # NoBuffer => holding[c] \in created
    /\ \A b \in Buffers : tracked[b] # 0 => b \in created

\* ExclusiveClaim, caller by caller.
Claimed ==
    \A b \in Buffers :
        /\ tracked[b] # 0 => b \notin issHolds
        /\ \A c \in Callers : pc[c] = "track" /\ holding[c] = b =>
              /\ b \notin issHolds
              /\ tracked[b] = 0
              /\ \A d \in Callers : pc[d] = "track" /\ holding[d] = b => c = d

\* A buffer whose samples were delivered is gone for good.
Spent ==
    \A b \in Buffers :
        delivered[b] # {} =>
            /\ b \in created
            /\ b \notin issHolds
            /\ tracked[b] = 0
            /\ \A c \in Callers : ~(pc[c] = "track" /\ holding[c] = b)

IInv ==
    /\ Typed
    /\ Identified
    /\ Attaching
    /\ Known
    /\ RefsAccounted
    /\ Claimed
    /\ Spent
    /\ DeliveredOnce
    /\ NothingLeftBehind

-----------------------------------------------------------------------------
(* Counting holders.                                                       *)

\* The holders of a buffer are finitely many.
LEMMA HoldersFinite ==
    ASSUME NEW h, NEW b
    PROVE  IsFiniteSet(Holders(h, b)) /\ Cardinality(Holders(h, b)) \in Nat
<1>1. Holders(h, b) \subseteq Callers
  BY DEF Holders
<1>2. IsFiniteSet(Holders(h, b))
  BY <1>1, FS_Subset, CallersAssumption
<1> QED
  BY <1>2, FS_CardinalityType

\* getBuffer adds one holder to its buffer and none to any other.
LEMMA HoldersAttach ==
    ASSUME NEW h \in [Callers -> Buffers \cup {NoBuffer}], NEW c \in Callers,
           NEW b \in Buffers, h[c] = NoBuffer, NEW x \in Buffers
    PROVE  Cardinality(Holders([h EXCEPT ![c] = b], x))
             = Cardinality(Holders(h, x)) + (IF x = b THEN 1 ELSE 0)
<1> DEFINE g == [h EXCEPT ![c] = b]
<1>1. CASE x = b
  <2>1. c \notin Holders(h, x)
    BY BufferAssumption DEF Holders
  <2>2. Holders(g, x) = Holders(h, x) \cup {c}
    BY <1>1 DEF Holders
  <2> QED
    BY <1>1, <2>1, <2>2, HoldersFinite, FS_AddElement
<1>2. CASE x # b
  <2>1. Holders(g, x) = Holders(h, x)
    BY <1>2, BufferAssumption DEF Holders
  <2> QED
    BY <1>2, <2>1, HoldersFinite
<1> QED
  BY <1>1, <1>2

\* Giving an attached buffer up, or tracking it, removes one holder.
LEMMA HoldersDetach ==
    ASSUME NEW h \in [Callers -> Buffers \cup {NoBuffer}], NEW c \in Callers,
           NEW b \in Buffers, h[c] = b, NEW x \in Buffers
    PROVE  Cardinality(Holders([h EXCEPT ![c] = NoBuffer], x))
             = Cardinality(Holders(h, x)) - (IF x = b THEN 1 ELSE 0)
<1> DEFINE g == [h EXCEPT ![c] = NoBuffer]
<1>1. CASE x = b
  <2>1. c \in Holders(h, x)
    BY <1>1 DEF Holders
  <2>2. Holders(g, x) = Holders(h, x) \ {c}
    BY <1>1, BufferAssumption DEF Holders
  <2> QED
    BY <1>1, <2>1, <2>2, HoldersFinite, FS_RemoveElement
<1>2. CASE x # b
  <2>1. Holders(g, x) = Holders(h, x)
    BY <1>2, BufferAssumption DEF Holders
  <2> QED
    BY <1>2, <2>1, HoldersFinite
<1> QED
  BY <1>1, <1>2

\* While references, holders and entries stay as they are, so does the account.
LEMMA RefsKept ==
    RefsAccounted /\ UNCHANGED <<holding, tracked, hubRefs>> => RefsAccounted'
  BY DEF RefsAccounted

\* An error return of RegisterBuffer drops exactly the caller's reference.
LEMMA DropAttachedCounts ==
    ASSUME IInv, NEW c \in Callers, pc[c] \in Attached,
           DropAttached(c, holding[c]), UNCHANGED tracked
    PROVE  RefsAccounted'
<1>1. holding[c] \in Buffers
  BY DEF IInv, Typed, Attaching
<1> SUFFICES ASSUME NEW b \in Buffers
             PROVE  hubRefs'[b] = Cardinality(Holders(holding', b))
                                  + (IF tracked'[b] = 0 THEN 0 ELSE 1)
  BY DEF RefsAccounted, Holders
<1>2. Cardinality(Holders(holding', b))
        = Cardinality(Holders(holding, b)) - (IF b = holding[c] THEN 1 ELSE 0)
  BY <1>1, HoldersDetach DEF DropAttached, IInv, Typed
<1>3. hubRefs[b] = Cardinality(Holders(holding, b)) + (IF tracked[b] = 0 THEN 0 ELSE 1)
  BY DEF IInv, RefsAccounted, Holders
<1>4. hubRefs'[b] = hubRefs[b] - (IF b = holding[c] THEN 1 ELSE 0)
  BY <1>1 DEF DropAttached, IInv, Typed
<1> QED
  BY <1>2, <1>3, <1>4, HoldersFinite

-----------------------------------------------------------------------------
(* The invariant holds initially and every step keeps it.                  *)

\* The start of the hub.
LEMMA InitIInv == Init => IInv
<1> SUFFICES ASSUME Init PROVE IInv
  OBVIOUS
<1>1. Typed /\ Identified /\ Attaching /\ Known
  BY DEF Init, Typed, Identified, Attaching, Known, Attached, Steps
<1>2. RefsAccounted
  <2> SUFFICES ASSUME NEW b \in Buffers
               PROVE  hubRefs[b] = Cardinality(Holders(holding, b))
                                   + (IF tracked[b] = 0 THEN 0 ELSE 1)
    BY DEF RefsAccounted, Holders
  <2>1. Holders(holding, b) = {}
    BY BufferAssumption DEF Init, Holders
  <2>2. hubRefs[b] = 0 /\ tracked[b] = 0
    BY DEF Init
  <2> QED
    BY <2>1, <2>2, FS_EmptySet
<1>3. Claimed /\ Spent /\ DeliveredOnce /\ NothingLeftBehind
  BY DEF Init, Claimed, Spent, DeliveredOnce, NothingLeftBehind
<1> QED
  BY <1>1, <1>2, <1>3 DEF IInv

\* RunAll begins a run under a fresh id.
LEMMA StartRunIInv ==
    ASSUME IInv, NEW c \in Callers, NEW kind \in {"primitive", "setting"}, StartRun(c, kind)
    PROVE  IInv'
<1> USE DEF IInv, StartRun
<1>1. Typed'
  BY DEF Typed, Steps
<1>2. Identified'
  BY DEF Identified, Typed
<1>3. Attaching' /\ Known' /\ Spent' /\ DeliveredOnce'
  BY DEF Attaching, Attached, Known, Spent, DeliveredOnce, Typed
<1>4. RefsAccounted'
  BY RefsKept
<1>5. Claimed'
  BY DEF Claimed, Typed
<1>6. NothingLeftBehind'
  BY CallersAssumption DEF NothingLeftBehind, Identified, Typed
<1> QED
  BY <1>1, <1>2, <1>3, <1>4, <1>5, <1>6

\* The steps that only move a caller on.
LEMMA MoveIInv ==
    ASSUME IInv, NEW c \in Callers, NEW s \in {"release", "decode", "finish"},
           pc[c] \in {"measure", "register", "metadata", "decode"},
           (s = "release") <=> (pc[c] = "metadata"),
           pc' = [pc EXCEPT ![c] = s],
           UNCHANGED <<lastID, id, settingIDs, todo, results, holding, tracked,
                       hubRefs, issHolds, created, delivered>>
    PROVE  IInv'
<1> USE DEF IInv
<1>1. Typed' /\ Identified' /\ Attaching' /\ Known'
  BY DEF Typed, Identified, Attaching, Attached, Known, Steps
<1>2. RefsAccounted'
  BY RefsKept
<1>3. Claimed'
  BY DEF Claimed, Typed
<1>4. Spent' /\ DeliveredOnce' /\ NothingLeftBehind'
  BY DEF Spent, DeliveredOnce, NothingLeftBehind, Typed
<1> QED
  BY <1>1, <1>2, <1>3, <1>4

\* A measurement returns buffer ids, some of them of new buffers.
LEMMA MeasureReturnsIInv ==
    ASSUME IInv, NEW c \in Callers, NEW s \in Returned, MeasureReturns(c, s)
    PROVE  IInv'
<1> USE DEF IInv, MeasureReturns
<1> DEFINE named == {s[i] : i \in DOMAIN s}
<1>1. s \in Seq(Buffers) /\ DOMAIN s = 1..Len(s) /\ named \subseteq Buffers
  BY BoundsAssumption DEF Returned
<1>2. Typed'
  BY <1>1 DEF Typed, Steps
<1>3. Identified' /\ Attaching'
  BY DEF Identified, Attaching, Attached, Typed
<1>4. Known'
  BY <1>1 DEF Known, Typed
<1>5. RefsAccounted'
  BY RefsKept
<1>6. Claimed'
  BY BufferAssumption DEF Claimed, Known, Typed
<1>7. Spent' /\ DeliveredOnce' /\ NothingLeftBehind'
  BY DEF Spent, DeliveredOnce, NothingLeftBehind, Typed
<1> QED
  BY <1>2, <1>3, <1>4, <1>5, <1>6, <1>7

\* An error return of RegisterBuffer; the ISS may have given the buffer up.
LEMMA DropAttachedIInv ==
    ASSUME IInv, NEW c \in Callers, pc[c] \in {"metadata", "release"},
           DropAttached(c, holding[c]),
           issHolds' \subseteq issHolds,
           UNCHANGED <<lastID, id, settingIDs, todo, results, tracked, created, delivered>>
    PROVE  IInv'
<1>1. holding[c] \in Buffers
  BY DEF IInv, Typed, Attaching, Attached
<1>2. Typed'
  BY <1>1 DEF IInv, DropAttached, Typed, Steps
<1>3. Identified' /\ Attaching' /\ Known'
  BY DEF IInv, DropAttached, Identified, Attaching, Attached, Known, Typed
<1>4. RefsAccounted'
  BY DropAttachedCounts DEF Attached
<1>5. Claimed'
  BY BufferAssumption DEF IInv, DropAttached, Claimed, Typed
<1>6. Spent' /\ DeliveredOnce' /\ NothingLeftBehind'
  BY BufferAssumption
     DEF IInv, DropAttached, Spent, DeliveredOnce, NothingLeftBehind, Typed
<1> QED
  BY <1>2, <1>3, <1>4, <1>5, <1>6 DEF IInv

\* getBuffer attaches the caller to an existing buffer, or fails.
LEMMA GetBufferIInv ==
    ASSUME IInv, NEW c \in Callers, GetBuffer(c)
    PROVE  IInv'
<1> DEFINE b == Head(todo[c])
<1>1. b \in created /\ b \in Buffers
  BY DEF IInv, Typed, Known, GetBuffer
<1>2. CASE /\ hubRefs' = [hubRefs EXCEPT ![b] = @ + 1]
           /\ holding' = [holding EXCEPT ![c] = b]
           /\ pc' = [pc EXCEPT ![c] = "metadata"]
  <2> USE DEF IInv, GetBuffer
  <2>1. Typed'
    BY <1>1, <1>2 DEF Typed, Steps
  <2>2. Identified' /\ Attaching' /\ Known'
    BY <1>1, <1>2, BufferAssumption DEF Identified, Attaching, Attached, Known, Typed
  <2>3. RefsAccounted'
    <3> SUFFICES ASSUME NEW x \in Buffers
                 PROVE  hubRefs'[x] = Cardinality(Holders(holding', x))
                                      + (IF tracked'[x] = 0 THEN 0 ELSE 1)
      BY DEF RefsAccounted, Holders
    <3>1. holding[c] = NoBuffer
      BY DEF Attaching, Attached, Typed
    <3>2. Cardinality(Holders(holding', x))
            = Cardinality(Holders(holding, x)) + (IF x = b THEN 1 ELSE 0)
      BY <1>1, <1>2, <3>1, HoldersAttach DEF Typed
    <3>3. hubRefs[x] = Cardinality(Holders(holding, x)) + (IF tracked[x] = 0 THEN 0 ELSE 1)
      BY DEF RefsAccounted, Holders
    <3>4. hubRefs'[x] = hubRefs[x] + (IF x = b THEN 1 ELSE 0) /\ tracked' = tracked
      BY <1>1, <1>2 DEF Typed
    <3> QED
      BY <3>2, <3>3, <3>4, HoldersFinite
  <2>4. Claimed'
    BY <1>1, <1>2 DEF Claimed, Typed
  <2>5. Spent' /\ DeliveredOnce' /\ NothingLeftBehind'
    BY <1>1, <1>2 DEF Spent, DeliveredOnce, NothingLeftBehind, Typed
  <2> QED
    BY <2>1, <2>2, <2>3, <2>4, <2>5
<1>3. CASE pc' = [pc EXCEPT ![c] = "finish"] /\ UNCHANGED <<hubRefs, holding>>
  BY <1>3, MoveIInv DEF GetBuffer
<1> QED
  BY <1>2, <1>3 DEF GetBuffer

\* The ISS gives up its reference to the one registration that asks first.
LEMMA ReleaseAtISSIInv ==
    ASSUME IInv, NEW c \in Callers, ReleaseAtISS(c)
    PROVE  IInv'
<1> DEFINE b == holding[c]
<1>1. CASE /\ b \in issHolds
           /\ issHolds' = issHolds \ {b}
           /\ pc' = [pc EXCEPT ![c] = "track"]
           /\ UNCHANGED <<hubRefs, holding>>
  <2> USE <1>1 DEF IInv, ReleaseAtISS
  <2>1. Typed' /\ Identified' /\ Attaching' /\ Known'
    BY DEF Typed, Steps, Identified, Attaching, Attached, Known
  <2>2. RefsAccounted'
    BY RefsKept
  <2>3. Claimed'
    BY DEF Claimed, Typed
  <2>4. Spent' /\ DeliveredOnce' /\ NothingLeftBehind'
    BY DEF Spent, DeliveredOnce, NothingLeftBehind, Typed
  <2> QED
    BY <2>1, <2>2, <2>3, <2>4
<1>2. CASE issHolds' \in {issHolds, issHolds \ {b}} /\ DropAttached(c, b)
  BY <1>2, DropAttachedIInv DEF ReleaseAtISS
<1> QED
  BY <1>1, <1>2 DEF ReleaseAtISS

\* The entry in m.buffers takes over the caller's reference; there is none yet.
LEMMA TrackIInv ==
    ASSUME IInv, NEW c \in Callers, Track(c)
    PROVE  IInv'
<1> DEFINE b == holding[c]
<1>1. b \in Buffers /\ b \in created /\ b \notin issHolds /\ tracked[b] = 0
  BY DEF IInv, Track, Typed, Attaching, Attached, Known, Claimed
<1>2. id[c] # 0 /\ todo[c] # <<>>
  BY DEF IInv, Track, Identified, Attaching, Attached
<1> USE DEF IInv, Track
<1>3. Typed'
  BY <1>1, <1>2 DEF Typed, Steps
<1>4. Identified' /\ Attaching'
  BY DEF Identified, Attaching, Attached, Typed
<1>5. Known'
  <2>1. ASSUME NEW d \in Callers, NEW i \in 1..Len(todo'[d])
        PROVE  todo'[d][i] \in created
    <3>1. todo \in [Callers -> Seq(Buffers)]
      BY DEF Typed
    <3>2. CASE d = c
      BY <1>2, <2>1, <3>1, <3>2 DEF Known
    <3>3. CASE d # c
      BY <2>1, <3>1, <3>3 DEF Known
    <3> QED
      BY <3>2, <3>3
  <2> QED
    BY <1>1, <2>1 DEF Known, Typed
<1>6. RefsAccounted'
  <2> SUFFICES ASSUME NEW x \in Buffers
               PROVE  hubRefs'[x] = Cardinality(Holders(holding', x))
                                    + (IF tracked'[x] = 0 THEN 0 ELSE 1)
    BY DEF RefsAccounted, Holders
  <2>1. Cardinality(Holders(holding', x))
          = Cardinality(Holders(holding, x)) - (IF x = b THEN 1 ELSE 0)
    BY <1>1, HoldersDetach DEF Typed
  <2>2. hubRefs[x] = Cardinality(Holders(holding, x)) + (IF tracked[x] = 0 THEN 0 ELSE 1)
    BY DEF RefsAccounted, Holders
  <2>3. hubRefs' = hubRefs /\ tracked'[x] = IF x = b THEN id[c] ELSE tracked[x]
    BY <1>1 DEF Typed
  <2> QED
    BY <1>1, <1>2, <2>1, <2>2, <2>3, HoldersFinite
<1>7. Claimed'
  BY <1>1, BufferAssumption DEF Claimed, Typed
<1>8. Spent' /\ DeliveredOnce'
  BY <1>1 DEF Spent, DeliveredOnce, Typed
<1>9. NothingLeftBehind'
  BY <1>1, CallersAssumption DEF NothingLeftBehind, Identified, Typed
<1> QED
  BY <1>3, <1>4, <1>5, <1>6, <1>7, <1>8, <1>9

\* Removing the entries of a set D of buffers together with their references.
LEMMA UntrackIInv ==
    ASSUME IInv, NEW D \in SUBSET Buffers, \A b \in D : tracked[b] # 0,
           tracked' = [b \in Buffers |-> IF b \in D THEN 0 ELSE tracked[b]],
           hubRefs' = [b \in Buffers |-> IF b \in D THEN hubRefs[b] - 1 ELSE hubRefs[b]],
           UNCHANGED holding
    PROVE  RefsAccounted'
<1> SUFFICES ASSUME NEW x \in Buffers
             PROVE  hubRefs'[x] = Cardinality(Holders(holding', x))
                                  + (IF tracked'[x] = 0 THEN 0 ELSE 1)
  BY DEF RefsAccounted, Holders
<1>1. hubRefs[x] = Cardinality(Holders(holding, x)) + (IF tracked[x] = 0 THEN 0 ELSE 1)
  BY DEF IInv, RefsAccounted, Holders
<1>2. /\ hubRefs'[x] = IF x \in D THEN hubRefs[x] - 1 ELSE hubRefs[x]
      /\ tracked'[x] = IF x \in D THEN 0 ELSE tracked[x]
      /\ x \in D => tracked[x] # 0
  OBVIOUS
<1>3. holding' = holding
  OBVIOUS
<1> QED
  BY <1>1, <1>2, <1>3, HoldersFinite

\* ConsumeSamples removes the entry it owns, with or without delivering.
LEMMA ConsumeSamplesIInv ==
    ASSUME IInv, NEW c \in Callers, NEW b \in results[c], ConsumeSamples(c, b)
    PROVE  IInv'
<1>1. b \in Buffers
  BY DEF IInv, Typed
<1>2. CASE tracked[b] # id[c]
  BY <1>2, MoveIInv DEF ConsumeSamples
<1>3. CASE tracked[b] = id[c]
  <2>1. id[c] # 0
    BY DEF IInv, ConsumeSamples, Identified
  <2>2. /\ tracked' = [tracked EXCEPT ![b] = 0]
        /\ hubRefs' = [hubRefs EXCEPT ![b] = @ - 1]
        /\ pc' \in {pc, [pc EXCEPT ![c] = "finish"]}
        /\ delivered' \in {delivered, [delivered EXCEPT ![b] = @ \cup {id[c]}]}
        /\ UNCHANGED <<lastID, id, settingIDs, todo, results, holding, issHolds, created>>
        /\ pc[c] = "decode"
    BY <1>3 DEF ConsumeSamples
  <2> USE <1>1, <1>3, <2>1, <2>2 DEF IInv
  <2>3. Typed'
    <3>1. delivered' \in [Buffers -> SUBSET Nat]
      <4>1. delivered \in [Buffers -> SUBSET Nat] /\ id[c] \in Nat
        BY DEF Typed
      <4>2. delivered[b] \cup {id[c]} \in SUBSET Nat
        BY <4>1
      <4>3. [delivered EXCEPT ![b] = @ \cup {id[c]}] \in [Buffers -> SUBSET Nat]
        BY <4>1, <4>2
      <4> QED
        BY <2>2, <4>1, <4>3
    <3>2. pc' \in [Callers -> Steps]
      BY DEF Typed, Steps
    <3>3. hubRefs' \in [Buffers -> Int] /\ tracked' \in [Buffers -> Nat]
      BY DEF Typed
    <3> QED
      BY <3>1, <3>2, <3>3 DEF Typed
  <2>4. Identified' /\ Attaching' /\ Known'
    BY DEF Identified, Attaching, Attached, Known, Typed
  <2>5. RefsAccounted'
    <3>1. /\ tracked' = [x \in Buffers |-> IF x \in {b} THEN 0 ELSE tracked[x]]
          /\ hubRefs' = [x \in Buffers |-> IF x \in {b} THEN hubRefs[x] - 1 ELSE hubRefs[x]]
      BY DEF Typed
    <3> QED
      BY <3>1, UntrackIInv
  <2>6. Claimed'
    BY DEF Claimed, Typed
  <2>7. delivered[b] = {}
    BY DEF Spent
  <2>8. Spent'
    BY <2>7 DEF Spent, Claimed, Known, Typed
  <2>9. DeliveredOnce'
    <3>1. \A x \in Buffers : \/ delivered'[x] = delivered[x]
                            \/ delivered'[x] = {id[c]}
      BY <2>7 DEF Typed
    <3> QED
      BY <3>1 DEF DeliveredOnce
  <2>10. NothingLeftBehind'
    BY DEF NothingLeftBehind, Typed
  <2> QED
    BY <2>3, <2>4, <2>5, <2>6, <2>8, <2>9, <2>10
<1> QED
  BY <1>2, <1>3

\* The return of a run: a primitive measurement releases what it still owns.
LEMMA FinishIInv ==
    ASSUME IInv, NEW c \in Callers, Finish(c)
    PROVE  IInv'
<1> DEFINE D == IF id[c] \in settingIDs THEN {} ELSE {b \in Buffers : tracked[b] = id[c]}
<1>1. id[c] # 0
  BY DEF IInv, Finish, Identified
<1>2. /\ tracked' = [b \in Buffers |-> IF b \in D THEN 0 ELSE tracked[b]]
      /\ hubRefs' = [b \in Buffers |-> IF b \in D THEN hubRefs[b] - 1 ELSE hubRefs[b]]
  <2>1. CASE id[c] \in settingIDs
    BY <2>1 DEF IInv, Typed, Finish
  <2>2. CASE id[c] \notin settingIDs
    BY <2>2 DEF Finish, ReleaseRequestor
  <2> QED
    BY <2>1, <2>2
<1>3. D \in SUBSET Buffers /\ \A b \in D : tracked[b] # 0
  BY <1>1
<1>4. RefsAccounted'
  BY <1>2, <1>3, UntrackIInv DEF Finish
<1>5. \A b \in Buffers : tracked'[b] \in {0, tracked[b]}
  BY <1>2
<1> USE DEF IInv, Finish
<1>6. Typed'
  BY <1>2 DEF Typed, Steps
<1>7. Identified' /\ Attaching'
  BY DEF Identified, Attaching, Attached, Typed
<1>8. Known'
  BY <1>5 DEF Known, Typed
<1>9. Claimed' /\ Spent' /\ DeliveredOnce'
  BY <1>5 DEF Claimed, Spent, DeliveredOnce, Typed
<1>10. NothingLeftBehind'
  <2> SUFFICES ASSUME NEW b \in Buffers, tracked'[b] \notin {0} \cup settingIDs
               PROVE  \E d \in MeasureCallers : tracked'[b] = id'[d]
    BY DEF NothingLeftBehind
  <2>1. tracked'[b] = tracked[b] /\ tracked[b] # id[c]
    BY <1>2, <1>5
  <2>2. PICK d \in MeasureCallers : tracked[b] = id[d]
    BY <2>1 DEF NothingLeftBehind
  <2>3. d # c /\ id'[d] = id[d]
    BY <2>1, <2>2, CallersAssumption DEF Typed
  <2> QED
    BY <2>1, <2>2, <2>3
<1> QED
  BY <1>4, <1>6, <1>7, <1>8, <1>9, <1>10

\* Every step of every caller, and every stuttering step.
LEMMA NextIInv == IInv /\ [Next]_vars => IInv'
<1> SUFFICES ASSUME IInv, [Next]_vars PROVE IInv'
  OBVIOUS
<1>1. CASE Next
  <2>1. PICK c \in Callers : CallerStep(c)
    BY <1>1 DEF Next
  <2>2. CASE \E kind \in {"primitive", "setting"} : StartRun(c, kind)
    BY <2>2, StartRunIInv
  <2>3. CASE MeasureFails(c)
    BY <2>3, MoveIInv DEF MeasureFails
  <2>4. CASE \E s \in Returned : MeasureReturns(c, s)
    BY <2>4, MeasureReturnsIInv
  <2>5. CASE GetBuffer(c)
    BY <2>5, GetBufferIInv
  <2>6. CASE GetMetadata(c)
    <3>1. CASE pc' = [pc EXCEPT ![c] = "release"] /\ UNCHANGED <<hubRefs, holding>>
      BY <2>6, <3>1, MoveIInv DEF GetMetadata
    <3>2. CASE DropAttached(c, holding[c])
      BY <2>6, <3>2, DropAttachedIInv DEF GetMetadata
    <3> QED
      BY <2>6, <3>1, <3>2 DEF GetMetadata
  <2>7. CASE ReleaseAtISS(c)
    BY <2>7, ReleaseAtISSIInv
  <2>8. CASE Track(c)
    BY <2>8, TrackIInv
  <2>9. CASE RunAllReturns(c)
    <3>1. CASE id[c] \in settingIDs
      BY <2>9, <3>1, MoveIInv DEF RunAllReturns
    <3>2. CASE id[c] \notin settingIDs
      BY <2>9, <3>2, MoveIInv DEF RunAllReturns
    <3> QED
      BY <3>1, <3>2
  <2>10. CASE \E b \in results[c] : ConsumeSamples(c, b)
    BY <2>10, ConsumeSamplesIInv
  <2>11. CASE DecodeEnds(c)
    BY <2>11, MoveIInv DEF DecodeEnds
  <2>12. CASE Finish(c)
    BY <2>12, FinishIInv
  <2> QED
    BY <2>1, <2>2, <2>3, <2>4, <2>5, <2>6, <2>7, <2>8, <2>9, <2>10, <2>11, <2>12
       DEF CallerStep
<1>2. CASE UNCHANGED vars
  <2> USE <1>2 DEF IInv, vars
  <2>1. Typed' /\ Identified' /\ Attaching' /\ Known'
    BY DEF Typed, Identified, Attaching, Known
  <2>2. RefsAccounted'
    BY RefsKept
  <2>3. Claimed' /\ Spent' /\ DeliveredOnce' /\ NothingLeftBehind'
    BY DEF Claimed, Spent, DeliveredOnce, NothingLeftBehind
  <2> QED
    BY <2>1, <2>2, <2>3
<1> QED
  BY <1>1, <1>2

\* The inductive invariant holds in every reachable state.
THEOREM Invariance == Spec => []IInv
  BY InitIInv, NextIInv, PTL DEF Spec

-----------------------------------------------------------------------------
(* What follows from it.                                                   *)

\* The types, and that a reference count is never negative: the hub never drops
\* a reference it does not hold.
THEOREM TypeCorrect == Spec => []TypeOK
<1>1. IInv => TypeOK
  <2> SUFFICES ASSUME IInv PROVE TypeOK
    OBVIOUS
  <2>1. ASSUME NEW b \in Buffers PROVE hubRefs[b] \in Nat
    <3>1. hubRefs[b] = Cardinality(Holders(holding, b))
                       + (IF tracked[b] = 0 THEN 0 ELSE 1)
      BY DEF IInv, RefsAccounted, Holders
    <3> QED
      BY <3>1, HoldersFinite
  <2>2. hubRefs \in [Buffers -> Nat]
    BY <2>1 DEF IInv, Typed
  <2> QED
    BY <2>2 DEF IInv, Typed, TypeOK
<1> QED
  BY <1>1, Invariance, PTL

\* No path through RegisterBuffer, ConsumeSamples and ReleaseRequestor leaks a
\* reference or drops one twice.
THEOREM ReferencesAccounted == Spec => []RefsAccounted
<1>1. IInv => RefsAccounted
  BY DEF IInv
<1> QED
  BY <1>1, Invariance, PTL

\* Two registrations never both succeed for the same buffer.
THEOREM ClaimsExclusive == Spec => []ExclusiveClaim
<1>1. IInv => ExclusiveClaim
  <2> SUFFICES ASSUME IInv, NEW b \in Buffers
               PROVE  LET claims == {c \in Callers : pc[c] = "track" /\ holding[c] = b} IN
                      /\ claims # {} \/ tracked[b] # 0 => b \notin issHolds
                      /\ tracked[b] # 0 => claims = {}
                      /\ \A c, d \in claims : c = d
    BY DEF ExclusiveClaim
  <2> QED
    BY DEF IInv, Claimed
<1> QED
  BY <1>1, Invariance, PTL

\* No buffer's samples reach two measurements.
THEOREM SamplesDeliveredOnce == Spec => []DeliveredOnce
<1>1. IInv => DeliveredOnce
  BY DEF IInv
<1> QED
  BY <1>1, Invariance, PTL

\* A primitive measurement that has returned tracks nothing any more.
THEOREM Cleanup == Spec => []NothingLeftBehind
<1>1. IInv => NothingLeftBehind
  BY DEF IInv
<1> QED
  BY <1>1, Invariance, PTL

\* Only its owner removes an entry of m.buffers.
THEOREM OwnerReleases == Spec => OnlyOwnerReleases
<1> DEFINE Owned ==
       \A b \in Buffers :
          tracked[b] # 0 /\ tracked'[b] # tracked[b] =>
              /\ tracked'[b] = 0
              /\ \E c \in Callers : id[c] = tracked[b] /\ pc[c] \in {"decode", "finish"}
<1>1. IInv /\ [Next]_vars => [Owned]_vars
  <2> SUFFICES ASSUME IInv, NEW c \in Callers, CallerStep(c),
                      NEW b \in Buffers, tracked[b] # 0, tracked'[b] # tracked[b]
               PROVE  /\ tracked'[b] = 0
                      /\ id[c] = tracked[b] /\ pc[c] \in {"decode", "finish"}
    BY DEF Next
  <2>1. CASE Track(c)
    <3>1. b = holding[c]
      BY <2>1 DEF Track, IInv, Typed
    <3> QED
      BY <2>1, <3>1 DEF Track, IInv, Claimed
  <2>2. CASE \E x \in results[c] : ConsumeSamples(c, x)
    BY <2>2 DEF ConsumeSamples, IInv, Typed
  <2>3. CASE Finish(c)
    BY <2>3 DEF Finish, ReleaseRequestor, IInv, Typed
  <2>4. CASE tracked' = tracked
    BY <2>4
  <2> QED
    BY <2>1, <2>2, <2>3, <2>4
       DEF CallerStep, StartRun, MeasureFails, MeasureReturns, GetBuffer, GetMetadata,
           ReleaseAtISS, RunAllReturns, DecodeEnds
<1> QED
  BY <1>1, Invariance, PTL DEF Spec, OnlyOwnerReleases

=============================================================================
