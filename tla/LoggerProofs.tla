---------------------------- MODULE LoggerProofs ----------------------------
(***************************************************************************)
(* The safety properties of the logger, for any number of callers and of   *)
(* entries, any queue capacity and any batch size.                         *)
(*                                                                         *)
(* AcceptedIsWritten rests on where an accepted entry can be: in the queue *)
(* until the writer takes it, in the builder until the batch is written,   *)
(* and from then on in the file or with the failed batches.  What callers  *)
(* queue after Close has closed the channel is not accepted, so the drain  *)
(* that began after that leaves no accepted entry behind however often     *)
(* they log.                                                               *)
(***************************************************************************)
EXTENDS Logger, TLAPS, FiniteSets, FiniteSetTheorems

\* An accepted entry is in one of the places it passes through.
Kept == accepted \subseteq Elements(queue) \cup Elements(builder) \cup Elements(file) \cup Elements(failed)

\* The last drain begins after the channel was closed and leaves no accepted
\* entry in the queue or the builder; the writer returns after it only.
LastDrain ==
    /\ final => done
    /\ writer = "exited" => final
    /\ final /\ writer \in {"stats", "exited"} => accepted \subseteq Elements(file) \cup Elements(failed)

\* Close is past wg.Wait only when the writer has returned.
Waited == closer \in {"file", "closed"} => writer = "exited"

\* What the statistics count and what calls under way have yet to count is
\* what was put into the queue.
Balance ==
    /\ IsFiniteSet(InCount)
    /\ stats.enqueued + Cardinality(InCount) + raws
         = Len(queue) + Len(builder) + Len(file) + Len(failed)

IInv ==
    /\ TypeOK
    /\ Kept
    /\ LastDrain
    /\ Waited
    /\ Balance

-----------------------------------------------------------------------------
(* Elements of sequences.                                                  *)

\* An appended element.
LEMMA AppendElements ==
    ASSUME NEW S, NEW s \in Seq(S), NEW e \in S
    PROVE  /\ Append(s, e) \in Seq(S) /\ Len(Append(s, e)) = Len(s) + 1
           /\ Elements(Append(s, e)) = Elements(s) \cup {e}
<1>1. Append(s, e) \in Seq(S) /\ Len(Append(s, e)) = Len(s) + 1
  OBVIOUS
<1>2. ASSUME NEW x \in Elements(Append(s, e)) PROVE x \in Elements(s) \cup {e}
  BY DEF Elements
<1>3. ASSUME NEW x \in Elements(s) PROVE x \in Elements(Append(s, e))
  <2>1. PICK i \in DOMAIN s : x = s[i]
    BY DEF Elements
  <2>2. i \in DOMAIN Append(s, e) /\ Append(s, e)[i] = x
    BY <2>1
  <2> QED
    BY <2>2 DEF Elements
<1>4. e \in Elements(Append(s, e))
  <2>1. Len(s) + 1 \in DOMAIN Append(s, e) /\ Append(s, e)[Len(s) + 1] = e
    OBVIOUS
  <2> QED
    BY <2>1 DEF Elements
<1> QED
  BY <1>1, <1>2, <1>3, <1>4

\* Head and tail of a sequence that is not empty.
LEMMA TailElements ==
    ASSUME NEW S, NEW s \in Seq(S), s # << >>
    PROVE  /\ Head(s) \in S /\ Tail(s) \in Seq(S) /\ Len(Tail(s)) = Len(s) - 1
           /\ Elements(s) \subseteq {Head(s)} \cup Elements(Tail(s))
<1>1. Head(s) \in S /\ Tail(s) \in Seq(S) /\ Len(Tail(s)) = Len(s) - 1
  OBVIOUS
<1>2. ASSUME NEW x \in Elements(s), x # Head(s) PROVE x \in Elements(Tail(s))
  <2>1. PICK i \in DOMAIN s : x = s[i]
    BY DEF Elements
  <2>2. i \in 2..Len(s)
    BY <1>2, <2>1
  <2>3. i - 1 \in DOMAIN Tail(s) /\ Tail(s)[i - 1] = x
    BY <2>1, <2>2
  <2> QED
    BY <2>3 DEF Elements
<1> QED
  BY <1>1, <1>2

\* Two sequences one after the other.
LEMMA ConcatElements ==
    ASSUME NEW S, NEW s \in Seq(S), NEW t \in Seq(S)
    PROVE  /\ s \o t \in Seq(S) /\ Len(s \o t) = Len(s) + Len(t)
           /\ Elements(s \o t) = Elements(s) \cup Elements(t)
<1>1. s \o t \in Seq(S) /\ Len(s \o t) = Len(s) + Len(t)
  OBVIOUS
<1>2. ASSUME NEW x \in Elements(s \o t) PROVE x \in Elements(s) \cup Elements(t)
  <2>1. PICK i \in DOMAIN (s \o t) : x = (s \o t)[i]
    BY DEF Elements
  <2>2. CASE i <= Len(s)
    <3>1. i \in DOMAIN s /\ x = s[i]
      BY <2>1, <2>2
    <3> QED
      BY <3>1 DEF Elements
  <2>3. CASE i > Len(s)
    <3>1. i - Len(s) \in DOMAIN t /\ x = t[i - Len(s)]
      BY <2>1, <2>3
    <3> QED
      BY <3>1 DEF Elements
  <2> QED
    BY <2>1, <2>2, <2>3
<1>3. ASSUME NEW x \in Elements(s) PROVE x \in Elements(s \o t)
  <2>1. PICK i \in DOMAIN s : x = s[i]
    BY DEF Elements
  <2>2. i \in DOMAIN (s \o t) /\ (s \o t)[i] = x
    BY <2>1
  <2> QED
    BY <2>2 DEF Elements
<1>4. ASSUME NEW x \in Elements(t) PROVE x \in Elements(s \o t)
  <2>1. PICK i \in DOMAIN t : x = t[i]
    BY DEF Elements
  <2>2. Len(s) + i \in DOMAIN (s \o t) /\ (s \o t)[Len(s) + i] = x
    BY <2>1
  <2> QED
    BY <2>2 DEF Elements
<1> QED
  BY <1>1, <1>2, <1>3, <1>4

\* Nothing is in the empty sequence.
LEMMA EmptyElements ==
    ASSUME NEW S
    PROVE  << >> \in Seq(S) /\ Len(<< >>) = 0 /\ Elements(<< >>) = {}
  BY DEF Elements

-----------------------------------------------------------------------------
(* The steps.                                                              *)

\* A new logger has nothing to keep.
LEMMA InitIInv == Init => IInv
<1> SUFFICES ASSUME Init PROVE IInv
  OBVIOUS
<1>1. << >> \in Seq(Entries) /\ Len(<< >>) = 0
  BY EmptyElements
<1>2. TypeOK
  <2>1. final \in BOOLEAN /\ done \in BOOLEAN /\ open \in BOOLEAN
    BY DEF Init
  <2>2. /\ queue \in Seq(Entries) /\ Len(queue) <= QueueCap /\ builder \in Seq(Entries)
        /\ file \in Seq(Entries) /\ failed \in Seq(Entries) /\ accepted \in SUBSET Entries
    BY <1>1, SizeAssumption DEF Init
  <2>3. /\ logged \in [Callers -> Nat] /\ count \in [Callers -> {"none", "enqueued", "dropped"}]
        /\ stats \in [enqueued : Nat, dropped : Nat, entries : Nat] /\ drained \in Nat /\ raws \in Nat
    BY DEF Init
  <2> QED
    BY <2>1, <2>2, <2>3 DEF Init, TypeOK
<1>3. Kept /\ LastDrain /\ Waited
  BY DEF Init, Kept, LastDrain, Waited
<1>4. InCount = {}
  BY DEF Init, InCount
<1>5. Balance
  BY <1>1, <1>4, FS_EmptySet DEF Init, Balance
<1> QED
  BY <1>2, <1>3, <1>5 DEF IInv

\* What a log call that finds room does to the queue and the accepted entries.
LEMMA PutFacts ==
    ASSUME TypeOK, NEW c \in Callers, ~Full, Put(c)
    PROVE  /\ logged' \in [Callers -> Nat]
           /\ queue' \in Seq(Entries) /\ Len(queue') = Len(queue) + 1 /\ Len(queue') + others <= QueueCap
           /\ accepted' \in SUBSET Entries
           /\ accepted' \subseteq accepted \cup Elements(queue')
           /\ done => accepted' = accepted
           /\ Elements(queue) \subseteq Elements(queue')
<1> DEFINE e == <<c, logged[c] + 1>>
<1>1. e \in Entries
  BY DEF TypeOK, Entries
<1>2. queue' = Append(queue, e) /\ accepted' = (IF done THEN accepted ELSE accepted \cup {e})
  BY DEF Put
<1>3. logged' \in [Callers -> Nat]
  BY DEF Put, TypeOK
<1> HIDE DEF e
<1>4. /\ queue' \in Seq(Entries) /\ Len(queue') = Len(queue) + 1
      /\ Elements(queue') = Elements(queue) \cup {e}
  BY <1>1, <1>2, AppendElements DEF TypeOK
<1>5. Len(queue') + others <= QueueCap
  BY <1>4, SizeAssumption DEF TypeOK, Full
<1> QED
  BY <1>1, <1>2, <1>3, <1>4, <1>5 DEF TypeOK

\* queueLogEntry, first part.
LEMMA QueueLogEntryIInv ==
    ASSUME IInv, NEW c \in Callers, QueueLogEntry(c)
    PROVE  IInv'
<1>1. /\ UNCHANGED <<others, builder, drained, final, writer, done, closer, file, open, failed, stats, raws>>
      /\ count[c] = "none"
  BY DEF QueueLogEntry
<1>2. CASE ~Full /\ Put(c) /\ count' = [count EXCEPT ![c] = "enqueued"]
  <2>1. /\ logged' \in [Callers -> Nat]
        /\ queue' \in Seq(Entries) /\ Len(queue') = Len(queue) + 1 /\ Len(queue') + others <= QueueCap
        /\ accepted' \in SUBSET Entries
        /\ accepted' \subseteq accepted \cup Elements(queue')
        /\ done => accepted' = accepted
        /\ Elements(queue) \subseteq Elements(queue')
    BY <1>2, PutFacts DEF IInv
  <2>2. count' \in [Callers -> {"none", "enqueued", "dropped"}]
    BY <1>2 DEF IInv, TypeOK
  <2>3. TypeOK'
    BY <1>1, <2>1, <2>2 DEF IInv, TypeOK
  <2>4. Kept' /\ LastDrain' /\ Waited'
    BY <1>1, <2>1 DEF IInv, Kept, LastDrain, Waited
  <2>5. InCount' = InCount \cup {c} /\ c \notin InCount
    BY <1>1, <1>2 DEF IInv, TypeOK, InCount
  <2>6. IsFiniteSet(InCount') /\ Cardinality(InCount') = Cardinality(InCount) + 1
    BY <2>5, FS_AddElement DEF IInv, Balance
  <2>7. Cardinality(InCount) \in Nat
    BY FS_CardinalityType DEF IInv, Balance
  <2>8. stats.enqueued \in Nat /\ raws \in Nat /\ Len(queue) \in Nat /\ Len(builder) \in Nat
        /\ Len(file) \in Nat /\ Len(failed) \in Nat
    BY DEF IInv, TypeOK
  <2>9. stats.enqueued + Cardinality(InCount) + raws
          = Len(queue) + Len(builder) + Len(file) + Len(failed)
    BY DEF IInv, Balance
  <2>10. stats.enqueued + (Cardinality(InCount) + 1) + raws
           = (Len(queue) + 1) + Len(builder) + Len(file) + Len(failed)
    BY <2>7, <2>8, <2>9
  <2>11. Balance'
    BY <1>1, <2>1, <2>6, <2>10 DEF Balance
  <2> QED
    BY <2>3, <2>4, <2>11 DEF IInv
<1>3. CASE /\ logged' = [logged EXCEPT ![c] = @ + 1]
           /\ count' = [count EXCEPT ![c] = "dropped"]
           /\ UNCHANGED <<queue, accepted>>
  <2>1. TypeOK'
    BY <1>1, <1>3 DEF IInv, TypeOK
  <2>2. Kept' /\ LastDrain' /\ Waited'
    BY <1>1, <1>3 DEF IInv, Kept, LastDrain, Waited
  <2>3. InCount' = InCount
    BY <1>1, <1>3 DEF IInv, TypeOK, InCount
  <2>4. Balance'
    BY <1>1, <1>3, <2>3 DEF IInv, Balance
  <2> QED
    BY <2>1, <2>2, <2>4 DEF IInv
<1> QED
  BY <1>2, <1>3 DEF QueueLogEntry

\* queueLogEntry, the statistics.
LEMMA CountEntryIInv ==
    ASSUME IInv, NEW c \in Callers, CountEntry(c)
    PROVE  IInv'
<1>1. /\ UNCHANGED <<logged, queue, others, builder, drained, final, writer, done, closer, file, open,
                     failed, raws, accepted>>
      /\ count' = [count EXCEPT ![c] = "none"]
  BY DEF CountEntry
<1>2. stats.enqueued \in Nat /\ stats.dropped \in Nat /\ stats.entries \in Nat /\ raws \in Nat
      /\ Len(queue) \in Nat /\ Len(builder) \in Nat /\ Len(file) \in Nat /\ Len(failed) \in Nat
  BY DEF IInv, TypeOK
<1>3. /\ stats' \in [enqueued : Nat, dropped : Nat, entries : Nat]
      /\ stats'.enqueued = IF count[c] = "enqueued" THEN stats.enqueued + 1 ELSE stats.enqueued
  <2>1. stats \in [enqueued : Nat, dropped : Nat, entries : Nat]
    BY DEF IInv, TypeOK
  <2>2. CASE count[c] = "enqueued"
    <3>1. stats' = [stats EXCEPT !.enqueued = @ + 1]
      BY <2>2 DEF CountEntry
    <3> QED
      BY <2>1, <2>2, <3>1
  <2>3. CASE count[c] # "enqueued"
    <3>1. stats' = [stats EXCEPT !.dropped = @ + 1]
      BY <2>3 DEF CountEntry
    <3> QED
      BY <2>1, <2>3, <3>1
  <2> QED
    BY <2>2, <2>3
<1>4. count' \in [Callers -> {"none", "enqueued", "dropped"}]
  BY <1>1 DEF IInv, TypeOK
<1>5. TypeOK'
  BY <1>1, <1>3, <1>4 DEF IInv, TypeOK
<1>6. Kept' /\ LastDrain' /\ Waited'
  BY <1>1 DEF IInv, Kept, LastDrain, Waited
<1>7. InCount' = InCount \ {c} /\ (c \in InCount <=> count[c] = "enqueued")
  BY <1>1 DEF IInv, TypeOK, InCount
<1>8. /\ IsFiniteSet(InCount')
      /\ Cardinality(InCount') = IF c \in InCount THEN Cardinality(InCount) - 1 ELSE Cardinality(InCount)
  BY <1>7, FS_RemoveElement DEF IInv, Balance
<1>9. Cardinality(InCount) \in Nat
  BY FS_CardinalityType DEF IInv, Balance
<1>10. stats.enqueued + Cardinality(InCount) + raws
         = Len(queue) + Len(builder) + Len(file) + Len(failed)
  BY DEF IInv, Balance
<1>11. stats'.enqueued + Cardinality(InCount') + raws = stats.enqueued + Cardinality(InCount) + raws
  <2>1. CASE count[c] = "enqueued"
    <3>1. stats'.enqueued = stats.enqueued + 1
      BY <1>3, <2>1
    <3>2. Cardinality(InCount') = Cardinality(InCount) - 1
      BY <1>7, <1>8, <2>1
    <3>3. stats.enqueued \in Nat /\ raws \in Nat
      BY <1>2
    <3> QED
      BY <1>9, <3>1, <3>2, <3>3
  <2>2. CASE count[c] # "enqueued"
    BY <1>2, <1>3, <1>7, <1>8, <1>9, <2>2
  <2> QED
    BY <2>1, <2>2
<1>12. Balance'
  BY <1>1, <1>8, <1>10, <1>11 DEF Balance
<1> QED
  BY <1>5, <1>6, <1>12 DEF IInv

\* WriteRaw.
LEMMA WriteRawIInv ==
    ASSUME IInv, NEW c \in Callers, WriteRaw(c)
    PROVE  IInv'
<1>1. UNCHANGED <<count, others, builder, drained, final, writer, done, closer, file, open, failed, stats>>
  BY DEF WriteRaw
<1>2. InCount' = InCount
  BY <1>1 DEF InCount
<1>3. Cardinality(InCount) \in Nat
  BY FS_CardinalityType DEF IInv, Balance
<1>4. CASE ~Full
  <2>1. Put(c) /\ raws' = raws + 1
    BY <1>4 DEF WriteRaw
  <2>2. /\ logged' \in [Callers -> Nat]
        /\ queue' \in Seq(Entries) /\ Len(queue') = Len(queue) + 1 /\ Len(queue') + others <= QueueCap
        /\ accepted' \in SUBSET Entries
        /\ accepted' \subseteq accepted \cup Elements(queue')
        /\ done => accepted' = accepted
        /\ Elements(queue) \subseteq Elements(queue')
    BY <1>4, <2>1, PutFacts DEF IInv
  <2>3. TypeOK'
    BY <1>1, <2>1, <2>2 DEF IInv, TypeOK
  <2>4. Kept' /\ LastDrain' /\ Waited'
    BY <1>1, <2>2 DEF IInv, Kept, LastDrain, Waited
  <2>5. stats.enqueued \in Nat /\ raws \in Nat /\ Len(queue) \in Nat /\ Len(builder) \in Nat
        /\ Len(file) \in Nat /\ Len(failed) \in Nat
    BY DEF IInv, TypeOK
  <2>6. /\ IsFiniteSet(InCount)
        /\ stats.enqueued + Cardinality(InCount) + raws
             = Len(queue) + Len(builder) + Len(file) + Len(failed)
    BY DEF IInv, Balance
  <2>7. stats.enqueued + Cardinality(InCount) + (raws + 1)
          = (Len(queue) + 1) + Len(builder) + Len(file) + Len(failed)
    BY <1>3, <2>5, <2>6
  <2>8. Balance'
    BY <1>1, <1>2, <2>1, <2>2, <2>6, <2>7 DEF Balance
  <2> QED
    BY <2>3, <2>4, <2>8 DEF IInv
<1>5. CASE Full
  <2>1. logged' = [logged EXCEPT ![c] = @ + 1] /\ UNCHANGED <<queue, accepted, raws>>
    BY <1>5 DEF WriteRaw
  <2>2. TypeOK'
    BY <1>1, <2>1 DEF IInv, TypeOK
  <2>3. Kept' /\ LastDrain' /\ Waited' /\ Balance'
    BY <1>1, <1>2, <2>1 DEF IInv, Kept, LastDrain, Waited, Balance
  <2> QED
    BY <2>2, <2>3 DEF IInv
<1> QED
  BY <1>4, <1>5

\* The writer takes an entry from the queue to the builder.
LEMMA TakeEntryIInv ==
    ASSUME IInv, TakeEntry
    PROVE  IInv'
<1>1. /\ UNCHANGED <<logged, count, others, final, done, closer, file, open, failed, stats, raws, accepted>>
      /\ writer = "drain" /\ writer' \in {"flush", "drain"}
      /\ queue # << >> /\ queue' = Tail(queue) /\ builder' = Append(builder, Head(queue))
      /\ drained' = drained + 1
  BY DEF TakeEntry
<1>2. /\ Head(queue) \in Entries /\ queue' \in Seq(Entries) /\ Len(queue') = Len(queue) - 1
      /\ Elements(queue) \subseteq {Head(queue)} \cup Elements(queue')
  BY <1>1, TailElements DEF IInv, TypeOK
<1>3. /\ builder' \in Seq(Entries) /\ Len(builder') = Len(builder) + 1
      /\ Elements(builder') = Elements(builder) \cup {Head(queue)}
  BY <1>1, <1>2, AppendElements DEF IInv, TypeOK
<1>4. Len(queue) \in Nat /\ Len(builder) \in Nat /\ Len(file) \in Nat /\ Len(failed) \in Nat
  BY DEF IInv, TypeOK
<1>5. TypeOK'
  BY <1>1, <1>2, <1>3, <1>4, SizeAssumption DEF IInv, TypeOK
<1>6. Kept'
  BY <1>1, <1>2, <1>3 DEF IInv, Kept
<1>7. LastDrain' /\ Waited'
  BY <1>1 DEF IInv, LastDrain, Waited
<1>8. InCount' = InCount
  BY <1>1 DEF InCount
<1>9. Balance'
  BY <1>1, <1>2, <1>3, <1>4, <1>8 DEF IInv, Balance
<1> QED
  BY <1>5, <1>6, <1>7, <1>9 DEF IInv

\* The writer writes the builder, to the file or in vain.
LEMMA FlushIInv ==
    ASSUME IInv, WriteBatch \/ DrainComplete
    PROVE  IInv'
<1>1. /\ UNCHANGED <<logged, count, queue, others, drained, final, done, closer, open, stats, raws, accepted>>
      /\ builder' = << >>
      /\ writer \in {"flush", "drain"} /\ writer' \in {"drain", "stats"}
      /\ writer' = "stats" => queue = << >>
  BY DEF WriteBatch, DrainComplete
<1>2. \/ file' = file \o builder /\ failed' = failed
      \/ failed' = failed \o builder /\ file' = file
  BY DEF WriteBatch, DrainComplete
<1>3. /\ file \o builder \in Seq(Entries) /\ Len(file \o builder) = Len(file) + Len(builder)
      /\ Elements(file \o builder) = Elements(file) \cup Elements(builder)
  BY ConcatElements DEF IInv, TypeOK
<1>4. /\ failed \o builder \in Seq(Entries) /\ Len(failed \o builder) = Len(failed) + Len(builder)
      /\ Elements(failed \o builder) = Elements(failed) \cup Elements(builder)
  BY ConcatElements DEF IInv, TypeOK
<1>5. builder' \in Seq(Entries) /\ Len(builder') = 0 /\ Elements(<< >>) = {}
  BY <1>1, EmptyElements
<1>6. /\ file' \in Seq(Entries) /\ failed' \in Seq(Entries)
      /\ Len(file') + Len(failed') = Len(file) + Len(failed) + Len(builder)
      /\ Elements(file') \cup Elements(failed')
           = Elements(file) \cup Elements(failed) \cup Elements(builder)
  <2>1. Len(builder) \in Nat /\ Len(file) \in Nat /\ Len(failed) \in Nat
    BY DEF IInv, TypeOK
  <2>2. CASE file' = file \o builder /\ failed' = failed
    BY <1>3, <2>1, <2>2 DEF IInv, TypeOK
  <2>3. CASE failed' = failed \o builder /\ file' = file
    BY <1>4, <2>1, <2>3 DEF IInv, TypeOK
  <2> QED
    BY <1>2, <2>2, <2>3
<1>7. TypeOK'
  BY <1>1, <1>5, <1>6 DEF IInv, TypeOK
<1>8. Kept'
  BY <1>1, <1>6 DEF IInv, Kept
<1>9. LastDrain'
  <2>1. ASSUME writer' = "stats" PROVE accepted' \subseteq Elements(file') \cup Elements(failed')
    BY <1>1, <1>5, <1>6, <2>1 DEF IInv, Kept
  <2> QED
    BY <1>1, <2>1 DEF IInv, LastDrain
<1>10. Waited'
  BY <1>1 DEF IInv, Waited
<1>11. InCount' = InCount
  BY <1>1 DEF InCount
<1>12. Balance'
  <2>1. Len(queue) \in Nat /\ Len(builder) \in Nat /\ Len(file) \in Nat /\ Len(failed) \in Nat
        /\ Len(file') \in Nat /\ Len(failed') \in Nat
    BY <1>6 DEF IInv, TypeOK
  <2> QED
    BY <1>1, <1>5, <1>6, <1>11, <2>1 DEF IInv, Balance
<1> QED
  BY <1>7, <1>8, <1>9, <1>10, <1>12 DEF IInv

\* The begin and the end of a drain, and Close.
LEMMA ControlIInv ==
    ASSUME IInv, StartDrain \/ UpdateBatchStats \/ CallClose \/ Close
    PROVE  IInv'
<1> USE DEF StartDrain, UpdateBatchStats, CallClose, Close, SignalDone, WaitWriter, CloseFile
<1>1. UNCHANGED <<logged, count, queue, others, builder, file, failed, raws, accepted>>
  OBVIOUS
<1>2. stats' \in [enqueued : Nat, dropped : Nat, entries : Nat] /\ stats'.enqueued = stats.enqueued
  BY DEF IInv, TypeOK
<1>3. final' \in BOOLEAN /\ done' \in BOOLEAN /\ open' \in BOOLEAN
  BY DEF IInv, TypeOK
<1>4. /\ writer' \in {"wait", "drain", "flush", "stats", "exited"} /\ drained' \in Nat
      /\ closer' \in {"idle", "check", "wait", "file", "closed"}
  BY DEF IInv, TypeOK
<1>5. TypeOK'
  BY <1>1, <1>2, <1>3, <1>4 DEF IInv, TypeOK
<1>6. Kept' /\ LastDrain' /\ Waited'
  BY <1>1 DEF IInv, Kept, LastDrain, Waited
<1>7. InCount' = InCount
  BY <1>1 DEF InCount
<1>8. Balance'
  BY <1>1, <1>2, <1>7 DEF IInv, Balance
<1> QED
  BY <1>5, <1>6, <1>8 DEF IInv

\* Entries that are not followed come and go; they only take room.
LEMMA OthersIInv ==
    ASSUME IInv, LogMore \/ TakeOther
    PROVE  IInv'
<1>1. /\ UNCHANGED <<logged, count, queue, builder, drained, final, done, closer, file, open,
                     failed, stats, raws, accepted>>
      /\ writer' = writer \/ (writer = "drain" /\ writer' \in {"drain", "flush"})
  BY DEF LogMore, TakeOther
<1>2. others' \in Nat /\ Len(queue) + others' <= QueueCap
  <2>1. /\ others \in Nat /\ Len(queue) \in Nat /\ Len(queue) + others <= QueueCap
    BY DEF IInv, TypeOK
  <2>2. CASE LogMore
    BY <2>1, <2>2, SizeAssumption DEF LogMore, Full
  <2>3. CASE TakeOther
    BY <2>1, <2>3, SizeAssumption DEF TakeOther
  <2> QED
    BY <2>2, <2>3
<1>3. TypeOK'
  BY <1>1, <1>2 DEF IInv, TypeOK
<1>4. Kept' /\ LastDrain' /\ Waited' /\ Balance'
  BY <1>1 DEF IInv, Kept, LastDrain, Waited, Balance, InCount
<1> QED
  BY <1>3, <1>4 DEF IInv

\* Every step keeps the invariant.
LEMMA NextIInv == IInv /\ [Next]_vars => IInv'
<1> SUFFICES ASSUME IInv, [Next]_vars PROVE IInv'
  OBVIOUS
<1>1. ASSUME NEW c \in Callers, QueueLogEntry(c) \/ CountEntry(c) \/ WriteRaw(c) PROVE IInv'
  BY <1>1, QueueLogEntryIInv, CountEntryIInv, WriteRawIInv
<1>2. CASE Write
  BY <1>2, TakeEntryIInv, OthersIInv, FlushIInv, ControlIInv DEF Write
<1>3. CASE CallClose \/ Close
  BY <1>3, ControlIInv
<1>4. CASE LogMore
  BY <1>4, OthersIInv
<1>5. CASE UNCHANGED vars
  BY <1>5 DEF vars, IInv, TypeOK, Kept, LastDrain, Waited, Balance, InCount
<1> QED
  BY <1>1, <1>2, <1>3, <1>4, <1>5 DEF Next

-----------------------------------------------------------------------------
(* The theorems.                                                           *)

\* Where the entries are, in every state of every behaviour.
THEOREM Invariance == Spec => []IInv
  BY InitIInv, NextIInv, PTL DEF Spec

\* Every variable has its type and logQueue respects its capacity.
THEOREM TypeCorrect == Spec => []TypeOK
<1>1. IInv => TypeOK
  BY DEF IInv
<1> QED
  BY <1>1, Invariance, PTL

\* When Close has returned, every entry queued before it closed the done
\* channel was handed to the file, whatever is logged meanwhile.
THEOREM CloseFlushesAccepted == Spec => []AcceptedIsWritten
<1>1. ASSUME IInv, closer = "closed" PROVE accepted \subseteq Elements(file \o failed)
  <2>1. accepted \subseteq Elements(file) \cup Elements(failed)
    BY <1>1 DEF IInv, Waited, LastDrain
  <2>2. Elements(file \o failed) = Elements(file) \cup Elements(failed)
    BY <1>1, ConcatElements DEF IInv, TypeOK
  <2> QED
    BY <2>1, <2>2
<1>2. IInv => AcceptedIsWritten
  BY <1>1 DEF AcceptedIsWritten
<1> QED
  BY <1>2, Invariance, PTL

\* Whenever no call is between its send and its statistics, the statistics
\* count exactly the structured entries between the queue and the file.
THEOREM StatisticsBalance == Spec => []EntriesBalance
<1>1. ASSUME IInv, InCount = {}
      PROVE  stats.enqueued + raws = Len(queue) + Len(builder) + Len(file) + Len(failed)
  <2>1. Cardinality(InCount) = 0
    BY <1>1, FS_EmptySet
  <2>2. stats.enqueued \in Nat /\ raws \in Nat
    BY <1>1 DEF IInv, TypeOK
  <2> QED
    BY <1>1, <2>1, <2>2 DEF IInv, Balance
<1>2. IInv => EntriesBalance
  BY <1>1 DEF EntriesBalance
<1> QED
  BY <1>2, Invariance, PTL

=============================================================================
