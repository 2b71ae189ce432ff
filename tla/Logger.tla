------------------------------- MODULE Logger -------------------------------
(***************************************************************************)
(* The asynchronous logger.  Log calls put entries into a bounded queue    *)
(* and never block; a writer goroutine drains the queue on every tick and  *)
(* writes batches to the file; Close asks the writer to drain once more,   *)
(* waits for it and closes the file.  Log calls of request callbacks go on *)
(* during and after Close, because Runtime.Close does not wait for them.   *)
(* An entry is known by its caller and its number; a batch is full after   *)
(* BatchEntries entries, which stands for batchBytes.  The model follows   *)
(* MaxEntries entries of each caller to the file and through the           *)
(* statistics.  Callers may log more for ever: of those entries it only    *)
(* knows how many are in the queue, where they take room and keep the      *)
(* writer draining.                                                        *)
(***************************************************************************)
EXTENDS Naturals, Sequences

CONSTANTS
    Callers,       \* goroutines that log
    QueueCap,      \* capacity of logQueue
    BatchEntries,  \* entries of a full batch
    MaxEntries     \* bound: entries of each caller that are followed

ASSUME SizeAssumption ==
    QueueCap \in Nat \ {0} /\ BatchEntries \in Nat \ {0} /\ MaxEntries \in Nat

VARIABLES
    logged,    \* followed entries each caller has logged or dropped
    count,     \* the statistics update its last call still owes
    queue,     \* logQueue: the followed entries
    others,    \* logQueue: how many others it holds
    builder,   \* the writer's string builder
    drained,   \* entriesProcessed of the drain that runs
    final,     \* the drain that runs is the last one
    writer,    \* "wait", "drain", "flush", "stats" or "exited"
    done,      \* the done channel is closed
    closer,    \* where Close is
    file,      \* entries in the file, in order
    open,      \* the file is open
    failed,    \* entries of batches whose write failed
    stats,     \* [enqueued, dropped, entries]: LoggerStats
    raws,      \* history: raw entries queued, which no statistic counts
    accepted   \* history: entries queued before Close closed the channel

vars == <<logged, count, queue, others, builder, drained, final, writer, done, closer, file, open,
          failed, stats, raws, accepted>>

Entries == Callers \X Nat
Elements(s) == {s[i] : i \in DOMAIN s}

\* Every variable has its type, and the queue respects its capacity.
TypeOK ==
    /\ logged \in [Callers -> Nat]
    /\ count \in [Callers -> {"none", "enqueued", "dropped"}]
    /\ queue \in Seq(Entries) /\ others \in Nat /\ Len(queue) + others <= QueueCap
    /\ builder \in Seq(Entries) /\ drained \in Nat /\ final \in BOOLEAN
    /\ writer \in {"wait", "drain", "flush", "stats", "exited"}
    /\ done \in BOOLEAN /\ open \in BOOLEAN
    /\ closer \in {"idle", "check", "wait", "file", "closed"}
    /\ file \in Seq(Entries)
    /\ failed \in Seq(Entries)
    /\ stats \in [enqueued : Nat, dropped : Nat, entries : Nat]
    /\ raws \in Nat /\ accepted \in SUBSET Entries

\* NewLoggerWithOptions: the file is created and the writer runs.
Init ==
    /\ logged = [c \in Callers |-> 0] /\ count = [c \in Callers |-> "none"]
    /\ queue = << >> /\ others = 0 /\ builder = << >> /\ drained = 0 /\ final = FALSE /\ writer = "wait"
    /\ done = FALSE /\ closer = "idle" /\ file = << >> /\ open = TRUE /\ failed = << >>
    /\ stats = [enqueued |-> 0, dropped |-> 0, entries |-> 0]
    /\ raws = 0 /\ accepted = {}

-----------------------------------------------------------------------------
(* Log calls                                                               *)

\* Mutant: one entry too many fits.
FullOffByOne == Len(queue) + others > QueueCap

\* The send of queueLogEntry would block.
Full == Len(queue) + others = QueueCap

\* The caller's next entry goes into the queue.
Put(c) ==
    /\ logged' = [logged EXCEPT ![c] = @ + 1]
    /\ queue' = Append(queue, <<c, logged[c] + 1>>)
    /\ accepted' = IF done THEN accepted ELSE accepted \cup {<<c, logged[c] + 1>>}

\* queueLogEntry: the entry is queued, or dropped when the queue is full; the
\* done channel is not looked at.  The statistics follow in a second step.
QueueLogEntry(c) ==
    /\ count[c] = "none" /\ logged[c] < MaxEntries
    /\ \/ ~Full /\ Put(c) /\ count' = [count EXCEPT ![c] = "enqueued"]
       \/ /\ Full
          /\ logged' = [logged EXCEPT ![c] = @ + 1]
          /\ count' = [count EXCEPT ![c] = "dropped"]
          /\ UNCHANGED <<queue, accepted>>
    /\ UNCHANGED <<others, builder, drained, final, writer, done, closer, file, open, failed, stats, raws>>

\* Mutant: a dropped entry counts as queued.
CountEntryAlways(c) ==
    /\ count[c] # "none"
    /\ stats' = [stats EXCEPT !.enqueued = @ + 1]
    /\ count' = [count EXCEPT ![c] = "none"]
    /\ UNCHANGED <<logged, queue, others, builder, drained, final, writer, done, closer, file, open,
                   failed, raws, accepted>>

\* queueLogEntry: the statistics, under their own mutex.
CountEntry(c) ==
    /\ count[c] # "none"
    /\ stats' = IF count[c] = "enqueued" THEN [stats EXCEPT !.enqueued = @ + 1]
                                         ELSE [stats EXCEPT !.dropped = @ + 1]
    /\ count' = [count EXCEPT ![c] = "none"]
    /\ UNCHANGED <<logged, queue, others, builder, drained, final, writer, done, closer, file, open,
                   failed, raws, accepted>>

\* WriteRaw: queued or printed, and never counted.
WriteRaw(c) ==
    /\ count[c] = "none" /\ logged[c] < MaxEntries
    /\ IF Full THEN /\ logged' = [logged EXCEPT ![c] = @ + 1]
                    /\ UNCHANGED <<queue, accepted, raws>>
               ELSE Put(c) /\ raws' = raws + 1
    /\ UNCHANGED <<count, others, builder, drained, final, writer, done, closer, file, open, failed, stats>>

\* Any other log call or raw write; one that finds the queue full is dropped
\* without a trace in this model.
LogMore ==
    /\ ~Full
    /\ others' = others + 1
    /\ UNCHANGED <<logged, count, queue, builder, drained, final, writer, done, closer, file, open,
                   failed, stats, raws, accepted>>

-----------------------------------------------------------------------------
(* The writer                                                              *)

\* asyncWriter: a tick, or the done channel, begins a drain.
StartDrain ==
    /\ writer = "wait"
    /\ \/ final' = FALSE
       \/ done /\ final' = TRUE
    /\ writer' = "drain" /\ drained' = 0
    /\ UNCHANGED <<logged, count, queue, others, builder, done, closer, file, open, failed, stats, raws, accepted>>

\* drainQueueAndWrite takes an entry, formats it and adds it to the batch; a
\* full batch is written before the next entry is taken.
TakeEntry ==
    /\ writer = "drain" /\ queue # << >>
    /\ queue' = Tail(queue)
    /\ builder' = Append(builder, Head(queue))
    /\ drained' = drained + 1
    /\ writer' = IF Len(builder) + 1 >= BatchEntries THEN "flush" ELSE "drain"
    /\ UNCHANGED <<logged, count, others, final, done, closer, file, open, failed, stats, raws, accepted>>

\* The same for an entry that is not followed: the batch may be full with it.
TakeOther ==
    /\ writer = "drain" /\ others > 0
    /\ others' = others - 1
    /\ writer' \in {"drain", "flush"}
    /\ UNCHANGED <<logged, count, queue, builder, drained, final, done, closer, file, open, failed,
                   stats, raws, accepted>>

\* writeStringToFile for a full batch: a failing write loses it, the builder
\* is reset in either case.
WriteBatch ==
    /\ writer = "flush"
    /\ \/ open /\ file' = file \o builder /\ failed' = failed
       \/ failed' = failed \o builder /\ file' = file
    /\ builder' = << >> /\ writer' = "drain"
    /\ UNCHANGED <<logged, count, queue, others, drained, final, done, closer, open, stats, raws, accepted>>

\* drainQueueAndWrite finds the queue empty and writes the partial batch.
DrainComplete ==
    /\ writer = "drain" /\ queue = << >> /\ others = 0
    /\ \/ open /\ file' = file \o builder /\ failed' = failed
       \/ failed' = failed \o builder /\ file' = file
    /\ builder' = << >> /\ writer' = "stats"
    /\ UNCHANGED <<logged, count, queue, others, drained, final, done, closer, open, stats, raws, accepted>>

\* Mutant: the writer does not return after its last drain.
UpdateBatchStatsForever ==
    /\ writer = "stats"
    /\ stats' = [stats EXCEPT !.entries = @ + drained]
    /\ drained' = 0
    /\ writer' = "wait"
    /\ UNCHANGED <<logged, count, queue, others, builder, final, done, closer, file, open, failed, raws, accepted>>

\* updateBatchStats; after the last drain the writer returns (the builder is
\* empty then, the second flush of asyncWriter has nothing to write).
UpdateBatchStats ==
    /\ writer = "stats"
    /\ stats' = [stats EXCEPT !.entries = @ + drained]
    /\ drained' = 0
    /\ writer' = IF final THEN "exited" ELSE "wait"
    /\ UNCHANGED <<logged, count, queue, others, builder, final, done, closer, file, open, failed, raws, accepted>>

-----------------------------------------------------------------------------
(* Close                                                                   *)

\* Close is called, again perhaps.
CallClose ==
    /\ closer \in {"idle", "closed"} /\ closer' = "check"
    /\ UNCHANGED <<logged, count, queue, others, builder, drained, final, writer, done, file, open, failed,
                   stats, raws, accepted>>

\* Mutant: Close closes the file without waiting for the writer.
SignalDoneNoWait ==
    /\ closer = "check" /\ done' = TRUE /\ closer' = "file"
    /\ UNCHANGED <<logged, count, queue, others, builder, drained, final, writer, file, open, failed,
                   stats, raws, accepted>>

\* Close closes the channel unless that was done before.
SignalDone ==
    /\ closer = "check" /\ done' = TRUE /\ closer' = "wait"
    /\ UNCHANGED <<logged, count, queue, others, builder, drained, final, writer, file, open, failed,
                   stats, raws, accepted>>

\* wg.Wait: the writer has returned.
WaitWriter ==
    /\ closer = "wait" /\ writer = "exited" /\ closer' = "file"
    /\ UNCHANGED <<logged, count, queue, others, builder, drained, final, writer, done, file, open, failed,
                   stats, raws, accepted>>

\* Close writes the shutdown message and closes the file.
CloseFile ==
    /\ closer = "file" /\ open' = FALSE /\ closer' = "closed"
    /\ UNCHANGED <<logged, count, queue, others, builder, drained, final, writer, done, file, failed,
                   stats, raws, accepted>>

Write == StartDrain \/ TakeEntry \/ TakeOther \/ WriteBatch \/ DrainComplete \/ UpdateBatchStats
Close == SignalDone \/ WaitWriter \/ CloseFile

Next ==
    \/ \E c \in Callers : QueueLogEntry(c) \/ CountEntry(c) \/ WriteRaw(c)
    \/ LogMore \/ Write \/ CallClose \/ Close

\* The writer and a goroutine in Close are scheduled; the select of the writer
\* does not ignore the closed channel for ever.  The callers are free to log
\* for ever or to stop.
Fairness == WF_vars(Write) /\ WF_vars(Close) /\ SF_vars(StartDrain /\ final')

Spec == Init /\ [][Next]_vars /\ Fairness

-----------------------------------------------------------------------------
(* Properties                                                              *)

\* When Close has returned, every entry queued before it closed the channel is
\* in the file or belongs to a batch whose write failed, whatever was logged
\* at the same time.
AcceptedIsWritten == closer = "closed" => accepted \subseteq Elements(file \o failed)

InCount == {c \in Callers : count[c] = "enqueued"}

\* No entry is duplicated or vanishes between the queue and the file, and the
\* statistics count exactly the structured ones, once the calls under way have
\* counted theirs.
EntriesBalance ==
    InCount = {} =>
        stats.enqueued + raws = Len(queue) + Len(builder) + Len(file) + Len(failed)

\* Close returns once the callers fall silent, which Runtime.Close prepares by
\* unsubscribing every handler first: the drains then come to an end and the
\* writer sees the closed channel.  It is not promised while they log on:
\* drainQueueAndWrite ends only when it finds the queue empty.
CloseReturns == <>[][~LogMore]_vars => (closer = "check" ~> closer = "closed")

=============================================================================
