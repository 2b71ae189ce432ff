---------------------------- MODULE MeasurementDB ----------------------------
(***************************************************************************)
(* The measurement database: a bounded queue of inserts, one worker that   *)
(* writes an HDF5 file and then the catalog row of each, an orderly Close  *)
(* that drains the queue, and crashes and restarts of the hub.             *)
(*                                                                         *)
(* Modelled code: internal/measurementdb (global.go and manager.go).  A    *)
(* file is named after the time of its insert (UnixNano): a path is the    *)
(* tick of the clock at which it was written.  SQLite commits a row        *)
(* atomically; the file system and the HDF5 library may fail.              *)
(***************************************************************************)
EXTENDS Naturals, Sequences, FiniteSets

CONSTANTS
    Callers,    \* goroutines that call InsertAsync
    Items,      \* inserts, one per finished measurement
    Key,        \* Key[i]: run_id and measurement_id of insert i
    NoItem,     \* "no insert"
    Capacity,   \* capacity of insertQueue (100 in the code)
    MaxBoots    \* bound: starts of the hub

ASSUME ItemAssumption == NoItem \notin Items /\ Key \in [Items -> Nat]
ASSUME CapacityAssumption == Capacity \in Nat
ASSUME BootsAssumption == MaxBoots \in Nat

VARIABLES
    phase,      \* globalManager, insertQueue and globalMu: see Phases
    boots,      \* number of starts
    offer,      \* offer[c]: insert of an InsertAsync past its Instance check
    queue,      \* insertQueue
    wpc,        \* what the worker does next
    item,       \* the insert the worker has received
    path,       \* the file of that insert
    clock,      \* time.Now
    files,      \* the .h5 files in the store
    bad,        \* those of them that cannot be opened
    rows,       \* the catalog
    report,     \* what Validate reported at the last start
    accepted,   \* history: inserts for which InsertAsync returned nil, in order
    offered,    \* history: inserts handed to InsertAsync
    mishap      \* history: a crash, or a failure that left a file behind

volatile == <<offer, queue, wpc, item, path>>
disk == <<clock, files, bad, rows>>
history == <<accepted, offered, mishap>>
vars == <<phase, boots, volatile, disk, report, history>>

\* down: no process.  open: started.  closing: Close holds globalMu and has
\* closed the channel.  closed: globalManager is nil.
Phases == {"down", "open", "closing", "closed"}

Row == [key : Nat, item : Items, path : Nat]

\* Every variable has its type, and the queue never exceeds its capacity.
TypeOK ==
    /\ phase \in Phases
    /\ boots \in Nat
    /\ offer \in [Callers -> Items \cup {NoItem}]
    /\ queue \in Seq(Items) /\ Len(queue) <= Capacity
    /\ wpc \in {"receive", "write", "marshal", "insert"}
    /\ item \in Items \cup {NoItem}
    /\ path \in Nat
    /\ clock \in Nat
    /\ files \in SUBSET Nat
    /\ bad \in SUBSET Nat
    /\ rows \in SUBSET Row
    /\ report \in [missing : SUBSET Nat, orphan : SUBSET Nat, bad : SUBSET Nat]
    /\ accepted \in Seq(Items)
    /\ offered \in SUBSET Items
    /\ mishap \in BOOLEAN

Paths == {r.path : r \in rows}

NoInFlight ==
    /\ offer' = [c \in Callers |-> NoItem]
    /\ queue' = <<>>
    /\ wpc' = "receive"
    /\ item' = NoItem
    /\ path' = 0

Init ==
    /\ phase = "down"
    /\ boots = 0
    /\ offer = [c \in Callers |-> NoItem]
    /\ queue = <<>>
    /\ wpc = "receive"
    /\ item = NoItem
    /\ path = 0
    /\ clock = 0
    /\ files = {}
    /\ bad = {}
    /\ rows = {}
    /\ report = [missing |-> {}, orphan |-> {}, bad |-> {}]
    /\ accepted = <<>>
    /\ offered = {}
    /\ mishap = FALSE

-----------------------------------------------------------------------------
(* Startup and Close.                                                      *)

\* Validate: catalogued files that are missing or unreadable, and files that
\* no row names.
Validate ==
    [missing |-> Paths \ files,
     orphan  |-> files \ Paths,
     bad     |-> Paths \cap files \cap bad]

\* Open, Validate, a fresh queue and the worker.  A failing Open or Validate
\* ends the process again and changes nothing.
Startup ==
    /\ phase = "down"
    /\ boots < MaxBoots
    /\ phase' = "open"
    /\ boots' = boots + 1
    /\ report' = Validate
    /\ UNCHANGED <<volatile, disk, history>>

\* Close takes globalMu and closes the channel.
BeginClose ==
    /\ phase = "open"
    /\ phase' = "closing"
    /\ UNCHANGED <<boots, volatile, disk, report, history>>

\* Mutant: Close does not wait for the worker.
EndCloseEarly ==
    /\ phase = "closing"
    /\ phase' = "closed"
    /\ UNCHANGED <<boots, volatile, disk, report, history>>

\* wg.Wait: the worker has received everything and left its loop.
EndClose ==
    /\ phase = "closing"
    /\ queue = <<>> /\ wpc = "receive"
    /\ phase' = "closed"
    /\ UNCHANGED <<boots, volatile, disk, report, history>>

\* The process ends after Close.
Exit ==
    /\ phase = "closed"
    /\ phase' = "down"
    /\ NoInFlight
    /\ UNCHANGED <<boots, disk, report, history>>

\* The process dies.  A file it was writing may be left half written.
Crash ==
    /\ phase # "down"
    /\ phase' = "down"
    /\ mishap' = TRUE
    /\ NoInFlight
    /\ \/ UNCHANGED disk
       \/ /\ wpc = "write"
          /\ clock' = clock + 1
          /\ files' = files \cup {clock'}
          /\ bad' = bad \cup {clock'}
          /\ UNCHANGED rows
    /\ UNCHANGED <<boots, report, accepted, offered>>

-----------------------------------------------------------------------------
(* InsertAsync: Instance, and then a send that never blocks.               *)

\* Instance needs globalMu, which a Close under way holds.
CheckInstance(c, i) ==
    /\ phase \in {"open", "closed"}
    /\ offer[c] = NoItem
    /\ i \notin offered
    /\ offered' = offered \cup {i}
    /\ offer' = [offer EXCEPT ![c] = IF phase = "open" THEN i ELSE NoItem]
    /\ UNCHANGED <<phase, boots, queue, wpc, item, path, disk, report, accepted, mishap>>

\* Mutant: a full queue grows.
SendUnbounded(c) ==
    /\ phase = "open"
    /\ offer[c] # NoItem
    /\ queue' = Append(queue, offer[c])
    /\ accepted' = Append(accepted, offer[c])
    /\ offer' = [offer EXCEPT ![c] = NoItem]
    /\ UNCHANGED <<phase, boots, wpc, item, path, disk, report, offered, mishap>>

\* A full queue refuses the insert.
Send(c) ==
    /\ phase = "open"
    /\ offer[c] # NoItem
    /\ \/ /\ Len(queue) < Capacity
          /\ queue' = Append(queue, offer[c])
          /\ accepted' = Append(accepted, offer[c])
       \/ /\ Len(queue) >= Capacity
          /\ UNCHANGED <<queue, accepted>>
    /\ offer' = [offer EXCEPT ![c] = NoItem]
    /\ UNCHANGED <<phase, boots, wpc, item, path, disk, report, offered, mishap>>

\* The channel was closed after the check: the send panics, which ends the hub.
SendOnClosed(c) ==
    /\ phase \in {"closing", "closed"}
    /\ offer[c] # NoItem
    /\ Crash

-----------------------------------------------------------------------------
(* The worker: Manager.Insert for one received insert after the other.     *)

WorkerAlive == phase \in {"open", "closing"}

\* Mutant: the newest insert is taken first.
ReceiveLast ==
    /\ WorkerAlive
    /\ wpc = "receive"
    /\ queue # <<>>
    /\ item' = queue[Len(queue)]
    /\ queue' = SubSeq(queue, 1, Len(queue) - 1)
    /\ wpc' = "write"
    /\ UNCHANGED <<phase, boots, offer, path, disk, report, history>>

Receive ==
    /\ WorkerAlive
    /\ wpc = "receive"
    /\ queue # <<>>
    /\ item' = Head(queue)
    /\ queue' = Tail(queue)
    /\ wpc' = "write"
    /\ UNCHANGED <<phase, boots, offer, path, disk, report, history>>

\* The worker logs the error, or drops the catalog entry, and goes on.
Settled ==
    /\ wpc' = "receive"
    /\ item' = NoItem
    /\ path' = 0

\* Mutant: the worker inserts through the package's Insert, whose Instance
\* waits for the lock that a Close under way holds.
WriteFileViaInstance ==
    /\ phase = "open"
    /\ wpc = "write"
    /\ clock' = clock + 1
    /\ files' = files \cup {clock'}
    /\ path' = clock'
    /\ wpc' = "marshal"
    /\ UNCHANGED <<item, bad, mishap>>
    /\ UNCHANGED <<phase, boots, offer, queue, rows, report, accepted, offered>>

\* buildHDF5Path and hdf5Store.Write.  A failing write may leave a broken file.
WriteFile ==
    /\ WorkerAlive
    /\ wpc = "write"
    /\ clock' = clock + 1
    /\ \/ /\ files' = files \cup {clock'}
          /\ path' = clock'
          /\ wpc' = "marshal"
          /\ UNCHANGED <<item, bad, mishap>>
       \/ /\ Settled
          /\ UNCHANGED <<files, bad, mishap>>
       \/ /\ Settled
          /\ files' = files \cup {clock'}
          /\ bad' = bad \cup {clock'}
          /\ mishap' = TRUE
    /\ UNCHANGED <<phase, boots, offer, queue, rows, report, accepted, offered>>

\* shape, getters and setters as JSON: an error returns and leaves the file.
Marshal ==
    /\ WorkerAlive
    /\ wpc = "marshal"
    /\ \/ /\ wpc' = "insert"
          /\ UNCHANGED <<item, path, mishap>>
       \/ /\ Settled
          /\ mishap' = TRUE
    /\ UNCHANGED <<phase, boots, offer, queue, disk, report, accepted, offered>>

\* Mutant: the error path does not remove the file.
InsertRowKeepsFile ==
    /\ WorkerAlive
    /\ wpc = "insert"
    /\ \/ /\ \A r \in rows : r.key # Key[item]
          /\ rows' = rows \cup {[key |-> Key[item], item |-> item, path |-> path]}
       \/ UNCHANGED rows
    /\ Settled
    /\ UNCHANGED <<phase, boots, offer, queue, clock, files, bad, report, history>>

\* Mutant: the file is removed whether or not the row was inserted.
InsertRowDropsFile ==
    /\ WorkerAlive
    /\ wpc = "insert"
    /\ \/ /\ \A r \in rows : r.key # Key[item]
          /\ rows' = rows \cup {[key |-> Key[item], item |-> item, path |-> path]}
       \/ UNCHANGED rows
    /\ files' = files \ {path}
    /\ Settled
    /\ UNCHANGED <<phase, boots, offer, queue, clock, bad, report, history>>

\* INSERT INTO measurements.  When it fails, for a key that is taken or for any
\* other reason, the file is removed, and an error of that is ignored.
InsertRow ==
    /\ WorkerAlive
    /\ wpc = "insert"
    /\ \/ /\ \A r \in rows : r.key # Key[item]
          /\ rows' = rows \cup {[key |-> Key[item], item |-> item, path |-> path]}
          /\ UNCHANGED <<files, mishap>>
       \/ /\ files' = files \ {path}
          /\ UNCHANGED <<rows, mishap>>
       \/ /\ mishap' = TRUE
          /\ UNCHANGED <<rows, files>>
    /\ Settled
    /\ UNCHANGED <<phase, boots, offer, queue, clock, bad, report, accepted, offered>>

Worker == Receive \/ WriteFile \/ Marshal \/ InsertRow

-----------------------------------------------------------------------------
Next ==
    \/ Startup
    \/ BeginClose
    \/ EndClose
    \/ Exit
    \/ Crash
    \/ \E c \in Callers :
          \/ \E i \in Items : CheckInstance(c, i)
          \/ Send(c)
          \/ SendOnClosed(c)
    \/ Worker

\* The worker goroutine and Close run as long as the process lives.
Spec == Init /\ [][Next]_vars /\ WF_vars(Worker) /\ WF_vars(EndClose)

-----------------------------------------------------------------------------
(* Properties.                                                             *)

\* Every row of the catalog names a file that is there and can be read: the
\* file is written before its row, and no crash or failure comes between.
CatalogBacked == Paths \subseteq files \ bad

\* The recording times in the catalog follow the order in which InsertAsync
\* accepted the inserts.
RecordedInOrder ==
    \A j, k \in DOMAIN accepted : \A r, s \in rows :
        j < k /\ r.item = accepted[j] /\ s.item = accepted[k] => r.path < s.path

\* As long as the hub has not crashed and no write, encoding or removal has
\* failed half way, the store holds the files of the catalog and the one being
\* inserted: a refused row does not leave its file behind.
NoOrphanWithoutMishap == mishap \/ files \subseteq Paths \cup {path}

\* What Startup's Validate finds in the store of the sessions before: never a
\* row without a readable file, and, unless there was a mishap, nothing at all.
\* An orderly Close leaves a healthy store for the next start.
HealthyAtStartup ==
    /\ report.missing = {} /\ report.bad = {}
    /\ mishap \/ report.orphan = {}

\* The database implements its abstract specification: what InsertAsync
\* accepted is pending until it is stored or has failed, and it is settled
\* unless the process ends first.
Promise == INSTANCE AcceptedInserts WITH
    session <- IF phase = "closing" THEN "open" ELSE phase,
    pending <- {queue[k] : k \in DOMAIN queue} \cup ({item} \ {NoItem}),
    stored  <- {r.item : r \in rows}

KeepsPromise == Promise!Spec

\* Close terminates: the worker drains the queue and leaves its loop.
CloseTerminates == phase = "closing" ~> phase # "closing"

=============================================================================
