------------------------- MODULE MeasurementDBProofs -------------------------
(***************************************************************************)
(* The consistency of catalog and file store, the draining Close, the      *)
(* order of the rows and the refinement of AcceptedInserts, for any number *)
(* of callers, inserts, queue places and restarts.                         *)
(***************************************************************************)
EXTENDS MeasurementDB, Integers, TLAPS

\* Where the worker is and what it has in its hands.  From the write of the
\* file to the end of the insert, the file is readable and in no row.
InHand ==
    /\ wpc = "receive" <=> item = NoItem
    /\ wpc \in {"receive", "write"} => path = 0
    /\ wpc \in {"marshal", "insert"} => path \in files \ bad /\ path \notin Paths

\* Every file, bad or not, and every row was written by now, and not at time 0.
Past ==
    /\ files \subseteq 1..clock
    /\ bad \subseteq 1..clock
    /\ Paths \subseteq 1..clock

\* Without a process, and after Close, nothing is queued or in hand.
Quiet == phase \in {"down", "closed"} => queue = <<>> /\ item = NoItem

IInv ==
    /\ TypeOK
    /\ InHand
    /\ Past
    /\ Quiet
    /\ CatalogBacked
    /\ NoOrphanWithoutMishap
    /\ HealthyAtStartup

-----------------------------------------------------------------------------
\* The first start finds an empty store.
LEMMA InitIInv == Init => IInv
<1> SUFFICES ASSUME Init PROVE IInv
  OBVIOUS
<1>1. TypeOK
  <2> USE DEF Init
  <2>1. phase \in Phases /\ boots \in Nat /\ wpc \in {"receive", "write", "marshal", "insert"}
        /\ path \in Nat /\ clock \in Nat /\ mishap \in BOOLEAN
    BY DEF Phases
  <2>2. offer \in [Callers -> Items \cup {NoItem}] /\ item \in Items \cup {NoItem}
    OBVIOUS
  <2>3. queue \in Seq(Items) /\ Len(queue) <= Capacity /\ accepted \in Seq(Items)
    BY CapacityAssumption
  <2>4. files \in SUBSET Nat /\ bad \in SUBSET Nat /\ rows \in SUBSET Row
        /\ offered \in SUBSET Items
    OBVIOUS
  <2>5. report \in [missing : SUBSET Nat, orphan : SUBSET Nat, bad : SUBSET Nat]
    OBVIOUS
  <2> QED
    BY <2>1, <2>2, <2>3, <2>4, <2>5 DEF TypeOK
<1>2. InHand /\ Past /\ Quiet /\ CatalogBacked /\ NoOrphanWithoutMishap /\ HealthyAtStartup
  BY DEF Init, InHand, Past, Quiet, CatalogBacked, NoOrphanWithoutMishap, HealthyAtStartup,
         Paths
<1> QED
  BY <1>1, <1>2 DEF IInv

\* Startup validates the store it finds.
LEMMA StartupIInv == IInv /\ Startup => IInv'
<1> SUFFICES ASSUME IInv, Startup PROVE IInv'
  OBVIOUS
<1> USE DEF IInv, Startup, volatile, disk, history
<1>1. path = 0
  BY DEF Quiet, InHand
<1>2. TypeOK'
  <2>1. Paths \in SUBSET Nat
    BY DEF TypeOK, Paths, Row
  <2>2. report' \in [missing : SUBSET Nat, orphan : SUBSET Nat, bad : SUBSET Nat]
    BY <2>1 DEF TypeOK, Validate
  <2> QED
    BY <2>2 DEF TypeOK, Phases
<1>3. InHand' /\ Past' /\ CatalogBacked' /\ NoOrphanWithoutMishap'
  BY DEF InHand, Past, CatalogBacked, NoOrphanWithoutMishap, Paths
<1>4. Quiet'
  BY DEF Quiet
<1>5. HealthyAtStartup'
  <2>1. mishap \/ files \subseteq Paths
    BY <1>1 DEF NoOrphanWithoutMishap, Past
  <2> QED
    BY <2>1 DEF HealthyAtStartup, Validate, CatalogBacked
<1> QED
  BY <1>2, <1>3, <1>4, <1>5

\* Close and its end, and InsertAsync up to the send, touch neither the worker
\* nor the store.
LEMMA CallersIInv ==
    ASSUME IInv,
           \/ BeginClose
           \/ EndClose
           \/ \E c \in Callers : Send(c) \/ \E i \in Items : CheckInstance(c, i)
    PROVE  IInv'
<1> USE DEF IInv
<1>1. CASE BeginClose \/ EndClose
  <2> USE <1>1 DEF BeginClose, EndClose, volatile, disk, history
  <2>1. TypeOK'
    BY DEF TypeOK, Phases
  <2>2. InHand' /\ Past' /\ Quiet'
    BY DEF InHand, Past, Quiet, Paths
  <2>3. CatalogBacked' /\ NoOrphanWithoutMishap' /\ HealthyAtStartup'
    BY DEF CatalogBacked, NoOrphanWithoutMishap, HealthyAtStartup, Paths
  <2> QED
    BY <2>1, <2>2, <2>3
<1>2. ASSUME NEW c \in Callers, Send(c)
      PROVE  IInv'
  <2> USE <1>2 DEF Send, disk
  <2>1. TypeOK'
    <3>1. offer[c] \in Items
      BY DEF TypeOK
    <3>2. queue' \in Seq(Items) /\ Len(queue') <= Capacity /\ accepted' \in Seq(Items)
      <4>1. queue \in Seq(Items) /\ accepted \in Seq(Items) /\ Len(queue) <= Capacity
        BY DEF TypeOK
      <4>2. CASE UNCHANGED <<queue, accepted>>
        BY <4>1, <4>2
      <4>3. CASE /\ Len(queue) < Capacity
                 /\ queue' = Append(queue, offer[c])
                 /\ accepted' = Append(accepted, offer[c])
        BY <3>1, <4>1, <4>3, CapacityAssumption
      <4> QED
        BY <4>2, <4>3
    <3>3. offer' \in [Callers -> Items \cup {NoItem}]
      BY DEF TypeOK
    <3> QED
      BY <3>2, <3>3 DEF TypeOK
  <2>2. InHand' /\ Past' /\ Quiet'
    BY DEF InHand, Past, Quiet, Paths
  <2>3. CatalogBacked' /\ NoOrphanWithoutMishap' /\ HealthyAtStartup'
    BY DEF CatalogBacked, NoOrphanWithoutMishap, HealthyAtStartup, Paths
  <2> QED
    BY <2>1, <2>2, <2>3
<1>3. ASSUME NEW c \in Callers, NEW i \in Items, CheckInstance(c, i)
      PROVE  IInv'
  <2> USE <1>3 DEF CheckInstance, disk
  <2>1. TypeOK'
    BY DEF TypeOK
  <2>2. InHand' /\ Past' /\ Quiet'
    BY DEF InHand, Past, Quiet, Paths
  <2>3. CatalogBacked' /\ NoOrphanWithoutMishap' /\ HealthyAtStartup'
    BY DEF CatalogBacked, NoOrphanWithoutMishap, HealthyAtStartup, Paths
  <2> QED
    BY <2>1, <2>2, <2>3
<1> QED
  BY <1>1, <1>2, <1>3

\* The process ends, at any moment.
LEMMA EndOfProcessIInv ==
    ASSUME IInv, Exit \/ Crash
    PROVE  IInv'
<1>1. NoInFlight /\ phase' = "down" /\ report' = report /\ boots' = boots
      /\ accepted' = accepted /\ offered' = offered /\ rows' = rows
  BY DEF Exit, Crash, history, disk
<1>2. /\ clock' \in Nat /\ clock' >= clock
      /\ files' \subseteq files \cup {clock'} /\ files \subseteq files'
      /\ bad' \subseteq bad \cup {clock'}
      /\ clock' = clock => files' = files /\ bad' = bad
  BY DEF Exit, Crash, disk, IInv, TypeOK
<1>3. mishap' \in BOOLEAN /\ (mishap' \/ (Exit /\ mishap' = mishap /\ files' = files))
  BY DEF Exit, Crash, disk, history, IInv, TypeOK
<1>4. TypeOK'
  BY <1>1, <1>2, <1>3, CapacityAssumption DEF IInv, TypeOK, NoInFlight, Phases
<1>5. InHand' /\ Quiet'
  BY <1>1 DEF IInv, InHand, Quiet, NoInFlight
<1>6. Past' /\ CatalogBacked'
  <2>1. Paths' = Paths
    BY <1>1 DEF Paths
  <2>2. CASE clock' = clock
    BY <1>2, <2>1, <2>2 DEF IInv, Past, CatalogBacked
  <2>3. CASE clock' > clock
    <3>1. clock \in Nat /\ Paths \subseteq files \ bad /\ Paths \subseteq 1..clock
          /\ files \subseteq 1..clock /\ bad \subseteq 1..clock
      BY DEF IInv, TypeOK, CatalogBacked, Past
    <3>2. clock' \notin Paths /\ 1..clock \subseteq 1..clock' /\ clock' \in 1..clock'
      BY <1>2, <2>3, <3>1
    <3> QED
      BY <1>2, <2>1, <3>1, <3>2 DEF Past, CatalogBacked
  <2> QED
    BY <1>2, <2>2, <2>3 DEF IInv, TypeOK
<1>7. NoOrphanWithoutMishap'
  <2>1. Exit => path = 0
    BY DEF Exit, IInv, Quiet, InHand
  <2> QED
    BY <1>1, <1>3, <2>1 DEF IInv, NoOrphanWithoutMishap, Paths, NoInFlight
<1>8. HealthyAtStartup'
  BY <1>1, <1>3 DEF IInv, HealthyAtStartup
<1> QED
  BY <1>4, <1>5, <1>6, <1>7, <1>8 DEF IInv

\* The worker takes the oldest insert.
LEMMA ReceiveIInv == IInv /\ Receive => IInv'
<1> SUFFICES ASSUME IInv, Receive PROVE IInv'
  OBVIOUS
<1> USE DEF IInv, Receive, disk, history
<1>1. item' \in Items /\ queue' \in Seq(Items) /\ Len(queue') <= Capacity
  <2>1. queue \in Seq(Items) /\ Len(queue) <= Capacity /\ queue # <<>>
    BY DEF TypeOK
  <2> QED
    BY <2>1, CapacityAssumption
<1>2. TypeOK'
  BY <1>1 DEF TypeOK
<1>3. InHand'
  BY <1>1, ItemAssumption DEF InHand, Paths
<1>4. Past' /\ Quiet'
  BY DEF Past, Quiet, Paths, WorkerAlive
<1>5. CatalogBacked' /\ NoOrphanWithoutMishap' /\ HealthyAtStartup'
  BY DEF CatalogBacked, NoOrphanWithoutMishap, HealthyAtStartup, Paths
<1> QED
  BY <1>2, <1>3, <1>4, <1>5

\* The file has a name of its own, so whatever becomes of it, no row is hurt.
LEMMA WriteFileIInv == IInv /\ WriteFile => IInv'
<1> SUFFICES ASSUME IInv, WriteFile PROVE IInv'
  OBVIOUS
<1>1. /\ clock \in Nat /\ clock' = clock + 1 /\ rows' = rows /\ report' = report
      /\ files \subseteq 1..clock /\ Paths \subseteq 1..clock /\ Paths \subseteq files \ bad
      /\ Paths' = Paths /\ phase' = phase /\ queue' = queue /\ path = 0
      /\ phase \in {"open", "closing"}
  BY DEF IInv, TypeOK, WriteFile, Past, CatalogBacked, Paths, InHand, WorkerAlive
<1>2. CASE /\ files' = files \cup {clock'}
           /\ path' = clock'
           /\ wpc' = "marshal"
           /\ UNCHANGED <<item, bad, mishap>>
  <2>1. TypeOK'
    BY <1>1, <1>2 DEF IInv, TypeOK, WriteFile
  <2>2. clock' \notin bad
    BY <1>1 DEF IInv, Past
  <2>3. InHand' /\ Past' /\ Quiet' /\ CatalogBacked'
    BY <1>1, <1>2, <2>2 DEF IInv, InHand, Past, Quiet, CatalogBacked, WriteFile
  <2>4. NoOrphanWithoutMishap' /\ HealthyAtStartup'
    BY <1>1, <1>2 DEF IInv, NoOrphanWithoutMishap, HealthyAtStartup
  <2> QED
    BY <2>1, <2>3, <2>4 DEF IInv
<1>3. CASE Settled /\ UNCHANGED <<files, bad, mishap>>
  <2>1. TypeOK'
    BY <1>1, <1>3 DEF IInv, TypeOK, WriteFile, Settled
  <2>2. InHand' /\ Past' /\ Quiet' /\ CatalogBacked'
    BY <1>1, <1>3 DEF IInv, InHand, Past, Quiet, CatalogBacked, Settled
  <2>3. NoOrphanWithoutMishap' /\ HealthyAtStartup'
    BY <1>1, <1>3 DEF IInv, NoOrphanWithoutMishap, HealthyAtStartup, Settled
  <2> QED
    BY <2>1, <2>2, <2>3 DEF IInv
<1>4. CASE /\ Settled
           /\ files' = files \cup {clock'}
           /\ bad' = bad \cup {clock'}
           /\ mishap' = TRUE
  <2>1. TypeOK'
    BY <1>1, <1>4 DEF IInv, TypeOK, WriteFile, Settled
  <2>2. InHand' /\ Past' /\ Quiet' /\ CatalogBacked'
    BY <1>1, <1>4 DEF IInv, InHand, Past, Quiet, CatalogBacked, Settled
  <2>3. NoOrphanWithoutMishap' /\ HealthyAtStartup'
    BY <1>1, <1>4 DEF IInv, NoOrphanWithoutMishap, HealthyAtStartup
  <2> QED
    BY <2>1, <2>2, <2>3 DEF IInv
<1> QED
  BY <1>2, <1>3, <1>4 DEF WriteFile

\* Marshalling touches no file; an error leaves one behind and is a mishap.
LEMMA MarshalIInv == IInv /\ Marshal => IInv'
<1> SUFFICES ASSUME IInv, Marshal PROVE IInv'
  OBVIOUS
<1> USE DEF IInv, Marshal, Settled, disk
<1>1. TypeOK'
  <2>1. mishap' \in BOOLEAN
    BY DEF TypeOK
  <2>2. item' \in Items \cup {NoItem} /\ path' \in Nat
        /\ wpc' \in {"receive", "write", "marshal", "insert"}
    BY DEF TypeOK
  <2> QED
    BY <2>1, <2>2 DEF TypeOK
<1>2. InHand' /\ Past' /\ Quiet' /\ CatalogBacked'
  BY DEF InHand, Past, Quiet, CatalogBacked, Paths, WorkerAlive
<1>3. NoOrphanWithoutMishap' /\ HealthyAtStartup'
  BY DEF NoOrphanWithoutMishap, HealthyAtStartup, Paths
<1> QED
  BY <1>1, <1>2, <1>3

\* The row is inserted, or its file is removed, or that failed too.
LEMMA InsertRowIInv == IInv /\ InsertRow => IInv'
<1> SUFFICES ASSUME IInv, InsertRow PROVE IInv'
  OBVIOUS
<1>1. /\ path \in files \ bad /\ path \notin Paths /\ path \in Nat /\ item \in Items
      /\ phase' = phase /\ queue' = queue /\ phase \in {"open", "closing"}
      /\ Settled /\ UNCHANGED <<boots, offer, clock, bad, report, accepted, offered>>
  BY DEF IInv, TypeOK, InHand, InsertRow, WorkerAlive
<1>2. CASE /\ rows' = rows \cup {[key |-> Key[item], item |-> item, path |-> path]}
           /\ UNCHANGED <<files, mishap>>
  <2> DEFINE r == [key |-> Key[item], item |-> item, path |-> path]
  <2>1. Paths' = Paths \cup {path}
    <3>1. r.path = path
      OBVIOUS
    <3>2. rows' = rows \cup {r}
      BY <1>2
    <3> HIDE DEF r
    <3>3. ASSUME NEW x PROVE x \in Paths' <=> x \in Paths \cup {path}
      BY <3>1, <3>2 DEF Paths
    <3> QED
      BY <3>3
  <2>2. rows' \in SUBSET Row
    BY <1>1, <1>2, ItemAssumption DEF IInv, TypeOK, Row
  <2>3. TypeOK'
    BY <1>1, <1>2, <2>2 DEF IInv, TypeOK, Settled
  <2>4. InHand' /\ Past' /\ Quiet' /\ CatalogBacked'
    BY <1>1, <1>2, <2>1 DEF IInv, InHand, Past, Quiet, CatalogBacked, Settled
  <2>5. NoOrphanWithoutMishap' /\ HealthyAtStartup'
    BY <1>1, <1>2, <2>1 DEF IInv, NoOrphanWithoutMishap, HealthyAtStartup
  <2> QED
    BY <2>3, <2>4, <2>5 DEF IInv
<1>3. CASE files' = files \ {path} /\ UNCHANGED <<rows, mishap>>
  <2>1. Paths' = Paths
    BY <1>3 DEF Paths
  <2>2. TypeOK'
    BY <1>1, <1>3 DEF IInv, TypeOK, Settled
  <2>3. InHand' /\ Past' /\ Quiet' /\ CatalogBacked'
    BY <1>1, <1>3, <2>1 DEF IInv, InHand, Past, Quiet, CatalogBacked, Settled
  <2>4. NoOrphanWithoutMishap' /\ HealthyAtStartup'
    BY <1>1, <1>3, <2>1 DEF IInv, NoOrphanWithoutMishap, HealthyAtStartup
  <2> QED
    BY <2>2, <2>3, <2>4 DEF IInv
<1>4. CASE mishap' = TRUE /\ UNCHANGED <<rows, files>>
  <2>1. Paths' = Paths
    BY <1>4 DEF Paths
  <2>2. TypeOK'
    BY <1>1, <1>4 DEF IInv, TypeOK, Settled
  <2>3. InHand' /\ Past' /\ Quiet' /\ CatalogBacked'
    BY <1>1, <1>4, <2>1 DEF IInv, InHand, Past, Quiet, CatalogBacked, Settled
  <2>4. NoOrphanWithoutMishap' /\ HealthyAtStartup'
    BY <1>1, <1>4 DEF IInv, NoOrphanWithoutMishap, HealthyAtStartup
  <2> QED
    BY <2>2, <2>3, <2>4 DEF IInv
<1> QED
  BY <1>2, <1>3, <1>4 DEF InsertRow

\* Every step keeps the invariant.
LEMMA NextIInv == IInv /\ [Next]_vars => IInv'
<1> SUFFICES ASSUME IInv, [Next]_vars PROVE IInv'
  OBVIOUS
<1>1. CASE Startup
  BY <1>1, StartupIInv
<1>2. CASE BeginClose \/ EndClose
  BY <1>2, CallersIInv
<1>3. CASE Exit \/ Crash
  BY <1>3, EndOfProcessIInv
<1>4. ASSUME NEW c \in Callers,
             (\E i \in Items : CheckInstance(c, i)) \/ Send(c) \/ SendOnClosed(c)
      PROVE  IInv'
  BY <1>4, CallersIInv, EndOfProcessIInv DEF SendOnClosed
<1>5. CASE Worker
  BY <1>5, ReceiveIInv, WriteFileIInv, MarshalIInv, InsertRowIInv DEF Worker
<1>6. CASE UNCHANGED vars
  BY <1>6 DEF IInv, TypeOK, InHand, Past, Quiet, CatalogBacked, NoOrphanWithoutMishap,
              HealthyAtStartup, Paths, vars, volatile, disk, history
<1> QED
  BY <1>1, <1>2, <1>3, <1>4, <1>5, <1>6 DEF Next

\* The inductive invariant holds in every reachable state.
THEOREM Invariance == Spec => []IInv
  BY InitIInv, NextIInv, PTL DEF Spec

-----------------------------------------------------------------------------
\* Types, and a queue that never exceeds its capacity.
THEOREM TypeCorrect == Spec => []TypeOK
<1>1. IInv => TypeOK
  BY DEF IInv
<1> QED
  BY <1>1, Invariance, PTL

\* No interleaving of inserts, failures, crashes and restarts leaves a catalog
\* row without a readable file.
THEOREM CatalogIsBacked == Spec => []CatalogBacked
<1>1. IInv => CatalogBacked
  BY DEF IInv
<1> QED
  BY <1>1, Invariance, PTL

\* A refused row leaves no file behind.
THEOREM RefusedRowLeavesNoFile == Spec => []NoOrphanWithoutMishap
<1>1. IInv => NoOrphanWithoutMishap
  BY DEF IInv
<1> QED
  BY <1>1, Invariance, PTL

\* An orderly shutdown leaves a healthy store for the next start.
THEOREM StoreIsHealthy == Spec => []HealthyAtStartup
<1>1. IInv => HealthyAtStartup
  BY DEF IInv
<1> QED
  BY <1>1, Invariance, PTL

-----------------------------------------------------------------------------
(* The database records its inserts in the order InsertAsync accepted      *)
(* them, and every step of it is a step of AcceptedInserts or a stutter.   *)
(* Both rest on one picture: what is in flight (the worker's insert, then  *)
(* the queue) is always the tail of the history of accepted inserts.       *)

\* How many of the accepted inserts have left the queue, and how many of those
\* are stored, failed or lost.
Taken == Len(accepted) - Len(queue)
Done == IF item = NoItem THEN Taken ELSE Taken - 1

\* The queue holds the last inserts accepted, and the worker the one before.
InFlight ==
    /\ Done \in Nat
    /\ \A k \in 1..Len(queue) : queue[k] = accepted[Taken + k]
    /\ item # NoItem => item = accepted[Taken]

\* An insert is offered by one caller, once, and accepted at most once.
Once ==
    /\ \A c \in Callers : offer[c] # NoItem =>
          /\ offer[c] \in offered
          /\ \A k \in 1..Len(accepted) : accepted[k] # offer[c]
          /\ \A d \in Callers \ {c} : offer[d] # offer[c]
    /\ \A k \in 1..Len(accepted) : accepted[k] \in offered
    /\ \A j, k \in 1..Len(accepted) : accepted[j] = accepted[k] => j = k

\* Rows are of inserts the worker is done with, and the file it is inserting
\* is the latest.
Recorded ==
    /\ \A r \in rows : \E k \in 1..Done : r.item = accepted[k]
    /\ wpc \in {"marshal", "insert"} => path = clock

OInv ==
    /\ InFlight
    /\ Once
    /\ Recorded
    /\ RecordedInOrder

-----------------------------------------------------------------------------
(* The order.                                                              *)

\* Nothing is accepted when the store is opened for the first time.
LEMMA InitOInv == Init => OInv
<1> SUFFICES ASSUME Init PROVE OInv
  OBVIOUS
<1> USE DEF Init
<1>1. Len(queue) = 0 /\ Len(accepted) = 0 /\ Taken = 0 /\ Done = 0
  BY DEF Taken, Done
<1>2. InFlight
  BY <1>1 DEF InFlight
<1>3. Once
  BY <1>1 DEF Once
<1>4. Recorded /\ RecordedInOrder
  BY DEF Recorded, RecordedInOrder
<1> QED
  BY <1>2, <1>3, <1>4 DEF OInv

\* What the arguments below need of the types.
LEMMA Counts ==
    ASSUME IInv, OInv
    PROVE  /\ queue \in Seq(Items) /\ accepted \in Seq(Items)
           /\ Len(queue) \in Nat /\ Len(accepted) \in Nat
           /\ DOMAIN accepted = 1..Len(accepted) /\ DOMAIN queue = 1..Len(queue)
           /\ Taken \in Nat /\ Done \in Nat /\ Taken = Len(accepted) - Len(queue)
           /\ item = NoItem => Done = Taken
           /\ item # NoItem => Done = Taken - 1
           /\ Done <= Len(accepted) /\ Taken <= Len(accepted)
<1>1. queue \in Seq(Items) /\ accepted \in Seq(Items)
  BY DEF IInv, TypeOK
<1>2. Len(queue) \in Nat /\ Len(accepted) \in Nat
      /\ DOMAIN accepted = 1..Len(accepted) /\ DOMAIN queue = 1..Len(queue)
  BY <1>1
<1>3. Done \in Nat
  BY DEF OInv, InFlight
<1>4. Taken \in Int /\ Taken = Len(accepted) - Len(queue)
  BY <1>2 DEF Taken
<1>5. (item = NoItem => Done = Taken) /\ (item # NoItem => Done = Taken - 1)
  BY DEF Done
<1>6. Taken \in Nat /\ Done <= Taken /\ Taken <= Len(accepted)
  <2>1. Done = Taken \/ Done = Taken - 1
    BY <1>5
  <2>2. Taken \in Nat /\ Done <= Taken
    BY <1>3, <1>4, <2>1
  <2> QED
    BY <1>2, <1>4, <2>2
<1>7. Done <= Len(accepted)
  BY <1>2, <1>3, <1>6
<1> QED
  BY <1>1, <1>2, <1>3, <1>4, <1>5, <1>6, <1>7

\* A step that leaves the line of inserts and the catalog alone.
LEMMA SameLineOInv ==
    ASSUME OInv, UNCHANGED <<offer, queue, wpc, item, path, clock, rows, accepted, offered>>
    PROVE  OInv'
  BY DEF OInv, InFlight, Once, Recorded, RecordedInOrder, Taken, Done

\* A caller offers an insert that nobody has offered before.
LEMMA CheckInstanceOInv ==
    ASSUME IInv, OInv, NEW c \in Callers, NEW i \in Items, CheckInstance(c, i)
    PROVE  OInv'
<1> USE DEF CheckInstance, disk
<1>1. InFlight' /\ Recorded' /\ RecordedInOrder'
  BY DEF OInv, InFlight, Recorded, RecordedInOrder, Taken, Done
<1>2. offer \in [Callers -> Items \cup {NoItem}]
  BY DEF IInv, TypeOK
<1>3. \A d \in Callers : offer'[d] # NoItem =>
         \/ d = c /\ offer'[d] = i
         \/ d # c /\ offer'[d] = offer[d]
  BY <1>2
<1>4. Once'
  BY <1>3 DEF OInv, Once
<1> QED
  BY <1>1, <1>4 DEF OInv

\* An accepted insert joins the end of the queue and the end of the history.
LEMMA SendOInv ==
    ASSUME IInv, OInv, NEW c \in Callers, Send(c)
    PROVE  OInv'
<1> USE DEF Send, disk
<1>1. offer \in [Callers -> Items \cup {NoItem}] /\ offer[c] \in Items
  BY DEF IInv, TypeOK
<1>2. offer'[c] = NoItem /\ \A d \in Callers \ {c} : offer'[d] = offer[d]
  BY <1>1
<1>3. CASE UNCHANGED <<queue, accepted>>
  <2>1. InFlight' /\ Recorded' /\ RecordedInOrder'
    BY <1>3 DEF OInv, InFlight, Recorded, RecordedInOrder, Taken, Done
  <2>2. Once'
    BY <1>2, <1>3 DEF OInv, Once
  <2> QED
    BY <2>1, <2>2 DEF OInv
<1>4. CASE queue' = Append(queue, offer[c]) /\ accepted' = Append(accepted, offer[c])
  <2> DEFINE n == Len(accepted)
             m == Len(queue)
             x == offer[c]
  <2>1. /\ n \in Nat /\ m \in Nat /\ Len(accepted') = n + 1 /\ Len(queue') = m + 1
        /\ accepted'[n + 1] = x /\ queue'[m + 1] = x
        /\ \A k \in 1..n : accepted'[k] = accepted[k]
        /\ \A k \in 1..m : queue'[k] = queue[k]
        /\ DOMAIN accepted' = 1..(n + 1) /\ DOMAIN accepted = 1..n
    <3>1. queue \in Seq(Items) /\ accepted \in Seq(Items) /\ x \in Items
      BY <1>1, Counts
    <3> HIDE DEF x
    <3> QED
      BY <1>4, <3>1 DEF x
  <2>2. Taken' = Taken /\ Done' = Done /\ Taken \in Nat /\ Done \in Nat /\ Done <= n
        /\ Taken <= n /\ Taken = n - m
    <3>1. Taken' = Taken
      BY <2>1, Counts DEF Taken
    <3>2. Done' = Done
      BY <3>1 DEF Done
    <3> QED
      BY <3>1, <3>2, Counts
  <2>3. /\ \A k \in 1..n : accepted[k] # x
        /\ x \in offered
        /\ \A d \in Callers \ {c} : offer[d] # x
    BY DEF OInv, Once
  <2>4. InFlight'
    <3>1. ASSUME NEW k \in 1..(m + 1) PROVE queue'[k] = accepted'[Taken + k]
      <4>1. CASE k = m + 1
        BY <2>1, <2>2, <4>1
      <4>2. CASE k \in 1..m
        <5>1. queue[k] = accepted[Taken + k]
          BY <4>2 DEF OInv, InFlight
        <5>2. Taken + k \in 1..n
          BY <2>1, <2>2, <4>2
        <5> QED
          BY <2>1, <4>2, <5>1, <5>2
      <4> QED
        BY <2>1, <4>1, <4>2
    <3>2. item # NoItem => item = accepted[Taken] /\ Taken \in 1..n
      BY <2>2, Counts DEF OInv, InFlight
    <3> QED
      BY <2>1, <2>2, <3>1, <3>2 DEF InFlight
  <2>5. Once'
    <3> HIDE DEF n, x
    <3>1. ASSUME NEW d \in Callers, offer'[d] # NoItem
          PROVE  /\ offer'[d] \in offered'
                 /\ \A k \in 1..(n + 1) : accepted'[k] # offer'[d]
                 /\ \A e \in Callers \ {d} : offer'[e] # offer'[d]
      BY <1>2, <2>1, <2>3, <3>1 DEF OInv, Once, n, x
    <3>2. ASSUME NEW k \in 1..(n + 1) PROVE accepted'[k] \in offered'
      BY <2>1, <2>3, <3>2 DEF OInv, Once, n, x
    <3>3. ASSUME NEW j \in 1..(n + 1), NEW k \in 1..(n + 1), accepted'[j] = accepted'[k]
          PROVE  j = k
      BY <2>1, <2>3, <3>3 DEF OInv, Once, n, x
    <3> QED
      BY <2>1, <3>1, <3>2, <3>3 DEF Once
  <2>6. Recorded'
    <3>1. \A k \in 1..Done : k \in 1..n
      BY <2>1, <2>2
    <3> QED
      BY <2>1, <2>2, <3>1 DEF OInv, Recorded
  <2>7. RecordedInOrder'
    <3>1. ASSUME NEW r \in rows PROVE r.item # x
      BY <2>1, <2>2, <2>3 DEF OInv, Recorded
    <3>2. ASSUME NEW j \in 1..(n + 1), NEW k \in 1..(n + 1), NEW r \in rows, NEW s \in rows,
                 j < k, r.item = accepted'[j], s.item = accepted'[k]
          PROVE  r.path < s.path
      <4>1. j \in 1..n /\ k \in 1..n
        BY <2>1, <3>1, <3>2
      <4> QED
        BY <2>1, <3>2, <4>1 DEF OInv, RecordedInOrder
    <3> QED
      BY <2>1, <3>2 DEF RecordedInOrder
  <2> QED
    BY <2>4, <2>5, <2>6, <2>7 DEF OInv
<1> QED
  BY <1>3, <1>4

\* The end of the process loses what is in flight: it counts as done.
LEMMA EndOfProcessOInv ==
    ASSUME IInv, OInv, Exit \/ Crash
    PROVE  OInv'
<1>1. NoInFlight /\ UNCHANGED <<accepted, offered, rows>>
  BY DEF Exit, Crash, history, disk
<1>2. Taken' = Len(accepted) /\ Done' = Len(accepted) /\ Len(accepted) \in Nat
      /\ Done <= Len(accepted) /\ Done \in Nat
  <2>1. Len(queue') = 0 /\ item' = NoItem
    BY <1>1 DEF NoInFlight
  <2>2. Taken' = Len(accepted) /\ Len(accepted) \in Nat
    BY <1>1, <2>1, Counts DEF Taken
  <2> QED
    BY <2>1, <2>2, Counts DEF Done
<1>3. InFlight'
  BY <1>1, <1>2 DEF InFlight, NoInFlight
<1>4. Once'
  <2>1. \A c \in Callers : offer'[c] = NoItem
    BY <1>1 DEF NoInFlight
  <2> QED
    BY <1>1, <2>1 DEF OInv, Once
<1>5. Recorded'
  <2>1. 1..Done \subseteq 1..Done'
    BY <1>2
  <2> QED
    BY <1>1, <2>1 DEF OInv, Recorded, NoInFlight
<1>6. RecordedInOrder'
  BY <1>1 DEF OInv, RecordedInOrder
<1> QED
  BY <1>3, <1>4, <1>5, <1>6 DEF OInv

\* The worker takes the head of the queue.
LEMMA ReceiveOInv ==
    ASSUME IInv, OInv, Receive
    PROVE  OInv'
<1> USE DEF Receive, disk, history
<1>1. item = NoItem /\ Done = Taken
  BY Counts DEF IInv, InHand
<1>2. /\ queue # <<>> /\ Len(queue) \in Nat \ {0} /\ Len(queue') = Len(queue) - 1
      /\ item' = queue[1] /\ item' \in Items
      /\ \A k \in 1..Len(queue') : queue'[k] = queue[k + 1]
  BY Counts
<1>3. item' # NoItem /\ Taken' = Taken + 1 /\ Done' = Done /\ Done \in Nat /\ Taken \in Nat
  <2>1. item' # NoItem
    BY <1>2, ItemAssumption
  <2>2. Taken' = Taken + 1 /\ Taken \in Nat
    BY <1>2, Counts DEF Taken
  <2> QED
    BY <1>1, <2>1, <2>2, Counts DEF Done
<1>4. InFlight'
  <2>1. ASSUME NEW k \in 1..Len(queue') PROVE queue'[k] = accepted[Taken' + k]
    <3>1. k + 1 \in 1..Len(queue) /\ Taken + (k + 1) = Taken' + k
      BY <1>2, <1>3
    <3>2. queue[k + 1] = accepted[Taken + (k + 1)]
      BY <3>1 DEF OInv, InFlight
    <3> QED
      BY <1>2, <3>1, <3>2
  <2>2. item' = accepted[Taken']
    BY <1>2, <1>3 DEF OInv, InFlight
  <2> QED
    BY <1>3, <2>1, <2>2 DEF InFlight
<1>5. Once' /\ Recorded' /\ RecordedInOrder'
  BY <1>3 DEF OInv, Once, Recorded, RecordedInOrder
<1> QED
  BY <1>4, <1>5 DEF OInv

\* The worker is done with its insert without having stored it.
LEMMA SettledOInv ==
    ASSUME IInv, OInv, item # NoItem, Settled,
           UNCHANGED <<offer, queue, rows, accepted, offered>>
    PROVE  OInv'
<1>1. Taken' = Taken /\ Done' = Done + 1 /\ Done \in Nat
  <2>1. Taken' = Taken
    BY DEF Taken
  <2>2. Done = Taken - 1 /\ Done \in Nat /\ Taken \in Nat
    BY Counts
  <2> QED
    BY <2>1, <2>2 DEF Done, Settled
<1>2. InFlight'
  BY <1>1 DEF OInv, InFlight, Settled
<1>3. Recorded'
  <2>1. 1..Done \subseteq 1..Done'
    BY <1>1
  <2> QED
    BY <2>1 DEF OInv, Recorded, Settled
<1>4. Once' /\ RecordedInOrder'
  BY DEF OInv, Once, RecordedInOrder
<1> QED
  BY <1>2, <1>3, <1>4 DEF OInv

\* The new file is the latest.
LEMMA WriteFileOInv ==
    ASSUME IInv, OInv, WriteFile
    PROVE  OInv'
<1>1. item # NoItem /\ UNCHANGED <<offer, queue, rows, accepted, offered>>
  BY DEF IInv, InHand, WriteFile
<1>2. CASE path' = clock' /\ wpc' = "marshal" /\ item' = item
  BY <1>1, <1>2 DEF OInv, InFlight, Once, Recorded, RecordedInOrder, Taken, Done
<1>3. CASE Settled
  BY <1>1, <1>3, SettledOInv
<1> QED
  BY <1>2, <1>3 DEF WriteFile

\* Marshalling goes on with the same file, or ends the insert.
LEMMA MarshalOInv ==
    ASSUME IInv, OInv, Marshal
    PROVE  OInv'
<1>1. item # NoItem /\ UNCHANGED <<offer, queue, rows, accepted, offered, clock>>
  BY DEF IInv, InHand, Marshal, disk
<1>2. CASE wpc' = "insert" /\ UNCHANGED <<item, path>>
  BY <1>1, <1>2 DEF OInv, InFlight, Once, Recorded, RecordedInOrder, Taken, Done, Marshal
<1>3. CASE Settled
  BY <1>1, <1>3, SettledOInv
<1> QED
  BY <1>2, <1>3 DEF Marshal

\* The new row is of the insert after all those that have one, and its file is
\* younger than theirs.
LEMMA InsertRowOInv ==
    ASSUME IInv, OInv, InsertRow
    PROVE  OInv'
<1>1. item # NoItem /\ Settled /\ UNCHANGED <<offer, queue, accepted, offered, clock>>
  BY DEF IInv, InHand, InsertRow
<1>2. CASE rows' = rows
  BY <1>1, <1>2, SettledOInv
<1>3. CASE rows' = rows \cup {[key |-> Key[item], item |-> item, path |-> path]}
  <2> DEFINE t == [key |-> Key[item], item |-> item, path |-> path]
  <2>1. t.item = item /\ t.path = path /\ rows' = rows \cup {t}
    BY <1>3
  <2> HIDE DEF t
  <2>2. Taken' = Taken /\ Taken = Done + 1 /\ Done' = Taken /\ Done \in Nat
        /\ DOMAIN accepted = 1..Len(accepted) /\ Len(accepted) \in Nat
        /\ Taken <= Len(accepted)
    <3>1. Taken' = Taken
      BY <1>1 DEF Taken
    <3>2. Taken = Done + 1 /\ Done \in Nat
      <4>1. Done = Taken - 1 /\ Done \in Nat /\ Taken \in Nat
        BY <1>1, Counts
      <4> QED
        BY <4>1
    <3>3. Taken <= Len(accepted) /\ Len(accepted) \in Nat
          /\ DOMAIN accepted = 1..Len(accepted)
      BY Counts
    <3> QED
      BY <1>1, <3>1, <3>2, <3>3 DEF Done, Settled
  <2>3. item = accepted[Taken]
    BY <1>1 DEF OInv, InFlight
  <2>4. ASSUME NEW k \in DOMAIN accepted, NEW r \in rows, r.item = accepted[k]
        PROVE  k < Taken
    <3>1. PICK h \in 1..Done : r.item = accepted[h]
      BY DEF OInv, Recorded
    <3>2. h \in 1..Len(accepted)
      BY <2>2
    <3>3. h = k
      BY <2>2, <2>4, <3>1, <3>2 DEF OInv, Once
    <3> QED
      BY <2>2, <3>3
  <2>5. ASSUME NEW r \in rows PROVE r.path < path
    <3>1. path = clock /\ path \notin Paths /\ clock \in Nat /\ Paths \subseteq 1..clock
      BY DEF IInv, OInv, Recorded, InsertRow, InHand, TypeOK, Past
    <3>2. r.path \in Paths
      BY DEF Paths
    <3>3. r.path # path /\ r.path \in 1..clock
      BY <3>1, <3>2
    <3> QED
      BY <3>1, <3>3
  <2>6. RecordedInOrder'
    <3>1. ASSUME NEW j \in DOMAIN accepted, NEW k \in DOMAIN accepted,
                 NEW r \in rows', NEW s \in rows',
                 j < k, r.item = accepted[j], s.item = accepted[k]
          PROVE  r.path < s.path
      <4>1. CASE r \in rows /\ s \in rows
        BY <3>1, <4>1 DEF OInv, RecordedInOrder
      <4>2. CASE r \in rows /\ s = t
        BY <2>1, <2>5, <4>2
      <4>3. CASE r = t
        <5>1. j = Taken
          BY <2>1, <2>2, <2>3, <3>1, <4>3 DEF OInv, Once
        <5>2. s # t
          BY <2>1, <2>2, <2>3, <3>1, <5>1 DEF OInv, Once
        <5>3. k < Taken
          BY <2>1, <2>4, <3>1, <5>2
        <5> QED
          BY <2>2, <3>1, <5>1, <5>3
      <4> QED
        BY <2>1, <4>1, <4>2, <4>3
    <3> QED
      BY <1>1, <3>1 DEF RecordedInOrder
  <2>7. Recorded'
    <3>1. 1..Done \subseteq 1..Taken /\ Taken \in 1..Taken
      BY <2>2
    <3>2. ASSUME NEW r \in rows' PROVE \E k \in 1..Taken : r.item = accepted[k]
      BY <2>1, <2>3, <3>1 DEF OInv, Recorded
    <3> QED
      BY <1>1, <2>2, <3>2 DEF Recorded, Settled
  <2>8. InFlight' /\ Once'
    BY <1>1, <2>2 DEF OInv, InFlight, Once, Settled
  <2> QED
    BY <2>6, <2>7, <2>8 DEF OInv
<1> QED
  BY <1>2, <1>3 DEF InsertRow

\* Every step keeps the order.
LEMMA NextOInv == IInv /\ OInv /\ [Next]_vars => OInv'
<1> SUFFICES ASSUME IInv, OInv, [Next]_vars PROVE OInv'
  OBVIOUS
<1>1. CASE Startup \/ BeginClose \/ EndClose \/ UNCHANGED vars
  BY <1>1, SameLineOInv DEF Startup, BeginClose, EndClose, vars, volatile, disk, history
<1>2. CASE Exit \/ Crash
  BY <1>2, EndOfProcessOInv
<1>3. ASSUME NEW c \in Callers,
             (\E i \in Items : CheckInstance(c, i)) \/ Send(c) \/ SendOnClosed(c)
      PROVE  OInv'
  BY <1>3, CheckInstanceOInv, SendOInv, EndOfProcessOInv DEF SendOnClosed
<1>4. CASE Worker
  BY <1>4, ReceiveOInv, WriteFileOInv, MarshalOInv, InsertRowOInv DEF Worker
<1> QED
  BY <1>1, <1>2, <1>3, <1>4 DEF Next

\* What is in flight is the tail of what was accepted, in every reachable state.
THEOREM OrderInvariance == Spec => [](IInv /\ OInv)
  BY InitIInv, InitOInv, NextIInv, NextOInv, PTL DEF Spec

\* The catalog's recording times follow the order of acceptance, whatever
\* fails, crashes or restarts in between.
THEOREM OrderIsKept == Spec => []RecordedInOrder
<1>1. OInv => RecordedInOrder
  BY DEF OInv
<1> QED
  BY <1>1, OrderInvariance, PTL

-----------------------------------------------------------------------------
(* The refinement: each step of the database is a step of AcceptedInserts.  *)

\* The refinement mapping of Promise, part by part.
Session == IF phase = "closing" THEN "open" ELSE phase
Pending == {queue[k] : k \in DOMAIN queue} \cup ({item} \ {NoItem})
Stored == {r.item : r \in rows}

\* Nobody has accepted an insert that is still offered, so it is neither
\* pending nor stored; the worker's insert is pending, and only once.
LEMMA PendingOnce ==
    ASSUME IInv, OInv
    PROVE  /\ Pending \cup Stored \subseteq {accepted[k] : k \in DOMAIN accepted}
           /\ item # NoItem => \A k \in DOMAIN queue : queue[k] # item
<1>1. ASSUME NEW k \in DOMAIN queue
      PROVE  queue[k] = accepted[Taken + k] /\ Taken + k \in DOMAIN accepted
  <2>1. Taken \in Nat /\ Len(queue) \in Nat /\ Len(accepted) = Taken + Len(queue)
        /\ k \in 1..Len(queue) /\ DOMAIN accepted = 1..Len(accepted)
    BY Counts
  <2>2. Taken + k \in 1..Len(accepted)
    BY <2>1
  <2> QED
    BY <2>1, <2>2 DEF OInv, InFlight
<1>2. ASSUME item # NoItem
      PROVE  item = accepted[Taken] /\ Taken \in DOMAIN accepted
  <2>1. Taken \in Nat /\ Done \in Nat /\ Done = Taken - 1 /\ Taken <= Len(accepted)
        /\ Len(accepted) \in Nat /\ DOMAIN accepted = 1..Len(accepted)
    BY <1>2, Counts
  <2>2. Taken \in 1..Len(accepted)
    BY <2>1
  <2> QED
    BY <1>2, <2>1, <2>2 DEF OInv, InFlight
<1>3. ASSUME NEW r \in rows PROVE \E k \in DOMAIN accepted : r.item = accepted[k]
  <2>1. 1..Done \subseteq DOMAIN accepted
    BY Counts
  <2> QED
    BY <2>1 DEF OInv, Recorded
<1>4. ASSUME item # NoItem, NEW k \in DOMAIN queue PROVE queue[k] # item
  <2>1. Taken \in Nat /\ k \in 1..Len(queue) /\ Len(queue) \in Nat
        /\ DOMAIN accepted = 1..Len(accepted)
    BY Counts
  <2>2. Taken + k # Taken
    BY <2>1
  <2> QED
    BY <1>1, <1>2, <1>4, <2>1, <2>2 DEF OInv, Once
<1> QED
  BY <1>1, <1>2, <1>3, <1>4 DEF Pending, Stored

\* A worker that is done with its insert has settled it, stored or not.
LEMMA SettleStep ==
    ASSUME IInv, OInv, item # NoItem, Settled, UNCHANGED <<phase, queue>>,
           Stored' \in {Stored, Stored \cup {item}}
    PROVE  item \in Pending /\ Pending' = Pending \ {item} /\ item \in Items
           /\ Session' = Session
  BY PendingOnce DEF Pending, Settled, IInv, TypeOK, Session

\* The mapping's parts, for the steps that follow.
LEMMA Mapped ==
    /\ Promise!Init <=> Session = "down" /\ Pending = {} /\ Stored = {}
    /\ Promise!Open <=> Session = "down" /\ Session' = "open" /\ UNCHANGED <<Pending, Stored>>
    /\ Promise!Close <=> /\ Session = "open" /\ Pending = {} /\ Session' = "closed"
                         /\ UNCHANGED <<Pending, Stored>>
    /\ Promise!Stop <=> Session # "down" /\ Session' = "down" /\ Pending' = {} /\ Stored' = Stored
    /\ UNCHANGED Promise!vars <=> UNCHANGED <<Session, Pending, Stored>>
  BY DEF Promise!Init, Promise!Open, Promise!Close, Promise!Stop, Promise!vars,
         Session, Pending, Stored

\* The mapping of the steps that take an insert.
LEMMA MappedInsert ==
    ASSUME NEW i
    PROVE  /\ Promise!Accept(i) <=> /\ Session = "open" /\ i \notin Pending \cup Stored
                                    /\ Pending' = Pending \cup {i}
                                    /\ UNCHANGED <<Session, Stored>>
           /\ Promise!Settle(i) <=> /\ i \in Pending /\ Pending' = Pending \ {i}
                                    /\ Stored' \in {Stored, Stored \cup {i}}
                                    /\ UNCHANGED Session
  BY DEF Promise!Accept, Promise!Settle, Session, Pending, Stored

\* Every step of the database is one of its specification, or changes nothing
\* that the specification sees.
LEMMA StepRefines ==
    ASSUME IInv, OInv, [Next]_vars
    PROVE  Promise!Next \/ UNCHANGED Promise!vars
<1>1. CASE Startup
  <2>1. Promise!Open
    BY <1>1, Mapped DEF Startup, Session, Pending, Stored, volatile, disk
  <2> QED
    BY <2>1 DEF Promise!Next
<1>2. CASE BeginClose \/ UNCHANGED vars
  <2>1. UNCHANGED <<Session, Pending, Stored>>
    BY <1>2 DEF BeginClose, Session, Pending, Stored, vars, volatile, disk
  <2> QED
    BY <2>1, Mapped
<1>3. CASE EndClose
  <2>1. item = NoItem /\ queue = <<>>
    BY <1>3 DEF EndClose, IInv, InHand
  <2>2. Pending = {}
    BY <2>1 DEF Pending
  <2>3. Promise!Close
    BY <1>3, <2>2, Mapped DEF EndClose, Session, Pending, Stored, volatile, disk
  <2> QED
    BY <2>3 DEF Promise!Next
<1>4. ASSUME Exit \/ Crash PROVE Promise!Next
  <2>1. queue' = <<>> /\ item' = NoItem /\ rows' = rows /\ phase # "down" /\ phase' = "down"
    BY <1>4 DEF Exit, Crash, NoInFlight, disk
  <2>2. Pending' = {} /\ Stored' = Stored
    BY <2>1 DEF Pending, Stored
  <2>3. Promise!Stop
    BY <2>1, <2>2, Mapped DEF Session
  <2> QED
    BY <2>3 DEF Promise!Next
<1>5. ASSUME NEW c \in Callers, Send(c) PROVE Promise!Next \/ UNCHANGED Promise!vars
  <2>1. UNCHANGED <<phase, item, rows>> /\ phase = "open"
    BY <1>5 DEF Send, disk
  <2>2. CASE UNCHANGED queue
    BY <2>1, <2>2, Mapped DEF Session, Pending, Stored
  <2>3. CASE queue' = Append(queue, offer[c])
    <3>1. offer[c] \in Items /\ queue \in Seq(Items)
      BY <1>5 DEF Send, IInv, TypeOK
    <3>2. offer[c] \notin Pending \cup Stored
      BY <1>5, PendingOnce, Counts DEF Send, OInv, Once
    <3>3. {queue'[k] : k \in DOMAIN queue'} = {queue[k] : k \in DOMAIN queue} \cup {offer[c]}
      <4>1. DOMAIN queue = 1..Len(queue) /\ DOMAIN queue' = 1..(Len(queue) + 1)
            /\ Len(queue) \in Nat /\ queue'[Len(queue) + 1] = offer[c]
            /\ \A k \in 1..Len(queue) : queue'[k] = queue[k]
        BY <2>3, <3>1
      <4>2. 1..(Len(queue) + 1) = 1..Len(queue) \cup {Len(queue) + 1}
        BY <4>1
      <4> QED
        BY <4>1, <4>2
    <3>4. Pending' = Pending \cup {offer[c]}
      BY <2>1, <3>3 DEF Pending
    <3>5. PICK i \in Items : i = offer[c]
      BY <3>1
    <3>6. Session = "open" /\ UNCHANGED <<Session, Stored>>
      BY <2>1 DEF Session, Stored
    <3>7. Promise!Accept(i)
      BY <3>2, <3>4, <3>5, <3>6, MappedInsert
    <3> QED
      BY <3>5, <3>7 DEF Promise!Next
  <2> QED
    BY <1>5, <2>2, <2>3 DEF Send
<1>6. ASSUME NEW c \in Callers, NEW i \in Items, CheckInstance(c, i)
      PROVE  UNCHANGED Promise!vars
  <2>1. UNCHANGED <<Session, Pending, Stored>>
    BY <1>6 DEF CheckInstance, Session, Pending, Stored, disk
  <2> QED
    BY <2>1, Mapped
<1>7. CASE Receive
  <2>1. item = NoItem /\ queue # <<>> /\ queue \in Seq(Items) /\ item' = Head(queue)
        /\ queue' = Tail(queue) /\ UNCHANGED <<phase, rows>>
    BY <1>7 DEF Receive, IInv, InHand, TypeOK, disk
  <2>2. Pending' = Pending
    <3>1. item' # NoItem /\ item' = queue[1] /\ Len(queue) \in Nat \ {0}
          /\ DOMAIN queue = 1..Len(queue) /\ DOMAIN queue' = 1..(Len(queue) - 1)
          /\ \A k \in 1..(Len(queue) - 1) : queue'[k] = queue[k + 1]
      BY <2>1, ItemAssumption
    <3>2. ASSUME NEW x PROVE x \in Pending' <=> x \in Pending
      <4>1. x \in Pending <=> \E k \in 1..Len(queue) : x = queue[k]
        BY <2>1, <3>1 DEF Pending
      <4>2. x \in Pending' <=> x = queue[1] \/ \E k \in 1..(Len(queue) - 1) : x = queue[k + 1]
        BY <3>1 DEF Pending
      <4>3. \A k \in 1..Len(queue) : k # 1 => k - 1 \in 1..(Len(queue) - 1) /\ (k - 1) + 1 = k
        BY <3>1
      <4>4. 1 \in 1..Len(queue) /\ \A k \in 1..(Len(queue) - 1) : k + 1 \in 1..Len(queue)
        BY <3>1
      <4> QED
        BY <4>1, <4>2, <4>3, <4>4
    <3> QED
      BY <3>2
  <2> QED
    BY <2>1, <2>2, Mapped DEF Session, Stored
<1>8. ASSUME item # NoItem, Settled, UNCHANGED <<phase, queue>>,
             Stored' \in {Stored, Stored \cup {item}}
      PROVE  Promise!Next
  <2>1. PICK i \in Items : i = item
    BY <1>8, SettleStep
  <2>2. Promise!Settle(i)
    BY <1>8, <2>1, SettleStep, MappedInsert
  <2> QED
    BY <2>1, <2>2 DEF Promise!Next
<1>9. CASE WriteFile \/ Marshal
  <2>1. item # NoItem /\ UNCHANGED <<phase, queue, rows>>
    BY <1>9 DEF WriteFile, Marshal, IInv, InHand, disk
  <2>2. CASE Settled
    BY <1>8, <2>1, <2>2 DEF Stored
  <2>3. CASE UNCHANGED item
    BY <2>1, <2>3, Mapped DEF Session, Pending, Stored
  <2> QED
    BY <1>9, <2>2, <2>3 DEF WriteFile, Marshal
<1>10. CASE InsertRow
  <2>1. item # NoItem /\ Settled /\ UNCHANGED <<phase, queue>>
    BY <1>10 DEF InsertRow, IInv, InHand
  <2>2. CASE rows' = rows
    BY <1>8, <2>1, <2>2 DEF Stored
  <2>3. CASE rows' = rows \cup {[key |-> Key[item], item |-> item, path |-> path]}
    <3> DEFINE t == [key |-> Key[item], item |-> item, path |-> path]
    <3>1. t.item = item /\ rows' = rows \cup {t}
      BY <2>3
    <3> HIDE DEF t
    <3>2. Stored' = Stored \cup {item}
      BY <3>1 DEF Stored
    <3> QED
      BY <1>8, <2>1, <3>2
  <2> QED
    BY <1>10, <2>2, <2>3 DEF InsertRow
<1> QED
  BY <1>1, <1>2, <1>3, <1>4, <1>5, <1>6, <1>7, <1>9, <1>10 DEF Next, SendOnClosed, Worker

\* The database implements the safety part of AcceptedInserts: an accepted
\* insert leaves the pending ones only by being stored, by failing or with its
\* process; nothing is accepted twice, nothing stored is forgotten, and Close
\* happens with nothing pending.
THEOREM ImplementsPromise == Spec => Promise!Init /\ [][Promise!Next]_(Promise!vars)
<1>1. Init => Promise!Init
  BY Mapped DEF Init, Session, Pending, Stored
<1>2. IInv /\ OInv /\ [Next]_vars => [Promise!Next]_(Promise!vars)
  BY StepRefines
<1> QED
  BY <1>1, <1>2, OrderInvariance, PTL DEF Spec

=============================================================================
