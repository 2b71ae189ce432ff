--------------------------- MODULE AcceptedInserts ---------------------------
(***************************************************************************)
(* What the measurement database promises its callers, without queue,      *)
(* worker or files: an insert that was accepted is pending until it is     *)
(* stored or has failed, a stored insert stays stored, and an orderly      *)
(* Close happens only when nothing is pending.  Only the end of the        *)
(* process (a crash, or the exit after Close) may drop pending inserts.    *)
(***************************************************************************)
CONSTANT Items

VARIABLES
    session,   \* "down", "open" or "closed"
    pending,   \* accepted and not settled
    stored     \* in the catalog

vars == <<session, pending, stored>>

Init ==
    /\ session = "down"
    /\ pending = {}
    /\ stored = {}

Open ==
    /\ session = "down"
    /\ session' = "open"
    /\ UNCHANGED <<pending, stored>>

Accept(i) ==
    /\ session = "open"
    /\ i \notin pending \cup stored
    /\ pending' = pending \cup {i}
    /\ UNCHANGED <<session, stored>>

Settle(i) ==
    /\ i \in pending
    /\ pending' = pending \ {i}
    /\ stored' \in {stored, stored \cup {i}}
    /\ UNCHANGED session

Close ==
    /\ session = "open"
    /\ pending = {}
    /\ session' = "closed"
    /\ UNCHANGED <<pending, stored>>

Stop ==
    /\ session # "down"
    /\ session' = "down"
    /\ pending' = {}
    /\ UNCHANGED stored

Next ==
    \/ Open
    \/ \E i \in Items : Accept(i) \/ Settle(i)
    \/ Close
    \/ Stop

Spec == Init /\ [][Next]_vars /\ \A i \in Items : WF_vars(Settle(i))

=============================================================================
