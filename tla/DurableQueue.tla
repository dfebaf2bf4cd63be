---------------------------- MODULE DurableQueue ----------------------------
(***************************************************************************)
(* What a persistent delivery backend promises (delivery/base.py): an item *)
(* is enqueued once, attempted at least once, and settled once and for     *)
(* all, consumed or dead-lettered.                                         *)
(***************************************************************************)
CONSTANT Items

VARIABLES
    status,    \* "absent", "queued", "consumed" or "dead"
    attempted  \* the items whose execution began

queue == <<status, attempted>>

TypeOK ==
    /\ status \in [Items -> {"absent", "queued", "consumed", "dead"}]
    /\ attempted \in SUBSET Items

Init == status = [i \in Items |-> "absent"] /\ attempted = {}

Enqueue(i) ==
    /\ status[i] = "absent"
    /\ status' = [status EXCEPT ![i] = "queued"]
    /\ UNCHANGED attempted

Attempt(i) ==
    /\ status[i] = "queued" /\ i \notin attempted
    /\ attempted' = attempted \cup {i}
    /\ UNCHANGED status

Settle(i) ==
    /\ status[i] = "queued" /\ i \in attempted
    /\ \E s \in {"consumed", "dead"} : status' = [status EXCEPT ![i] = s]
    /\ UNCHANGED attempted

Next == \E i \in Items : Enqueue(i) \/ Attempt(i) \/ Settle(i)

Spec == Init /\ [][Next]_queue
FairSpec == Spec /\ \A i \in Items : WF_queue(Attempt(i)) /\ WF_queue(Settle(i))
=============================================================================
