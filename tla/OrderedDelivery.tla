-------------------------- MODULE OrderedDelivery --------------------------
(***************************************************************************)
(* What the lanes promise the room, whatever the number of processes: each *)
(* event committed with an index is delivered once and in index order, or  *)
(* settled without a delivery, and none stays unsettled for ever           *)
(* (core/lanes.py, the module's text and RoomDeliveryLane).                *)
(***************************************************************************)
EXTENDS Integers

CONSTANT MaxIndex       \* bound: how many events the room commits

Indexes == 0 .. MaxIndex - 1

VARIABLE fate           \* what became of each index

(* "delivered" from the moment its delivery begins; "silent" when it needs *)
(* none; "dropped" when its process died or its index was skipped.         *)
Fates == {"absent", "pending", "delivered", "silent", "dropped"}

TypeOK == fate \in [Indexes -> Fates]

Init == fate = [i \in Indexes |-> "absent"]

(* Indexes are given out in order, without a hole. *)
Commit(i) ==
    /\ fate[i] = "absent"
    /\ \A j \in 0 .. i - 1 : fate[j] # "absent"
    /\ fate' = [fate EXCEPT ![i] = "pending"]

(* A step settles pending indexes for good.  It delivers one of them at    *)
(* most, and never one behind a delivery that began.                       *)
Settle(S) ==
    /\ \A i \in S : fate[i] = "pending"
    /\ \E f \in [S -> {"delivered", "silent", "dropped"}] :
         /\ \A i, j \in S : f[i] = "delivered" /\ f[j] = "delivered" => i = j
         /\ \A i \in S : f[i] = "delivered" =>
              \A j \in i + 1 .. MaxIndex - 1 : fate[j] # "delivered"
         /\ fate' = [i \in Indexes |-> IF i \in S THEN f[i] ELSE fate[i]]

Next ==
    \/ \E i \in Indexes : Commit(i)
    \/ \E S \in SUBSET Indexes : S # {} /\ Settle(S)

Spec == Init /\ [][Next]_fate
=============================================================================
