--------------------------- MODULE LaneRefinement ---------------------------
(* The lanes implement OrderedDelivery: the fate of an index is read off    *)
(* the stage of its entry.                                                  *)
EXTENDS DeliveryLane

Fate(i) ==
    CASE at[i] = "none"    -> "absent"
      [] at[i] \in Pending -> "pending"
      [] at[i] \in Begun   -> "delivered"
      [] at[i] = "filled"  -> "silent"
      [] OTHER             -> "dropped"

Ordered == INSTANCE OrderedDelivery WITH fate <- [i \in Indexes |-> Fate(i)]

(* Several processes, each with a lane of its own, that crash and whose     *)
(* store writes fail, deliver as one lane would: once, and in the order of  *)
(* the indexes (lanes.py, _claimed_round).                                  *)
DeliversInOrder == Ordered!Spec
=============================================================================
