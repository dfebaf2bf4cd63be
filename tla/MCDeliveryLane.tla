--------------------------- MODULE MCDeliveryLane ---------------------------
(* Instances of DeliveryLane.  The processes are interchangeable.           *)
EXTENDS LaneRefinement, TLC

Symmetry == Permutations(Procs)
=============================================================================
