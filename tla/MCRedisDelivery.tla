-------------------------- MODULE MCRedisDelivery --------------------------
(* Instances of RedisDelivery.  Two items are interchangeable, and one of   *)
(* them is enqueued first; a behaviour meets two at most of a stopped       *)
(* worker, a lost answer and an expired lease of a live worker, for each of *)
(* which nothing is fair.                                                   *)
EXTENDS RedisDelivery

First == CHOOSE i \in Items : TRUE
MaxTroubles == 2

Within ==
    /\ known # {} => First \in known
    /\ crashes + faults + stalls <= MaxTroubles

MCSpec == Init /\ [][Next /\ Within']_vars /\ Fairness
=============================================================================
