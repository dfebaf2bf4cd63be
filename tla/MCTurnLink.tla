----------------------------- MODULE MCTurnLink -----------------------------
(* An instance of TurnLink.  Executors are interchangeable: whatever order *)
(* they are asked in, naming them anew gives the order of this instance.   *)
EXTENDS TurnLink

InOrder ==
    phase = "placing" /\ phase' = "asking" =>
        target' = CHOOSE e \in Executors \ excluded : TRUE

MCSpec == Init /\ [][Next /\ InOrder]_vars /\ WF_vars(Obliged)
=============================================================================
