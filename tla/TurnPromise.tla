---------------------------- MODULE TurnPromise ----------------------------
(***************************************************************************)
(* What the turn backend promises of a turn (the module texts of           *)
(* turns/_redis_links.py and turns/base.py): one executor runs it at most; *)
(* its owner reads what it sends one by one and without a gap, and takes   *)
(* it for complete only once it read all of it; and when one side is       *)
(* through with the turn, so is the other before long.                     *)
(***************************************************************************)
EXTENDS Integers

CONSTANTS Executors, NoExecutor

VARIABLES
    runner,  \* the executor that took the turn, if any
    sent,    \* how many frames it sent
    whole,   \* whether its end is among them
    stopped, \* whether it is through with the turn
    read,    \* how many frames the owner read
    fate     \* the turn for its owner: "open", "done" or "failed"

vars == <<runner, sent, whole, stopped, read, fate>>

Init ==
    /\ runner = NoExecutor
    /\ sent = 0 /\ read = 0
    /\ whole = FALSE /\ stopped = FALSE
    /\ fate = "open"

Begin(e) ==
    /\ runner = NoExecutor
    /\ runner' = e
    /\ UNCHANGED <<sent, whole, stopped, read, fate>>

Send ==
    /\ runner # NoExecutor /\ ~stopped /\ ~whole
    /\ sent' = sent + 1
    /\ whole' \in BOOLEAN
    /\ stopped' \in BOOLEAN
    /\ UNCHANGED <<runner, read, fate>>

Stop ==
    /\ runner # NoExecutor /\ ~stopped
    /\ stopped' = TRUE
    /\ UNCHANGED <<runner, sent, whole, read, fate>>

Read ==
    /\ fate = "open" /\ read < sent
    /\ read' = read + 1
    /\ fate' \in {"open"} \cup (IF whole /\ read' = sent THEN {"done"} ELSE {})
    /\ UNCHANGED <<runner, sent, whole, stopped>>

Fail ==
    /\ fate = "open"
    /\ fate' = "failed"
    /\ UNCHANGED <<runner, sent, whole, stopped, read>>

Next == (\E e \in Executors : Begin(e)) \/ Send \/ Stop \/ Read \/ Fail

(* The owner of a turn nobody runs learns it; an executor whose owner is   *)
(* through with the turn stops it.                                         *)
Settle == (runner = NoExecutor \/ stopped) /\ (Read \/ Fail) /\ fate' # "open"
Release == fate # "open" /\ Stop

Safe == Init /\ [][Next]_vars
Spec == Safe /\ WF_vars(Settle) /\ WF_vars(Release)
=============================================================================
