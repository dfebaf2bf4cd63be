------------------------------- MODULE MCKit --------------------------------
(* An instance of the kit's parts that share no state: each behavior is of *)
(* one of them, chosen at the start, the others at rest.  The calls of     *)
(* RoomDoor and the turns of RoomTurns are interchangeable: whatever order *)
(* they come in, naming them anew gives the order of this instance.        *)
EXTENDS RoomDoor, RoomLocks, RoomTurns, RoomTimers, TaskRunner, MemoryDelivery

VARIABLE part

kitVars == <<part, doorVars, locksVars, turnsVars, timersVars, runnerVars, memoryVars>>

KitInit ==
    /\ part \in {"door", "locks", "turns", "timers", "runner", "memory"}
    /\ DoorInit /\ LocksInit /\ TimersInit /\ RunnerInit /\ MemoryInit
    /\ IF part = "turns" THEN TurnsInit
       ELSE TurnsInit /\ asker = [t \in Turns |-> CHOOSE d \in Deliveries : TRUE]

CallsInOrder ==
    \A c \in Calls :
        pc[c] = "out" /\ pc'[c] # "out" => c = CHOOSE d \in Calls : pc[d] = "out"
TurnsInOrder ==
    turnsAsked' # turnsAsked =>
        turnsAsked' = Append(turnsAsked, CHOOSE t \in Turns : stage[t] = "none")

KitNext ==
    /\ UNCHANGED part
    /\ \/ /\ part = "door" /\ DoorNext /\ CallsInOrder
          /\ UNCHANGED <<locksVars, turnsVars, timersVars, runnerVars, memoryVars>>
       \/ /\ part = "locks" /\ LocksNext
          /\ UNCHANGED <<doorVars, turnsVars, timersVars, runnerVars, memoryVars>>
       \/ /\ part = "turns" /\ TurnsNext /\ TurnsInOrder
          /\ UNCHANGED <<doorVars, locksVars, timersVars, runnerVars, memoryVars>>
       \/ /\ part = "timers" /\ TimersNext
          /\ UNCHANGED <<doorVars, locksVars, turnsVars, runnerVars, memoryVars>>
       \/ /\ part = "runner" /\ RunnerNext
          /\ UNCHANGED <<doorVars, locksVars, turnsVars, timersVars, memoryVars>>
       \/ /\ part = "memory" /\ MemoryNext
          /\ UNCHANGED <<doorVars, locksVars, turnsVars, timersVars, runnerVars>>

KitSpec ==
    /\ KitInit /\ [][KitNext]_kitVars
    /\ WF_doorVars(part = "door" /\ DoorObliged)
    /\ WF_turnsVars(part = "turns" /\ TurnsObliged)
    /\ WF_runnerVars(part = "runner" /\ RunnerObliged)
    /\ WF_memoryVars(part = "memory" /\ MemoryObliged)

(* The state of every part has the shape its module says. *)
KitTypeOK ==
    /\ DoorTypeOK /\ LocksTypeOK /\ TurnsTypeOK /\ TimersTypeOK
    /\ RunnerTypeOK /\ MemoryTypeOK
=============================================================================
