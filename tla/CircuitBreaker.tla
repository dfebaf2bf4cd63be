--------------------------- MODULE CircuitBreaker ---------------------------
(***************************************************************************)
(* The circuit breaker of one transport channel                            *)
(* (core/circuit_breaker.py) and the deliveries that pass through it in    *)
(* EventRouter.broadcast (core/event_router.py).  Every room bound to the  *)
(* channel shares the breaker, so deliveries of several rooms are in       *)
(* flight at once: each asks allow_request, may wait in the rate limiter,  *)
(* calls deliver, and records what happened.  Each of those is one step of *)
(* the event loop; the awaits between them are where others interleave.    *)
(***************************************************************************)
EXTENDS Naturals

CONSTANTS
    Sends,        \* the concurrent deliveries to this channel
    Threshold,    \* failure_threshold
    AllowReset,   \* whether the application calls reset()
    NoSend        \* a value that is not a delivery

ASSUME ThresholdAssumption == Threshold \in Nat \ {0}
ASSUME NoSendAssumption == NoSend \notin Sends
ASSUME ResetAssumption == AllowReset \in BOOLEAN

VARIABLES
    failureCount, \* _failure_count, kept at Threshold once it gets there
    opened,       \* _opened_at read against the clock: "no" (None),
                  \* "recent" (is_open) or "recovered" (is_half_open)
    probeSent,    \* _half_open_probe_sent
    announced,    \* the last state given to on_state_change
    phase,        \* where each delivery is
    holder,       \* history: the delivery that took the current probe slot
    vanished,     \* history: a probe ended without recording anything
    wasReset      \* history: reset() was called

breaker == <<failureCount, opened, probeSent, announced>>
vars == <<failureCount, opened, probeSent, announced, phase, holder, vanished,
          wasReset>>

Phases == {"idle", "waiting", "delivering"}

TypeOK ==
    /\ failureCount \in 0..Threshold
    /\ opened \in {"no", "recent", "recovered"}
    /\ probeSent \in BOOLEAN
    /\ announced \in {"closed", "open"}
    /\ phase \in [Sends -> Phases]
    /\ holder \in Sends \cup {NoSend}
    /\ vanished \in BOOLEAN
    /\ wasReset \in BOOLEAN

Init ==
    /\ failureCount = 0
    /\ opened = "no"
    /\ probeSent = FALSE
    /\ announced = "closed"
    /\ phase = [s \in Sends |-> "idle"]
    /\ holder = NoSend
    /\ vanished = FALSE
    /\ wasReset = FALSE

IsClosed == opened = "no"
IsHalfOpen == opened = "recovered"

(* allow_request: free while closed; once recovered, one probe. *)
CanAdmit == IsClosed \/ (IsHalfOpen /\ ~probeSent)

AllowRequest(s) ==
    /\ CanAdmit
    /\ probeSent' = ~IsClosed
    /\ holder' = IF IsClosed THEN holder ELSE s
    /\ UNCHANGED <<failureCount, opened, announced>>

RecordSuccessKeepingCount ==    \* mutant: the count survives a success
    /\ opened' = "no"
    /\ probeSent' = FALSE
    /\ announced' = IF IsClosed THEN announced ELSE "closed"
    /\ UNCHANGED failureCount

RecordSuccessSilently ==        \* mutant: closing is announced only half-open
    /\ failureCount' = 0
    /\ opened' = "no"
    /\ probeSent' = FALSE
    /\ announced' = IF IsHalfOpen THEN "closed" ELSE announced

RecordSuccess ==
    /\ failureCount' = 0
    /\ opened' = "no"
    /\ probeSent' = FALSE
    /\ announced' = IF IsClosed THEN announced ELSE "closed"

NextCount == IF failureCount < Threshold THEN failureCount + 1 ELSE Threshold

RecordFailureHoldingSlot ==     \* mutant: a failed probe does not free the slot
    /\ failureCount' = NextCount
    /\ IF NextCount >= Threshold
       THEN /\ opened' = "recent"
            /\ announced' = IF IsClosed THEN "open" ELSE announced
            /\ UNCHANGED probeSent
       ELSE UNCHANGED <<opened, probeSent, announced>>

RecordFailure ==
    /\ failureCount' = NextCount
    /\ IF NextCount >= Threshold
       THEN /\ opened' = "recent"
            /\ probeSent' = FALSE
            /\ announced' = IF IsClosed THEN "open" ELSE announced
       ELSE UNCHANGED <<opened, probeSent, announced>>

-----------------------------------------------------------------------------
(* broadcast's target task: the breaker admits the delivery, which then    *)
(* waits for its rate limiter's token (or has no rate limit).              *)
Begin(s) ==
    /\ phase[s] = "idle"
    /\ AllowRequest(s)
    /\ \E next \in {"waiting", "delivering"} : phase' = [phase EXCEPT ![s] = next]
    /\ UNCHANGED <<vanished, wasReset>>

TokenGranted(s) ==
    /\ phase[s] = "waiting"
    /\ phase' = [phase EXCEPT ![s] = "delivering"]
    /\ UNCHANGED <<breaker, holder, vanished, wasReset>>

Ends(s) == phase' = [phase EXCEPT ![s] = "idle"]

(* deliver, with its retries, returned. *)
Delivered(s) ==
    /\ phase[s] = "delivering"
    /\ RecordSuccess
    /\ Ends(s)
    /\ UNCHANGED <<holder, vanished, wasReset>>

(* deliver raised, its retries used up. *)
Failed(s) ==
    /\ phase[s] = "delivering"
    /\ RecordFailure
    /\ Ends(s)
    /\ UNCHANGED <<holder, vanished, wasReset>>

(* The delivery ends without a word to the breaker: the binding had no     *)
(* recipient, or the target's task was cancelled while it waited for a     *)
(* token or delivered.                                                     *)
EndsUnrecorded(s) ==
    /\ phase[s] # "idle"
    /\ Ends(s)
    /\ vanished' = (vanished \/ (probeSent /\ holder = s))
    /\ UNCHANGED <<breaker, holder, wasReset>>

(* recovery_timeout elapses. *)
RecoveryTimeout ==
    /\ opened = "recent"
    /\ opened' = "recovered"
    /\ UNCHANGED <<failureCount, probeSent, announced, phase, holder, vanished,
                   wasReset>>

Reset ==
    /\ AllowReset
    /\ failureCount' = 0
    /\ opened' = "no"
    /\ probeSent' = FALSE
    /\ wasReset' = TRUE
    /\ UNCHANGED <<announced, phase, holder, vanished>>

Next ==
    \/ \E s \in Sends :
         Begin(s) \/ TokenGranted(s) \/ Delivered(s) \/ Failed(s) \/ EndsUnrecorded(s)
    \/ RecoveryTimeout
    \/ Reset

(* The clock runs, and an admitted delivery ends: the rate limiter's sleep *)
(* is finite and deliver returns or raises.                                *)
Fairness ==
    /\ WF_vars(RecoveryTimeout)
    /\ \A s \in Sends :
         /\ WF_vars(TokenGranted(s))
         /\ WF_vars(Delivered(s) \/ Failed(s) \/ EndsUnrecorded(s))

Spec == Init /\ [][Next]_vars
FairSpec == Spec /\ Fairness

-----------------------------------------------------------------------------
(* The breaker is tripped exactly while the failures since the last        *)
(* success reach the threshold: no order of late outcomes opens it early   *)
(* or leaves it open with a cleared count.                                 *)
TrippedAtThreshold == (failureCount >= Threshold) <=> ~IsClosed

(* A taken probe slot belongs to a delivery that is still in flight, so    *)
(* its outcome will free the slot -- unless a probe ended without          *)
(* recording an outcome.                                                   *)
ProbeSlotHeld ==
    probeSent /\ ~vanished => holder \in Sends /\ phase[holder] # "idle"

(* What on_state_change was last told is what the breaker is, whichever    *)
(* delivery's late outcome moved it -- but that reset() closes it and says *)
(* nothing: listeners may then believe it open, and never the contrary.    *)
AnnouncedState ==
    /\ announced = "closed" => IsClosed
    /\ ~wasReset /\ IsClosed => announced = "closed"

(* A delivery always becomes possible again, unless a probe vanished.      *)
AdmitsAgain == []<>CanAdmit \/ <>vanished

(* docs/c7/resilience.md: after 60 seconds one probe delivery goes         *)
(* through: whatever happened, the channel is eventually offered one.      *)
ProbeGoesThrough == []<>CanAdmit
=============================================================================
