------------------------ MODULE CircuitBreakerProofs ------------------------
(* Theorems about CircuitBreaker for any set of deliveries and any          *)
(* threshold.                                                               *)
EXTENDS CircuitBreaker, TLAPS

(* The state's types are kept by every step. *)
THEOREM BreakerTypeCorrect == Spec => []TypeOK
<1> USE ThresholdAssumption, NoSendAssumption, ResetAssumption
<1> DEFINE CountOK == failureCount \in 0..Threshold
           FlagsOK == /\ opened \in {"no", "recent", "recovered"}
                      /\ probeSent \in BOOLEAN
                      /\ announced \in {"closed", "open"}
                      /\ phase \in [Sends -> Phases]
                      /\ holder \in Sends \cup {NoSend}
                      /\ vanished \in BOOLEAN
                      /\ wasReset \in BOOLEAN
<1>0. /\ TypeOK <=> CountOK /\ FlagsOK
      /\ TypeOK' <=> CountOK' /\ FlagsOK'
  BY Zenon DEF TypeOK
<1>1. Init => TypeOK
  <2>1. Init => CountOK
    BY DEF Init
  <2>2. Init => FlagsOK
    BY Zenon DEF Init, Phases
  <2> QED
    BY <1>0, <2>1, <2>2
<1>2. TypeOK /\ [Next]_vars => TypeOK'
  <2> SUFFICES ASSUME TypeOK, [Next]_vars PROVE TypeOK'
    OBVIOUS
  <2> USE DEF Phases
  <2>0. CountOK /\ FlagsOK
    BY <1>0
  <2>1. ASSUME NEW s \in Sends, Begin(s) PROVE TypeOK'
    <3>1. CountOK'
      BY <2>0, <2>1 DEF Begin, AllowRequest, IsClosed
    <3>2. FlagsOK'
      BY <2>0, <2>1, Zenon DEF Begin, AllowRequest, IsClosed
    <3> QED
      BY <1>0, <3>1, <3>2
  <2>2. ASSUME NEW s \in Sends, TokenGranted(s) PROVE TypeOK'
    <3>1. CountOK'
      BY <2>0, <2>2 DEF TokenGranted, breaker
    <3>2. FlagsOK'
      BY <2>0, <2>2, Zenon DEF TokenGranted, breaker
    <3> QED
      BY <1>0, <3>1, <3>2
  <2>3. ASSUME NEW s \in Sends, Delivered(s) PROVE TypeOK'
    <3>1. CountOK'
      BY <2>0, <2>3 DEF Delivered, RecordSuccess, Ends, IsClosed
    <3>2. FlagsOK'
      BY <2>0, <2>3, Zenon DEF Delivered, RecordSuccess, Ends, IsClosed
    <3> QED
      BY <1>0, <3>1, <3>2
  <2>4. ASSUME NEW s \in Sends, Failed(s) PROVE TypeOK'
    <3>1. CountOK'
      BY <2>0, <2>4 DEF Failed, RecordFailure, NextCount, Ends, IsClosed
    <3>2. FlagsOK'
      BY <2>0, <2>4, Zenon DEF Failed, RecordFailure, NextCount, Ends, IsClosed
    <3> QED
      BY <1>0, <3>1, <3>2
  <2>5. ASSUME NEW s \in Sends, EndsUnrecorded(s) PROVE TypeOK'
    <3>1. CountOK'
      BY <2>0, <2>5 DEF EndsUnrecorded, Ends, breaker
    <3>2. FlagsOK'
      BY <2>0, <2>5, Zenon DEF EndsUnrecorded, Ends, breaker
    <3> QED
      BY <1>0, <3>1, <3>2
  <2>6. CASE RecoveryTimeout
    <3>1. CountOK'
      BY <2>0, <2>6 DEF RecoveryTimeout
    <3>2. FlagsOK'
      BY <2>0, <2>6, Zenon DEF RecoveryTimeout
    <3> QED
      BY <1>0, <3>1, <3>2
  <2>7. CASE Reset
    <3>1. CountOK'
      BY <2>0, <2>7 DEF Reset
    <3>2. FlagsOK'
      BY <2>0, <2>7, Zenon DEF Reset
    <3> QED
      BY <1>0, <3>1, <3>2
  <2>8. CASE UNCHANGED vars
    <3>1. CountOK'
      BY <2>0, <2>8 DEF vars
    <3>2. FlagsOK'
      BY <2>0, <2>8, Zenon DEF vars
    <3> QED
      BY <1>0, <3>1, <3>2
  <2> QED
    BY <2>1, <2>2, <2>3, <2>4, <2>5, <2>6, <2>7, <2>8, Zenon DEF Next
<1> QED
  BY <1>1, <1>2, PTL DEF Spec
-----------------------------------------------------------------------------
(* What makes the two safety invariants inductive: a taken slot means the   *)
(* breaker is tripped, so the probe's outcome, good or bad, frees it.       *)
SlotOnlyWhileTripped == probeSent => ~IsClosed

BreakerInv == TrippedAtThreshold /\ SlotOnlyWhileTripped /\ ProbeSlotHeld

(* Every step of record_success, record_failure, allow_request and reset    *)
(* keeps the breaker's invariant.                                           *)
LEMMA BreakerInvariant == Spec => []BreakerInv
<1> USE ThresholdAssumption, NoSendAssumption, ResetAssumption
<1> USE DEF TypeOK, Phases, BreakerInv, TrippedAtThreshold, SlotOnlyWhileTripped,
            ProbeSlotHeld, IsClosed
<1>1. Init => BreakerInv
  BY DEF Init
<1>2. TypeOK /\ BreakerInv /\ [Next]_vars => BreakerInv'
  <2> SUFFICES ASSUME TypeOK, BreakerInv, [Next]_vars PROVE BreakerInv'
    OBVIOUS
  <2>1. ASSUME NEW s \in Sends, Begin(s) PROVE BreakerInv'
    BY <2>1 DEF Begin, AllowRequest, CanAdmit, IsHalfOpen
  <2>2. ASSUME NEW s \in Sends, TokenGranted(s) PROVE BreakerInv'
    BY <2>2 DEF TokenGranted, breaker
  <2>3. ASSUME NEW s \in Sends, Delivered(s) PROVE BreakerInv'
    BY <2>3 DEF Delivered, RecordSuccess, Ends
  <2>4. ASSUME NEW s \in Sends, Failed(s) PROVE BreakerInv'
    BY <2>4 DEF Failed, RecordFailure, NextCount, Ends
  <2>5. ASSUME NEW s \in Sends, EndsUnrecorded(s) PROVE BreakerInv'
    BY <2>5 DEF EndsUnrecorded, Ends, breaker
  <2>6. CASE RecoveryTimeout
    BY <2>6 DEF RecoveryTimeout
  <2>7. CASE Reset
    BY <2>7 DEF Reset
  <2>8. CASE UNCHANGED vars
    BY <2>8 DEF vars
  <2> QED
    BY <2>1, <2>2, <2>3, <2>4, <2>5, <2>6, <2>7, <2>8 DEF Next
<1> QED
  BY <1>1, <1>2, BreakerTypeCorrect, PTL DEF Spec

(* For any number of deliveries and any threshold: the breaker is tripped   *)
(* exactly while the failures since the last success reach the threshold.   *)
THEOREM BreakerSafe == Spec => []TrippedAtThreshold
<1>1. BreakerInv => TrippedAtThreshold
  BY DEF BreakerInv
<1> QED
  BY <1>1, BreakerInvariant, PTL

(* A taken probe slot belongs to a delivery in flight, whose outcome frees  *)
(* it, unless a probe ended without recording one.                          *)
THEOREM BreakerSlotHeld == Spec => []ProbeSlotHeld
<1>1. BreakerInv => ProbeSlotHeld
  BY DEF BreakerInv
<1> QED
  BY <1>1, BreakerInvariant, PTL
-----------------------------------------------------------------------------
(* on_state_change was last told what the breaker is, a late outcome that   *)
(* moves nothing announcing nothing; after reset(), which tells it nothing, *)
(* it may believe a closed breaker open, never an open one closed.          *)
THEOREM BreakerAnnounces == Spec => []AnnouncedState
<1> USE DEF TypeOK, AnnouncedState, IsClosed
<1>1. Init => AnnouncedState
  BY DEF Init
<1>2. TypeOK /\ AnnouncedState /\ [Next]_vars => AnnouncedState'
  <2> SUFFICES ASSUME TypeOK, AnnouncedState, [Next]_vars PROVE AnnouncedState'
    OBVIOUS
  <2>1. ASSUME NEW s \in Sends, Begin(s) PROVE AnnouncedState'
    BY <2>1 DEF Begin, AllowRequest
  <2>2. ASSUME NEW s \in Sends, TokenGranted(s) PROVE AnnouncedState'
    BY <2>2 DEF TokenGranted, breaker
  <2>3. ASSUME NEW s \in Sends, Delivered(s) PROVE AnnouncedState'
    BY <2>3 DEF Delivered, RecordSuccess
  <2>4. ASSUME NEW s \in Sends, Failed(s) PROVE AnnouncedState'
    BY <2>4 DEF Failed, RecordFailure
  <2>5. ASSUME NEW s \in Sends, EndsUnrecorded(s) PROVE AnnouncedState'
    BY <2>5 DEF EndsUnrecorded, breaker
  <2>6. CASE RecoveryTimeout
    BY <2>6 DEF RecoveryTimeout
  <2>7. CASE Reset
    BY <2>7 DEF Reset
  <2>8. CASE UNCHANGED vars
    BY <2>8 DEF vars
  <2> QED
    BY <2>1, <2>2, <2>3, <2>4, <2>5, <2>6, <2>7, <2>8 DEF Next
<1> QED
  BY <1>1, <1>2, BreakerTypeCorrect, PTL DEF Spec
=============================================================================
