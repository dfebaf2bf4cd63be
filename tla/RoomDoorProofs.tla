--------------------------- MODULE RoomDoorProofs ---------------------------
(***************************************************************************)
(* Theorems about RoomDoor for any set of calls.  The lemmas about lines   *)
(* are those of RoomLocksProofs.  The argument: a call's stage says what   *)
(* it has committed and returned, and whether it stands in the line of     *)
(* tickets or in the lock's (StagesKept); a cancel asked of it is counted  *)
(* once (CancelsKept); the lock is held by the one call whose stage says   *)
(* so (LockKept); and who holds a ticket stands in the order of tickets    *)
(* (AdmissionKept).                                                        *)
(***************************************************************************)
EXTENDS RoomDoor, RoomLocksProofs

(***************************************************************************)
(* The inductive invariant.                                                *)
(***************************************************************************)

Early == {"preparing", "checking", "lockwait", "locked"}

(* What a call's stage says of its commit, its result and the              *)
(* cancellations asked of it.                                              *)
StageKept(c) ==
    /\ pc[c] \in {"out", "ended"} => pending[c] = {}
    /\ "deadline" \in pending[c] => pc[c] \in Early
    /\ pc[c] \in Early \cup {"out", "writing"} => result[c] = "none"
    /\ c \in committing => pc[c] \notin Early \cup {"out"}
    /\ c \in stored => c \in committing
    /\ c \in writes => pc[c] = "writing" /\ c \in committing
StagesKept == \A c \in Calls : StageKept(c)

(* A task's count of requests is those of the close, the caller and the    *)
(* deadline that are not settled, and the caller's request, like the       *)
(* close's second one, is pending until the call ends cancelled.           *)
CancelKept(c) ==
    /\ c \in cutCalls <=> "cut" \in pending[c]
    /\ cancelling[c] = One(c \in cutCalls) + One(AskedBy(c, "caller"))
                        + One("deadline" \in pending[c]) + One(c \in recut)
    /\ \A by \in {"caller", "deadline"} : by \in pending[c] => AskedBy(c, by)
    /\ AskedBy(c, "caller") =>
          "caller" \in pending[c] \/ (pc[c] = "ended" /\ result[c] = "cancelled")
    /\ "again" \in pending[c] => c \in recut
    /\ c \in recut =>
          /\ c \notin cutCalls /\ pc[c] \in {"unwinding", "ended"}
          /\ "again" \in pending[c] \/ (pc[c] = "ended" /\ result[c] = "cancelled")
    /\ result[c] = "cancelled" =>
          pc[c] = "ended" /\ (AskedBy(c, "caller") \/ c \in recut)
CancelsKept == \A c \in Calls : CancelKept(c)

(* The lock has one holder, and the calls that wait for it stand in line   *)
(* once each.                                                              *)
LockKept ==
    /\ \A c, d \in Calls : Inside(c) /\ Inside(d) => c = d
    /\ Once(line)
    /\ \A c \in Calls : Member(line, c) => pc[c] = "lockwait"

(* A ticket is held from its check to the end of its section, or to the    *)
(* announcement of its refusal, and whoever checks waits for every ticket  *)
(* taken before its own that is still held.                                *)
Ticketed(c) == pc[c] \in {"checking", "refusing"} \/ UsesLock(c)
AdmissionKept ==
    /\ \A c \in tickets : Ticketed(c)
    /\ Once(taken)
    /\ \A c \in Calls : Member(taken, c) =>
          /\ pc[c] \notin {"out", "preparing"}
          /\ Ticketed(c) => c \in tickets
    /\ \A c, d \in Calls : Before(taken, c, d) /\ c \in tickets =>
          /\ pc[d] = "checking" => c \in ahead[d]
          /\ ~UsesLock(d)

DoorInv == DoorTypeOK /\ StagesKept /\ CancelsKept /\ LockKept /\ AdmissionKept

(* What a call that leaves changes: its places and its ticket.             *)
LEMMA Leaving ==
    ASSUME DoorInv, NEW c \in Calls, Leave(c)
    PROVE  /\ line' \in Seq(Calls) /\ Once(line)'
           /\ \A x : Member(line', x) <=> Member(line, x) /\ x # c
           /\ taken' \in Seq(Calls) /\ Once(taken)'
           /\ \A x : Member(taken', x) <=> Member(taken, x) /\ x # c
           /\ \A x, y : Before(taken', x, y) => Before(taken, x, y)
           /\ tickets' = tickets \ {c} /\ ahead' = [ahead EXCEPT ![c] = {}]
<1>1. line \in Seq(Calls) /\ taken \in Seq(Calls) /\ Once(line) /\ Once(taken)
  BY DEF DoorInv, DoorTypeOK, LockKept, AdmissionKept
<1>2. line' = RemoveFirst(line, c) /\ taken' = RemoveFirst(taken, c)
  BY DEF Leave
<1>3. /\ line' \in Seq(Calls) /\ Once(line)'
      /\ \A x : Member(line', x) <=> Member(line, x) /\ x # c
  BY <1>1, <1>2, LineLeft
<1>4. /\ taken' \in Seq(Calls) /\ Once(taken)'
      /\ \A x : Member(taken', x) <=> Member(taken, x) /\ x # c
      /\ \A x, y : Before(taken', x, y) => Before(taken, x, y)
  BY <1>1, <1>2, LineLeft
<1> QED
  BY <1>3, <1>4 DEF Leave, GiveTicketBack

(* What a step does to a call's stage keeps what it says of the call.      *)
LEMMA StagesStay ==
    ASSUME DoorInv, [DoorNext]_doorVars
    PROVE  StagesKept'
<1> USE DEF DoorTypeOK, StageKept, Early, Inside, UsesLock, Stages, Results
<1> SUFFICES ASSUME NEW d \in Calls PROVE StageKept(d)'
  BY DEF StagesKept
<1>0. DoorTypeOK /\ StageKept(d) /\ CancelKept(d)
  BY DEF DoorInv, StagesKept, CancelsKept
<1>1. ASSUME NEW c \in Calls, Start(c) PROVE StageKept(d)'
  BY <1>0, <1>1 DEF Start, Moves, Ends
<1>2. ASSUME NEW c \in Calls, TakeTicket(c) PROVE StageKept(d)'
  BY <1>0, <1>2 DEF TakeTicket, Moves, Ahead
<1>3. ASSUME NEW c \in Calls, Arrive(c) PROVE StageKept(d)'
  BY <1>0, <1>3 DEF Arrive, Moves, Ends, GiveTicketBack, Admitted
<1>4. ASSUME NEW c \in Calls, Acquire(c) PROVE StageKept(d)'
  BY <1>0, <1>4 DEF Acquire, Moves
<1>5. ASSUME NEW c \in Calls, Refuse(c) PROVE StageKept(d)'
  BY <1>0, <1>5 DEF Refuse, Moves
<1>6. ASSUME NEW c \in Calls, Decide(c) PROVE StageKept(d)'
  BY <1>0, <1>6 DEF Decide, Moves
<1>7. ASSUME NEW c \in Calls, CallerCancels(c) PROVE StageKept(d)'
  BY <1>0, <1>7 DEF CallerCancels, Moves, AskCancel
<1>8. ASSUME NEW c \in Calls, DeadlinePasses(c) PROVE StageKept(d)'
  BY <1>0, <1>8 DEF DeadlinePasses, Moves, AskCancel
<1>9. ASSUME NEW c \in Calls, Raise(c) PROVE StageKept(d)'
  <2>1. CASE d = c
    BY <1>0, <1>9, <2>1 DEF Raise, Moves, Ends, Late, CutAlone, CanRaise
  <2>2. CASE d # c
    BY <1>0, <1>9, <2>2 DEF Raise, Moves, Ends, Late, CutAlone, CanRaise
  <2> QED
    BY <2>1, <2>2
<1>10. ASSUME NEW c \in Calls, WriteEnds(c) PROVE StageKept(d)'
  BY <1>0, <1>10 DEF WriteEnds, Moves
<1>11. ASSUME NEW c \in Calls, Return(c) PROVE StageKept(d)'
  <2>1. CASE d = c
    BY <1>0, <1>11, <2>1 DEF Return, Moves, Ends
  <2>2. CASE d # c
    BY <1>0, <1>11, <2>2 DEF Return, Moves, Ends
  <2> QED
    BY <2>1, <2>2
<1>12. ASSUME NEW c \in Calls, Finish(c) PROVE StageKept(d)'
  BY <1>0, <1>12 DEF Finish, Moves
<1>13. ASSUME NEW c \in Calls, ReadBack(c) PROVE StageKept(d)'
  BY <1>0, <1>13 DEF ReadBack, Moves, Ends
<1>14. CASE CutWaiting
  BY <1>0, <1>14 DEF CutWaiting, Cut, Waiting, Running
<1>15. CASE CutRunning
  BY <1>0, <1>15 DEF CutRunning, Cut, Waiting, Running, ReadingBack
<1>16. CASE UNCHANGED doorVars
  BY <1>0, <1>16 DEF doorVars
<1>17. ASSUME NEW c \in Calls, TimesOut(c) PROVE StageKept(d)'
  <2>1. CASE d = c
    BY <1>0, <1>17, <2>1 DEF TimesOut, Moves, CanRaise
  <2>2. CASE d # c
    BY <1>0, <1>17, <2>2 DEF TimesOut, Moves
  <2> QED
    BY <2>1, <2>2
<1>18. ASSUME NEW c \in Calls, Announced(c) PROVE StageKept(d)'
  <2>1. CASE d = c
    BY <1>0, <1>18, <2>1 DEF Announced, Moves
  <2>2. CASE d # c
    BY <1>0, <1>18, <2>2 DEF Announced, Moves
  <2> QED
    BY <2>1, <2>2
<1> QED
  BY <1>1, <1>2, <1>3, <1>4, <1>5, <1>6, <1>7, <1>8, <1>9, <1>10, <1>11, <1>12, <1>13, <1>14, <1>15, <1>16, <1>17, <1>18 DEF DoorNext, GoesOn

(* Every step keeps what is counted of the cancels asked of a call. *)
LEMMA CancelsStay ==
    ASSUME DoorInv, [DoorNext]_doorVars
    PROVE  CancelsKept'
<1> USE DEF DoorTypeOK, StageKept, CancelKept, Early, One, AskedBy
<1> SUFFICES ASSUME NEW d \in Calls PROVE CancelKept(d)'
  BY DEF CancelsKept
<1>0. DoorTypeOK /\ StageKept(d) /\ CancelKept(d)
  BY DEF DoorInv, StagesKept, CancelsKept
<1>1. ASSUME NEW c \in Calls, Start(c) PROVE CancelKept(d)'
  BY <1>0, <1>1 DEF Start, Moves, Ends
<1>2. ASSUME NEW c \in Calls, TakeTicket(c) PROVE CancelKept(d)'
  BY <1>0, <1>2 DEF TakeTicket, Moves, Ahead
<1>3. ASSUME NEW c \in Calls, Arrive(c) PROVE CancelKept(d)'
  BY <1>0, <1>3 DEF Arrive, Moves, Ends, GiveTicketBack, Admitted
<1>4. ASSUME NEW c \in Calls, Acquire(c) PROVE CancelKept(d)'
  BY <1>0, <1>4 DEF Acquire, Moves
<1>5. ASSUME NEW c \in Calls, Refuse(c) PROVE CancelKept(d)'
  <2>1. CASE d = c
    BY <1>0, <1>5, <2>1 DEF Refuse, Moves
  <2>2. CASE d # c
    BY <1>0, <1>5, <2>2 DEF Refuse, Moves
  <2> QED
    BY <2>1, <2>2
<1>6. ASSUME NEW c \in Calls, Decide(c) PROVE CancelKept(d)'
  BY <1>0, <1>6 DEF Decide, Moves
<1>7. ASSUME NEW c \in Calls, CallerCancels(c) PROVE CancelKept(d)'
  <2>1. CASE d = c
    BY <1>0, <1>7, <2>1 DEF CallerCancels, Moves, AskCancel
  <2>2. CASE d # c
    BY <1>0, <1>7, <2>2 DEF CallerCancels, Moves, AskCancel
  <2> QED
    BY <2>1, <2>2
<1>8. ASSUME NEW c \in Calls, DeadlinePasses(c) PROVE CancelKept(d)'
  <2>1. CASE d = c
    BY <1>0, <1>8, <2>1 DEF DeadlinePasses, Moves, AskCancel
  <2>2. CASE d # c
    BY <1>0, <1>8, <2>2 DEF DeadlinePasses, Moves, AskCancel
  <2> QED
    BY <2>1, <2>2
<1>9. ASSUME NEW c \in Calls, Raise(c) PROVE CancelKept(d)'
  <2>1. CASE d = c
    <3> DEFINE count == cancelling[c] - Late(c)
    <3>1. /\ count \in Nat /\ pending'[c] = {} /\ asked' = asked /\ recut' = recut
          /\ pending[c] \in SUBSET {"cut", "again", "caller", "deadline"}
          /\ pending[c] \notin {{}, {"deadline"}}
          /\ count = One(c \in cutCalls) + One(AskedBy(c, "caller")) + One(c \in recut)
          /\ pc[c] # "ended" /\ cutCalls' = cutCalls \ {c}
      BY <1>0, <1>9, <2>1 DEF Raise, Late, CanRaise
    <3> HIDE DEF count
    <3>2. CASE /\ CutAlone(c, count)
               /\ cancelling' = [cancelling EXCEPT ![c] = count - 1]
               /\ \/ Moves(c, "unwinding") /\ UNCHANGED result
                  \/ Ends(c, "cut_nothing")
      <4>1. /\ cancelling'[c] = 0 /\ c \notin cutCalls' /\ c \in cutCalls
            /\ ~AskedBy(c, "caller") /\ c \notin recut
        BY <1>0, <2>1, <3>1, <3>2 DEF CutAlone
      <4>2. result'[c] # "cancelled"
        BY <1>0, <2>1, <3>1, <3>2 DEF Ends
      <4> QED
        BY <2>1, <3>1, <4>1, <4>2
    <3>3. CASE /\ ~CutAlone(c, count)
               /\ Ends(c, "cancelled")
               /\ cancelling' = [cancelling EXCEPT ![c] =
                                    IF c \in cutCalls THEN count - 1 ELSE count]
      <4>1. AskedBy(c, "caller") \/ c \in recut
        <5>1. CASE c \in cutCalls
          BY <3>1, <3>3, <5>1 DEF CutAlone
        <5>2. CASE c \notin cutCalls
          <6>1. "cut" \notin pending[c]
            BY <1>0, <2>1, <5>2
          <6>2. "caller" \in pending[c] \/ "again" \in pending[c]
            BY <3>1, <6>1
          <6> QED
            BY <1>0, <2>1, <6>2
        <5> QED
          BY <5>1, <5>2
      <4>2. /\ pc'[c] = "ended" /\ result'[c] = "cancelled" /\ c \notin cutCalls'
            /\ cancelling'[c] = One(AskedBy(c, "caller")) + One(c \in recut)
        BY <1>0, <2>1, <3>1, <3>3 DEF Moves, Ends
      <4> QED
        BY <2>1, <3>1, <4>1, <4>2
    <3> QED
      BY <1>9, <3>2, <3>3 DEF Raise, count
  <2>2. CASE d # c
    BY <1>0, <1>9, <2>2 DEF Raise, Moves, Ends, Late, CutAlone, CanRaise
  <2> QED
    BY <2>1, <2>2
<1>10. ASSUME NEW c \in Calls, WriteEnds(c) PROVE CancelKept(d)'
  BY <1>0, <1>10 DEF WriteEnds, Moves
<1>11. ASSUME NEW c \in Calls, Return(c) PROVE CancelKept(d)'
  <2>1. CASE d = c
    BY <1>0, <1>11, <2>1 DEF Return, Moves, Ends
  <2>2. CASE d # c
    BY <1>0, <1>11, <2>2 DEF Return, Moves, Ends
  <2> QED
    BY <2>1, <2>2
<1>12. ASSUME NEW c \in Calls, Finish(c) PROVE CancelKept(d)'
  BY <1>0, <1>12 DEF Finish, Moves
<1>13. ASSUME NEW c \in Calls, ReadBack(c) PROVE CancelKept(d)'
  <2>1. CASE d = c
    BY <1>0, <1>13, <2>1 DEF ReadBack, Moves, Ends
  <2>2. CASE d # c
    BY <1>0, <1>13, <2>2 DEF ReadBack, Moves, Ends
  <2> QED
    BY <2>1, <2>2
<1>14. CASE CutWaiting
  BY <1>0, <1>14 DEF CutWaiting, Cut, Waiting, Running
<1>15. CASE CutRunning
  <2>1. CASE d \in ReadingBack
    <3>1. /\ pc[d] = "unwinding" /\ cancelling[d] = 0 /\ d \notin cutCalls
          /\ d \notin recut /\ ~AskedBy(d, "caller") /\ "deadline" \notin pending[d]
      BY <1>0, <2>1 DEF ReadingBack
    <3>2. /\ d \notin cutCalls' /\ d \in recut' /\ pending'[d] = {"again"}
          /\ cancelling'[d] = 1 /\ UNCHANGED <<pc, result, asked>>
      BY <1>0, <1>15, <2>1, <3>1 DEF CutRunning, Cut, Waiting, Running
    <3> QED
      BY <3>1, <3>2, <1>0
  <2>2. CASE d \notin ReadingBack /\ d \in (Running \cup Waiting) \ cutCalls
    <3>1. d \notin recut /\ pc[d] # "ended"
      BY <1>0, <2>2 DEF Waiting, Running
    <3>2. /\ d \in cutCalls' /\ d \notin recut' /\ pending'[d] = pending[d] \cup {"cut"}
          /\ cancelling'[d] = cancelling[d] + 1 /\ UNCHANGED <<pc, result, asked>>
      BY <1>0, <1>15, <2>2, <3>1 DEF CutRunning, Cut
    <3> QED
      BY <3>1, <3>2, <1>0, <2>2
  <2>3. CASE d \notin ReadingBack /\ d \notin (Running \cup Waiting) \ cutCalls
    <3>1. /\ d \in cutCalls' <=> d \in cutCalls
          /\ d \in recut' <=> d \in recut
          /\ pending'[d] = pending[d] /\ cancelling'[d] = cancelling[d]
          /\ UNCHANGED <<pc, result, asked>>
      BY <1>0, <1>15, <2>3 DEF CutRunning, Cut
    <3> QED
      BY <3>1, <1>0
  <2> QED
    BY <2>1, <2>2, <2>3
<1>16. CASE UNCHANGED doorVars
  BY <1>0, <1>16 DEF doorVars
<1>17. ASSUME NEW c \in Calls, TimesOut(c) PROVE CancelKept(d)'
  <2>1. CASE d = c
    <3>1. /\ pending[c] = {"deadline"} /\ pending'[c] = {} /\ c \notin cutCalls
          /\ pc[c] \in Early /\ c \notin recut /\ ~AskedBy(c, "caller")
          /\ cancelling[c] = 1
      BY <1>0, <1>17, <2>1 DEF TimesOut
    <3>2. /\ cancelling'[c] = 0 /\ result'[c] = "refused"
          /\ UNCHANGED <<cutCalls, asked, recut>>
      BY <1>0, <1>17, <3>1 DEF TimesOut, Late
    <3> QED
      BY <2>1, <3>1, <3>2
  <2>2. CASE d # c
    BY <1>0, <1>17, <2>2 DEF TimesOut, Moves, Late
  <2> QED
    BY <2>1, <2>2
<1>18. ASSUME NEW c \in Calls, Announced(c) PROVE CancelKept(d)'
  <2>1. CASE d = c
    BY <1>0, <1>18, <2>1 DEF Announced, Moves
  <2>2. CASE d # c
    BY <1>0, <1>18, <2>2 DEF Announced, Moves
  <2> QED
    BY <2>1, <2>2
<1> QED
  BY <1>1, <1>2, <1>3, <1>4, <1>5, <1>6, <1>7, <1>8, <1>9, <1>10, <1>11, <1>12, <1>13, <1>14, <1>15, <1>16, <1>17, <1>18 DEF DoorNext, GoesOn

(* Leaving keeps the shape of the tickets and of the lines. *)
LEMMA LeavingTyped ==
    ASSUME DoorInv, NEW c \in Calls, Leave(c)
    PROVE  /\ tickets' \in SUBSET Calls /\ ahead' \in [Calls -> SUBSET Calls]
           /\ line' \in Seq(Calls) /\ taken' \in Seq(Calls)
<1>1. tickets \in SUBSET Calls /\ ahead \in [Calls -> SUBSET Calls]
  BY DEF DoorInv, DoorTypeOK
<1>2. tickets' = tickets \ {c} /\ ahead' = [ahead EXCEPT ![c] = {}]
  BY Leaving
<1>3. line' \in Seq(Calls) /\ taken' \in Seq(Calls)
  BY Leaving
<1> QED
  BY <1>1, <1>2, <1>3

(* The state keeps its shape: no count of requests falls below none.       *)
LEMMA DoorTyped ==
    ASSUME DoorInv, [DoorNext]_doorVars
    PROVE  DoorTypeOK'
<1> USE DEF DoorTypeOK, Stages, Results
<1>0. DoorTypeOK /\ \A c \in Calls : StageKept(c) /\ CancelKept(c)
  BY DEF DoorInv, StagesKept, CancelsKept
<1>c. ASSUME NEW c \in Calls
      PROVE  /\ cancelling[c] - Late(c) \in Nat
             /\ c \in cutCalls => cancelling[c] - Late(c) - 1 \in Nat
  <2>1. cancelling[c] = One(c \in cutCalls) + One(AskedBy(c, "caller"))
                          + One("deadline" \in pending[c]) + One(c \in recut)
    BY <1>0 DEF CancelKept
  <2> QED
    BY <2>1 DEF Late, One
<1>1. ASSUME NEW c \in Calls, Start(c) PROVE DoorTypeOK'
  <2>1. pc' \in [Calls -> Stages] /\ result' \in [Calls -> Results]
    BY <1>0, <1>1 DEF Start, Moves, Ends
  <2> QED
    BY <1>0, <1>1, <2>1 DEF Start
<1>2. ASSUME NEW c \in Calls, TakeTicket(c) PROVE DoorTypeOK'
  BY <1>0, <1>2 DEF TakeTicket, Moves, Ahead
<1>3. ASSUME NEW c \in Calls, Arrive(c) PROVE DoorTypeOK'
  <2>1. /\ pc' \in [Calls -> Stages] /\ result' \in [Calls -> Results]
        /\ tickets' \in SUBSET Calls /\ ahead' \in [Calls -> SUBSET Calls]
        /\ line' \in Seq(Calls)
    <3>1. CASE closing # "open"
      BY <1>0, <1>3, <3>1 DEF Arrive, Moves, Ends, GiveTicketBack
    <3>2. CASE closing = "open"
      <4>1. line' \in Seq(Calls) /\ pc' \in [Calls -> Stages]
        <5>1. line \in Seq(Calls) /\ pc \in [Calls -> Stages]
          BY <1>0
        <5> QED
          BY <1>3, <3>2, <5>1 DEF Arrive, Moves
      <4> QED
        BY <1>0, <1>3, <3>2, <4>1 DEF Arrive
    <3> QED
      BY <3>1, <3>2
  <2> QED
    BY <1>0, <1>3, <2>1 DEF Arrive
<1>4. ASSUME NEW c \in Calls, Acquire(c) PROVE DoorTypeOK'
  BY <1>0, <1>4 DEF Acquire, Moves
<1>5. ASSUME NEW c \in Calls, Refuse(c) PROVE DoorTypeOK'
  <2>1. /\ tickets' \in SUBSET Calls /\ ahead' \in [Calls -> SUBSET Calls]
        /\ line' \in Seq(Calls) /\ taken' \in Seq(Calls)
    BY <1>5, LeavingTyped DEF Refuse
  <2> QED
    BY <1>0, <1>5, <2>1 DEF Refuse, Moves
<1>6. ASSUME NEW c \in Calls, Decide(c) PROVE DoorTypeOK'
  BY <1>0, <1>6 DEF Decide, Moves
<1>7. ASSUME NEW c \in Calls, NEW by \in {"caller", "deadline"}, AskCancel(c, by),
             UNCHANGED <<closing, pc, tickets, ahead, line, cutCalls, committing,
                         writes, stored, result, recut, unread, taken>>
      PROVE  DoorTypeOK'
  BY <1>0, <1>7 DEF AskCancel
<1>8. ASSUME NEW c \in Calls, Raise(c) PROVE DoorTypeOK'
  <2>1. /\ tickets' \in SUBSET Calls /\ ahead' \in [Calls -> SUBSET Calls]
        /\ line' \in Seq(Calls) /\ taken' \in Seq(Calls)
    BY <1>8, LeavingTyped DEF Raise
  <2> DEFINE count == cancelling[c] - Late(c)
  <2>2. count \in Nat /\ (c \in cutCalls => count - 1 \in Nat)
    BY <1>c
  <2> HIDE DEF count
  <2>3. /\ pc' \in [Calls -> Stages] /\ result' \in [Calls -> Results]
        /\ cancelling' \in [Calls -> Nat] /\ cutCalls' \in SUBSET Calls
    <3>1. CASE /\ CutAlone(c, count)
               /\ cancelling' = [cancelling EXCEPT ![c] = count - 1]
               /\ \/ Moves(c, "unwinding") /\ UNCHANGED result
                  \/ Ends(c, "cut_nothing")
      <4>1. count - 1 \in Nat /\ cutCalls' = cutCalls \ {c}
        BY <1>8, <2>2, <3>1 DEF Raise, CutAlone
      <4>2. pc' \in [Calls -> Stages] /\ result' \in [Calls -> Results]
        BY <1>0, <3>1 DEF Moves, Ends
      <4> QED
        BY <1>0, <3>1, <4>1, <4>2
    <3>2. CASE /\ ~CutAlone(c, count)
               /\ Ends(c, "cancelled")
               /\ cancelling' = [cancelling EXCEPT ![c] =
                                    IF c \in cutCalls THEN count - 1 ELSE count]
      BY <1>0, <1>8, <2>2, <3>2 DEF Raise, Moves, Ends
    <3> QED
      BY <1>8, <3>1, <3>2 DEF Raise, count
  <2> QED
    BY <1>0, <1>8, <2>1, <2>3 DEF Raise
<1>9. ASSUME NEW c \in Calls, WriteEnds(c) PROVE DoorTypeOK'
  BY <1>0, <1>9 DEF WriteEnds
<1>10. ASSUME NEW c \in Calls, Return(c) PROVE DoorTypeOK'
  <2>1. /\ tickets' \in SUBSET Calls /\ ahead' \in [Calls -> SUBSET Calls]
        /\ line' \in Seq(Calls) /\ taken' \in Seq(Calls)
    BY <1>10, LeavingTyped DEF Return
  <2>2. pc' \in [Calls -> Stages] /\ result' \in [Calls -> Results]
    BY <1>0, <1>10 DEF Return, Moves, Ends
  <2> QED
    BY <1>0, <1>10, <2>1, <2>2 DEF Return
<1>11. ASSUME NEW c \in Calls, Finish(c) PROVE DoorTypeOK'
  BY <1>0, <1>11 DEF Finish, Moves
<1>12. ASSUME NEW c \in Calls, ReadBack(c) PROVE DoorTypeOK'
  <2>1. PICK r \in {"cut_stored", "cut_nothing"} : Ends(c, r)
    BY <1>12 DEF ReadBack
  <2>2. /\ pc' \in [Calls -> Stages] /\ result' \in [Calls -> Results]
        /\ unread' \in SUBSET Calls
    BY <1>0, <1>12, <2>1 DEF ReadBack, Moves, Ends
  <2> QED
    BY <1>0, <1>12, <2>2 DEF ReadBack
<1>13. CASE CutWaiting
  BY <1>0, <1>13 DEF CutWaiting, Cut, Waiting
<1>14. CASE CutRunning
  BY <1>0, <1>14 DEF CutRunning, Cut, Waiting, Running, ReadingBack
<1>15. CASE UNCHANGED doorVars
  BY <1>0, <1>15 DEF doorVars
<1>16. ASSUME NEW c \in Calls, CallerCancels(c) \/ DeadlinePasses(c) PROVE DoorTypeOK'
  BY <1>7, <1>16 DEF CallerCancels, DeadlinePasses
<1>17. ASSUME NEW c \in Calls, TimesOut(c) PROVE DoorTypeOK'
  <2>1. /\ tickets' \in SUBSET Calls /\ ahead' \in [Calls -> SUBSET Calls]
        /\ line' \in Seq(Calls) /\ taken' \in Seq(Calls)
    <3>1. CASE Leave(c)
      BY <3>1, LeavingTyped
    <3>2. CASE UNCHANGED <<tickets, ahead, taken>> /\ line' \in {line, RemoveFirst(line, c)}
      <4>1. line \in Seq(Calls) /\ Once(line)
        BY DEF DoorInv, LockKept
      <4>2. RemoveFirst(line, c) \in Seq(Calls)
        BY <4>1, LineLeft
      <4> QED
        BY <1>0, <3>2, <4>1, <4>2
    <3> QED
      BY <1>17, <3>1, <3>2 DEF TimesOut
  <2>2. /\ pc' \in [Calls -> Stages] /\ result' \in [Calls -> Results]
    BY <1>0, <1>17 DEF TimesOut, Moves
  <2>3. cancelling[c] - Late(c) \in Nat
    BY <1>c
  <2> QED
    BY <1>0, <1>17, <2>1, <2>2, <2>3 DEF TimesOut
<1>18. ASSUME NEW c \in Calls, Announced(c) PROVE DoorTypeOK'
  <2>1. /\ tickets' \in SUBSET Calls /\ ahead' \in [Calls -> SUBSET Calls]
        /\ line' \in Seq(Calls) /\ taken' \in Seq(Calls)
    BY <1>18, LeavingTyped DEF Announced
  <2> QED
    BY <1>0, <1>18, <2>1 DEF Announced, Moves
<1> QED
  BY <1>1, <1>2, <1>3, <1>4, <1>5, <1>6, <1>8, <1>9, <1>10, <1>11, <1>12, <1>13, <1>14,
     <1>15, <1>16, <1>17, <1>18 DEF DoorNext, GoesOn

(* The calls that a step moves but that have no place in line.             *)
LEMMA LockStays ==
    ASSUME DoorInv, [DoorNext]_doorVars
    PROVE  LockKept'
<1>0. /\ DoorTypeOK /\ LockKept /\ \A c \in Calls : StageKept(c)
      /\ line \in Seq(Calls) /\ pc \in [Calls -> Stages] /\ Once(line)
  BY DEF DoorInv, StagesKept, LockKept, DoorTypeOK
<1> USE DEF LockKept, Inside
<1>1. ASSUME NEW c \in Calls, NEW s \in Stages \ {"locked"}, Moves(c, s), line' = line,
             pc[c] # "lockwait", s \in {"writing", "announcing"} => pc[c] = "locked"
      PROVE  LockKept'
  BY <1>0, <1>1 DEF Moves
<1>2. ASSUME NEW c \in Calls, Arrive(c) PROVE LockKept'
  <2>0. pc[c] \in {"preparing", "checking"} /\ ~Member(line, c)
    BY <1>0, <1>2 DEF Arrive, Admitted
  <2>1. CASE closing # "open"
    BY <1>0, <1>1, <1>2, <2>0, <2>1 DEF Arrive, Ends, Stages
  <2>2. CASE closing = "open" /\ Free
    BY <1>0, <1>2, <2>0, <2>2 DEF Arrive, Moves, Free, Held
  <2>3. CASE closing = "open" /\ ~Free
    <3>1. line' = Append(line, c) /\ Moves(c, "lockwait")
      BY <1>2, <2>3 DEF Arrive
    <3>2. Once(line)' /\ \A x : Member(line', x) <=> Member(line, x) \/ x = c
      BY <1>0, <2>0, <3>1, LineJoined
    <3> QED
      BY <1>0, <2>0, <3>1, <3>2 DEF Moves
  <2> QED
    BY <2>1, <2>2, <2>3
<1>3. ASSUME NEW c \in Calls, Acquire(c) PROVE LockKept'
  <2>1. /\ line' = Tail(line) /\ line # <<>> /\ c = Head(line) /\ Moves(c, "locked")
        /\ \A d \in Calls : ~Inside(d)
    BY <1>3 DEF Acquire, Held
  <2>2. Once(line)' /\ \A x : Member(line', x) => Member(line, x) /\ x # c
    BY <1>0, <2>1, LineHeadGone
  <2> QED
    BY <1>0, <2>1, <2>2 DEF Moves
<1>4. ASSUME NEW c \in Calls, line' = RemoveFirst(line, c),
             NEW s \in Stages \ {"locked", "lockwait", "writing", "announcing"}, Moves(c, s)
      PROVE  LockKept'
  <2>1. Once(line)' /\ \A x : Member(line', x) <=> Member(line, x) /\ x # c
    BY <1>0, <1>4, LineLeft
  <2> QED
    BY <1>0, <1>4, <2>1 DEF Moves
<1>5. ASSUME pc' = pc, line' = line PROVE LockKept'
  BY <1>0, <1>5
<1>6. ASSUME NEW c \in Calls, Start(c) \/ TakeTicket(c) \/ Decide(c) \/ Finish(c) \/ ReadBack(c)
      PROVE  LockKept'
  <2>1. CASE Start(c)
    BY <1>1, <2>1 DEF Start, Ends, Stages
  <2>2. CASE TakeTicket(c)
    BY <1>1, <2>2 DEF TakeTicket, Stages
  <2>3. CASE Decide(c)
    BY <1>1, <2>3 DEF Decide, Stages
  <2>4. CASE Finish(c)
    BY <1>1, <2>4 DEF Finish, Stages
  <2>5. CASE ReadBack(c)
    BY <1>1, <2>5 DEF ReadBack, Ends, Stages
  <2> QED
    BY <1>6, <2>1, <2>2, <2>3, <2>4, <2>5
<1>7. ASSUME NEW c \in Calls,
             Refuse(c) \/ Raise(c) \/ Return(c) \/ TimesOut(c) \/ Announced(c)
      PROVE  LockKept'
  <2>1. CASE Refuse(c)
    BY <1>4, <2>1 DEF Refuse, Leave, Stages
  <2>2. CASE Raise(c)
    BY <1>4, <2>2 DEF Raise, Leave, Ends, Stages
  <2>3. CASE Return(c)
    BY <1>4, <2>3 DEF Return, Leave, Ends, Stages
  <2>4. CASE TimesOut(c)
    <3>1. CASE Moves(c, "announcing") /\ line' = line /\ pc[c] = "locked"
      BY <1>1, <3>1 DEF Stages
    <3>2. CASE Moves(c, "refusing") /\ line' = RemoveFirst(line, c)
      BY <1>4, <3>2 DEF Stages
    <3> QED
      BY <2>4, <3>1, <3>2 DEF TimesOut, Leave
  <2>5. CASE Announced(c)
    BY <1>4, <2>5 DEF Announced, Leave, Stages
  <2> QED
    BY <1>7, <2>1, <2>2, <2>3, <2>4, <2>5
<1>8. ASSUME NEW c \in Calls, WriteEnds(c) \/ CallerCancels(c) \/ DeadlinePasses(c)
      PROVE  LockKept'
  BY <1>5, <1>8 DEF WriteEnds, CallerCancels, DeadlinePasses
<1>9. CASE CutWaiting \/ CutRunning \/ UNCHANGED doorVars
  BY <1>5, <1>9 DEF CutWaiting, CutRunning, doorVars
<1> QED
  BY <1>2, <1>3, <1>6, <1>7, <1>8, <1>9 DEF DoorNext, GoesOn

(* A call is past its check only behind every ticket before its own.       *)
LEMMA AdmissionStays ==
    ASSUME DoorInv, [DoorNext]_doorVars
    PROVE  AdmissionKept'
<1>0. /\ DoorTypeOK /\ AdmissionKept
      /\ taken \in Seq(Calls) /\ pc \in [Calls -> Stages] /\ Once(taken)
      /\ tickets \in SUBSET Calls /\ ahead \in [Calls -> SUBSET Calls]
      /\ \A c, d \in Calls : Before(taken, c, d) => Member(taken, c) /\ Member(taken, d)
  BY DEF DoorInv, AdmissionKept, DoorTypeOK, Before, Member
<1> USE DEF AdmissionKept, Ticketed, UsesLock, Inside
<1>1. ASSUME NEW c \in Calls, NEW s \in Stages, Moves(c, s),
             UNCHANGED <<tickets, ahead, taken>>,
             \/ pc[c] \in {"out", "preparing"} /\ s \in {"preparing", "lockwait", "locked", "ended"}
             \/ pc[c] \in {"delivering", "unwinding"} /\ s = "ended"
             \/ pc[c] \in {"locked", "lockwait"} /\ s \in {"locked", "writing", "announcing"}
             \/ pc[c] = "lockwait" /\ s = "refusing"
      PROVE  AdmissionKept'
  BY <1>0, <1>1 DEF Moves
<1>2. ASSUME NEW c \in Calls, TakeTicket(c) PROVE AdmissionKept'
  <2>0. pc[c] = "preparing" /\ ~Member(taken, c) /\ c \notin tickets
    BY <1>0, <1>2 DEF TakeTicket
  <2>1. /\ taken' = Append(taken, c) /\ tickets' = tickets \cup {c}
        /\ ahead' = [ahead EXCEPT ![c] = tickets] /\ Moves(c, "checking")
    BY <1>2 DEF TakeTicket, Ahead
  <2>2. /\ Once(taken)' /\ \A x : Member(taken', x) <=> Member(taken, x) \/ x = c
        /\ \A x, y : Before(taken', x, y) =>
              Before(taken, x, y) \/ (Member(taken, x) /\ y = c)
    BY <1>0, <2>0, <2>1, LineJoined
  <2>3. /\ pc'[c] = "checking" /\ \A d \in Calls \ {c} : pc'[d] = pc[d]
        /\ ahead'[c] = tickets /\ \A d \in Calls \ {c} : ahead'[d] = ahead[d]
        /\ \A d \in Calls : d \in tickets' <=> d \in tickets \/ d = c
        /\ \A d \in tickets' : d \in Calls
    BY <1>0, <2>1 DEF Moves
  <2> HIDE DEF AdmissionKept
  <2>4. ASSUME NEW d \in tickets' PROVE Ticketed(d)'
    BY <1>0, <2>3 DEF AdmissionKept
  <2>5. ASSUME NEW d \in Calls, Member(taken', d)
        PROVE  /\ pc'[d] \notin {"out", "preparing"}
               /\ Ticketed(d)' => d \in tickets'
    BY <1>0, <2>2, <2>3, <2>5 DEF AdmissionKept
  <2>6. ASSUME NEW d \in Calls, NEW e \in Calls, Before(taken', d, e), d \in tickets'
        PROVE  /\ pc'[e] = "checking" => d \in ahead'[e]
               /\ ~UsesLock(e)'
    <3>1. CASE e = c
      <4>1. Member(taken, d) /\ d # c
        BY <1>0, <2>0, <2>2, <2>6, <3>1
      <4> QED
        BY <2>3, <2>6, <3>1, <4>1
    <3>2. CASE e # c
      <4>1. Before(taken, d, e) /\ d # c
        BY <1>0, <2>0, <2>2, <2>6, <3>2
      <4> QED
        BY <1>0, <2>3, <2>6, <3>2, <4>1 DEF AdmissionKept
    <3> QED
      BY <3>1, <3>2
  <2> QED
    BY <2>2, <2>4, <2>5, <2>6 DEF AdmissionKept
<1>3. ASSUME NEW c \in Calls, Arrive(c) PROVE AdmissionKept'
  <2>1. CASE closing # "open"
    <3>1. /\ taken' = taken /\ tickets' = tickets \ {c} /\ ahead' = [ahead EXCEPT ![c] = {}]
          /\ pc' = [pc EXCEPT ![c] = "ended"]
      BY <1>3, <2>1 DEF Arrive, Ends, Moves, GiveTicketBack
    <3> QED
      BY <1>0, <3>1
  <2>2. CASE closing = "open"
    <3>1. PICK s \in {"locked", "lockwait"} : Moves(c, s)
      BY <1>3, <2>2 DEF Arrive
    <3>2. UNCHANGED <<tickets, ahead, taken>>
      BY <1>3, <2>2 DEF Arrive
    <3>3. CASE pc[c] = "preparing"
      BY <1>1, <3>1, <3>2, <3>3 DEF Stages
    <3>4. CASE pc[c] = "checking" /\ ahead[c] \cap tickets = {}
      <4>1. \A d \in Calls : Before(taken, d, c) => d \notin tickets
        BY <1>0, <3>4
      <4> QED
        BY <1>0, <3>1, <3>2, <3>4, <4>1 DEF Moves
    <3> QED
      BY <1>3, <3>3, <3>4 DEF Arrive, Admitted
  <2> QED
    BY <2>1, <2>2
<1>4. ASSUME NEW c \in Calls, Leave(c),
             NEW s \in {"delivering", "refusing", "unwinding", "ended"}, Moves(c, s)
      PROVE  AdmissionKept'
  <2>1. /\ Once(taken)' /\ tickets' = tickets \ {c} /\ ahead' = [ahead EXCEPT ![c] = {}]
        /\ \A x : Member(taken', x) <=> Member(taken, x) /\ x # c
        /\ \A x, y : Before(taken', x, y) => Before(taken, x, y)
    BY <1>4, Leaving
  <2> QED
    BY <1>0, <1>4, <2>1 DEF Moves
<1>5. ASSUME UNCHANGED <<pc, tickets, ahead, taken>> PROVE AdmissionKept'
  BY <1>0, <1>5
<1>6. ASSUME NEW c \in Calls,
             Start(c) \/ Acquire(c) \/ Decide(c) \/ Finish(c) \/ ReadBack(c)
      PROVE  AdmissionKept'
  <2>1. CASE Start(c)
    BY <1>1, <2>1 DEF Start, Ends, Stages
  <2>2. CASE Acquire(c)
    BY <1>1, <2>2 DEF Acquire, Stages
  <2>3. CASE Decide(c)
    BY <1>1, <2>3 DEF Decide, Stages
  <2>4. CASE Finish(c)
    BY <1>1, <2>4 DEF Finish, Stages
  <2>5. CASE ReadBack(c)
    BY <1>1, <2>5 DEF ReadBack, Ends, Stages
  <2> QED
    BY <1>6, <2>1, <2>2, <2>3, <2>4, <2>5
<1>7. ASSUME NEW c \in Calls,
             Refuse(c) \/ Raise(c) \/ Return(c) \/ TimesOut(c) \/ Announced(c)
      PROVE  AdmissionKept'
  <2>1. CASE Refuse(c)
    BY <1>4, <2>1 DEF Refuse, Stages
  <2>2. CASE Raise(c)
    BY <1>4, <2>2 DEF Raise, Ends, Stages
  <2>3. CASE Return(c)
    BY <1>4, <2>3 DEF Return, Ends, Stages
  <2>4. CASE TimesOut(c)
    <3>1. CASE /\ pc[c] = "locked" /\ Moves(c, "announcing")
               /\ UNCHANGED <<tickets, ahead, taken>>
      BY <1>1, <3>1 DEF Stages
    <3>2. CASE /\ pc[c] = "lockwait" /\ Moves(c, "refusing")
               /\ UNCHANGED <<tickets, ahead, taken>>
      BY <1>1, <3>2 DEF Stages
    <3>3. CASE Moves(c, "refusing") /\ Leave(c)
      BY <1>4, <3>3 DEF Stages
    <3> QED
      BY <2>4, <3>1, <3>2, <3>3 DEF TimesOut
  <2>5. CASE Announced(c)
    BY <1>4, <2>5 DEF Announced, Stages
  <2> QED
    BY <1>7, <2>1, <2>2, <2>3, <2>4, <2>5
<1>8. ASSUME NEW c \in Calls, WriteEnds(c) \/ CallerCancels(c) \/ DeadlinePasses(c)
      PROVE  AdmissionKept'
  BY <1>5, <1>8 DEF WriteEnds, CallerCancels, DeadlinePasses
<1>9. CASE CutWaiting \/ CutRunning \/ UNCHANGED doorVars
  BY <1>5, <1>9 DEF CutWaiting, CutRunning, doorVars
<1> QED
  BY <1>2, <1>3, <1>6, <1>7, <1>8, <1>9 DEF DoorNext, GoesOn

(* What a call was told of its event stays so: no event is stored once its *)
(* call was told it is not, but by a read-back that failed.                *)
Told(c) ==
    /\ result[c] \in {"stored", "cut_stored"} => c \in stored
    /\ result[c] = "refused" => c \notin stored
    /\ result[c] = "cut_nothing" /\ c \in stored => c \in unread

LEMMA TruthStays ==
    ASSUME DoorInv, CutTellsTruth, [DoorNext]_doorVars
    PROVE  CutTellsTruth'
<1> SUFFICES ASSUME NEW d \in Calls PROVE Told(d)'
  BY DEF CutTellsTruth, Told
<1>0. StageKept(d) /\ Told(d) /\ result \in [Calls -> Results]
  BY DEF CutTellsTruth, Told, DoorInv, DoorTypeOK, StagesKept
<1> USE DEF StageKept, Early, Told
<1>1. ASSUME NEW c \in Calls, Start(c) \/ Arrive(c) PROVE Told(d)'
  BY <1>0, <1>1 DEF Start, Arrive, Admitted, Ends
<1>2. ASSUME NEW c \in Calls,
             \/ TakeTicket(c) \/ Acquire(c) \/ Decide(c) \/ Announced(c)
             \/ Finish(c) \/ CallerCancels(c) \/ DeadlinePasses(c)
      PROVE  Told(d)'
  BY <1>0, <1>2 DEF TakeTicket, Acquire, Decide, Announced, Finish, CallerCancels,
                    DeadlinePasses
<1>3. ASSUME NEW c \in Calls, Refuse(c) \/ Return(c) \/ TimesOut(c) PROVE Told(d)'
  BY <1>0, <1>3 DEF Refuse, Return, TimesOut, Ends
<1>4. ASSUME NEW c \in Calls, WriteEnds(c) PROVE Told(d)'
  BY <1>0, <1>4 DEF WriteEnds
<1>5. ASSUME NEW c \in Calls, Raise(c) PROVE Told(d)'
  BY <1>0, <1>5 DEF Raise, Ends
<1>6. ASSUME NEW c \in Calls, ReadBack(c) PROVE Told(d)'
  BY <1>0, <1>6 DEF ReadBack, Ends
<1>7. CASE CutWaiting \/ CutRunning \/ UNCHANGED doorVars
  BY <1>0, <1>7 DEF CutWaiting, CutRunning, doorVars
<1> QED
  BY <1>1, <1>2, <1>3, <1>4, <1>5, <1>6, <1>7 DEF DoorNext, GoesOn

(***************************************************************************)
(* The theorems.                                                           *)
(***************************************************************************)
(* The invariant holds in every state of the door. *)
LEMMA DoorInvariant == DoorInit /\ [][DoorNext]_doorVars => []DoorInv
<1>1. DoorInit => DoorInv
  <2> SUFFICES ASSUME DoorInit PROVE DoorInv
    OBVIOUS
  <2> USE DEF DoorInit
  <2>1. DoorTypeOK
    BY DEF DoorTypeOK, Stages, Results
  <2>2. StagesKept
    BY DEF StagesKept, StageKept, Early
  <2>3. CancelsKept
    BY DEF CancelsKept, CancelKept, One, AskedBy
  <2>4. LockKept
    BY DEF LockKept, Inside, Once, Before, Member
  <2>5. AdmissionKept
    BY DEF AdmissionKept, Ticketed, Once, Before, Member
  <2> QED
    BY <2>1, <2>2, <2>3, <2>4, <2>5 DEF DoorInv
<1>2. DoorInv /\ [DoorNext]_doorVars => DoorInv'
  <2> SUFFICES ASSUME DoorInv, [DoorNext]_doorVars PROVE DoorInv'
    OBVIOUS
  <2>1. DoorTypeOK' /\ StagesKept' /\ CancelsKept'
    BY DoorTyped, StagesStay, CancelsStay
  <2>2. LockKept' /\ AdmissionKept'
    BY LockStays, AdmissionStays
  <2> QED
    BY <2>1, <2>2 DEF DoorInv
<1> QED
  BY <1>1, <1>2, PTL

(* The state of the door keeps its shape, whatever is cancelled when: the  *)
(* count of a task's cancellation requests never goes below none           *)
(* (core/_closing.py, _take_cut).                                          *)
THEOREM DoorTypeCorrect == DoorSpec => []DoorTypeOK
<1>1. DoorInv => DoorTypeOK
  BY DEF DoorInv
<1> QED
  BY <1>1, DoorInvariant, PTL DEF DoorSpec

(* One call at a time is in the room's locked section, and a call that     *)
(* left it holds no ticket and no place in line, for any number of calls   *)
(* and cancellations (core/admission.py, _release).                        *)
THEOREM DoorIsExclusive == DoorSpec => []ExclusiveDoor
<1>1. DoorInv => ExclusiveDoor
  <2> SUFFICES ASSUME DoorInv PROVE ExclusiveDoor
    OBVIOUS
  <2>1. \A i \in DOMAIN line : line[i] \in Calls /\ Member(line, line[i])
    BY DEF DoorInv, DoorTypeOK, Member
  <2>2. \A c \in writes : c \in Calls /\ pc[c] = "writing"
    BY DEF DoorInv, DoorTypeOK, StagesKept, StageKept
  <2> QED
    BY <2>1, <2>2 DEF DoorInv, LockKept, AdmissionKept, Ticketed, ExclusiveDoor
<1> QED
  BY <1>1, DoorInvariant, PTL DEF DoorSpec

(* A call enters the lock's line only once every call with an earlier      *)
(* ticket is past its section, by whatever end (core/admission.py,         *)
(* wait_turn).                                                             *)
THEOREM DoorKeepsAdmissionOrder == DoorSpec => []AdmissionOrder
<1>1. DoorInv => AdmissionOrder
  <2> SUFFICES ASSUME DoorInv, NEW i \in DOMAIN taken, NEW j \in DOMAIN taken, i < j,
                      UsesLock(taken[j])
               PROVE  pc[taken[i]] \in {"delivering", "unwinding", "ended"}
    BY DEF AdmissionOrder
  <2>1. /\ taken[i] \in Calls /\ taken[j] \in Calls
        /\ Before(taken, taken[i], taken[j]) /\ Member(taken, taken[i])
    BY DEF DoorInv, DoorTypeOK, Before, Member
  <2>2. /\ pc[taken[i]] \notin {"out", "preparing", "checking", "refusing"}
        /\ ~UsesLock(taken[i])
    BY <2>1 DEF DoorInv, AdmissionKept, Ticketed
  <2>3. pc[taken[i]] \in Stages
    BY <2>1 DEF DoorInv, DoorTypeOK
  <2> QED
    BY <2>2, <2>3 DEF Stages, UsesLock, Inside
<1> QED
  BY <1>1, DoorInvariant, PTL DEF DoorSpec

(* What a call is told of its event is so, wherever a cut or a deadline    *)
(* met it: it is stored if the call says so, and if the call says that     *)
(* nothing is, nothing ever is, unless its read-back failed or timed out   *)
(* (core/_closing.py, _read_back).                                         *)
THEOREM DoorTellsTruth == DoorSpec => []CutTellsTruth
<1>1. DoorInit => CutTellsTruth
  BY DEF DoorInit, CutTellsTruth
<1>2. DoorInv /\ CutTellsTruth /\ [DoorNext]_doorVars => CutTellsTruth'
  BY TruthStays
<1> QED
  BY <1>1, <1>2, DoorInvariant, PTL DEF DoorSpec

(* A call that ended leaves its task the cancellation its caller asked,    *)
(* never swallowed by a cut or a deadline, and the one more the close asks *)
(* of a call that reads its commit back, and no other (core/_closing.py,   *)
(* _take_cut; core/task_utils.py, cut_once_started).                       *)
THEOREM DoorSettlesCancels == DoorSpec => []CancelsSettled
<1>1. DoorInv => CancelsSettled
  <2> SUFFICES ASSUME DoorInv, NEW c \in Calls, pc[c] = "ended"
               PROVE  /\ cancelling[c] = One(AskedBy(c, "caller")) + One(c \in recut)
                      /\ result[c] = "cancelled" <=>
                            AskedBy(c, "caller") \/ c \in recut
    BY DEF CancelsSettled
  <2>1. StageKept(c) /\ CancelKept(c)
    BY DEF DoorInv, StagesKept, CancelsKept
  <2> QED
    BY <2>1 DEF StageKept, CancelKept, One, AskedBy
<1> QED
  BY <1>1, DoorInvariant, PTL DEF DoorSpec
=============================================================================
