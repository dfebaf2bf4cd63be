----------------------------- MODULE KitProofs -----------------------------
(***************************************************************************)
(* Theorems about the smaller parts of the kit, RoomTimers, TaskRunner and *)
(* MemoryDelivery, for every value of their constants, and about the kit:  *)
(* in each of its behaviors the state of every part keeps its type.        *)
(***************************************************************************)
EXTENDS MCKit, RoomTurnsProofs, RoomDoorProofs

(***************************************************************************)
(* RoomTimers, for any delays, any number of attempts, any errands and any *)
(* span of time.                                                           *)
(***************************************************************************)

(* An attempt at hand is one of those left, and what it is about to write  *)
(* was due by the room as it was read.                                     *)
AttemptSound ==
    /\ section.step \in {"computing", "writing"} => section.tries > 0
    /\ section.step = "writing" =>
          /\ section.due # "nothing"
          /\ section.due = "paused" => PauseDue(section.read)
          /\ section.due = "closed" => CloseDue(section.read)

(* The clocks the timers run on are not behind what the room heard, unless *)
(* thresholds are adjusted.                                                *)
ClocksKept ==
    /\ heard <= clock
    /\ "retime" \notin Errands =>
          /\ row.status = "active" => heard <= row.activity
          /\ row.status = "paused" => heard <= row.pausedAt

(* A close that was due is computed, written, and seen by the section.     *)
OwedSeen ==
    section.owed =>
        /\ section.step = "computing" => CloseDue(section.read)
        /\ section.step = "writing" => section.due = "closed"
        /\ section.step = "reporting" => row.status = "closed"
        /\ section.step = "deciding" /\ section.errand = "message" =>
              section.read.status = "closed"

TimersInv == TimersTypeOK /\ AttemptSound /\ ClocksKept /\ OwedSeen

-----------------------------------------------------------------------------
(* What a commit of activity leaves of a row. *)
LEMMA ActiveNowRow ==
    ASSUME NEW r \in Rows, clock \in Instants
    PROVE  /\ ActiveNow(r) \in Rows
           /\ ActiveNow(r).activity = clock
           /\ ActiveNow(r).status # "paused"
           /\ r.status = "closed" => ActiveNow(r).status = "closed"
BY DEF ActiveNow, Rows

(* What a transition that is due writes. *)
LEMMA TransitionedRow ==
    ASSUME NEW r \in Rows, NEW due \in {"paused", "closed"}, clock \in Instants,
           due = "paused" => PauseDue(r)
    PROVE  /\ Transitioned(r, due) \in Rows
           /\ Transitioned(r, due).status = due
           /\ due = "paused" => Transitioned(r, due).pausedAt = r.activity + InactiveAfter
<1>1. due = "paused" => PausedFrom(r) = r.activity + InactiveAfter
                          /\ r.activity + InactiveAfter \in Instants
  BY TimersAssumption DEF PausedFrom, PauseDue, Instants, Rows
<1>2. due = "paused" => PausedFrom(r) \in Instants
  BY <1>1
<1>3. Transitioned(r, due) \in Rows
  BY <1>2 DEF Transitioned, Rows
<1>4. /\ Transitioned(r, due).status = due
      /\ due = "paused" => Transitioned(r, due).pausedAt = PausedFrom(r)
  BY DEF Transitioned, Rows
<1> QED
  BY <1>1, <1>3, <1>4

(* What is due stays due. *)
LEMMA DueStays ==
    ASSUME NEW r \in Rows, clock \in Instants, clock' \in Instants, clock <= clock'
    PROVE  /\ PauseDue(r) => PauseDue(r)'
           /\ CloseDue(r) => CloseDue(r)'
BY TimersAssumption DEF PauseDue, CloseDue, PausedFrom, Rows, Instants, Unpaused

(* What a section does at its end to the row. *)
LEMMA OutcomeRow ==
    ASSUME TimersTypeOK, Accepted
    PROVE  LET after == Outcome(section.errand, section.read)
           IN  /\ after \in Rows
               /\ section.errand = "message" => after = ActiveNow(row)
               /\ section.errand \in {"resume", "reopen"} => after.activity = clock
               /\ section.errand = "pause" => after.pausedAt = clock
               /\ section.errand \notin {"message", "resume", "reopen", "retime"} =>
                     after.status # "active"
               /\ section.errand \notin {"pause", "retime"} => after.status # "paused"
<1> DEFINE read == section.read
<1>1. read \in Rows /\ row \in Rows /\ clock \in Instants
  BY DEF TimersTypeOK
<1>2. section.errand \in {"message", "pause", "resume", "reopen", "close", "archive",
                          "retime"}
  BY TimersAssumption DEF Accepted, LeavesFrom, TimersTypeOK
<1>3. CASE section.errand = "message"
  BY <1>1, <1>3, ActiveNowRow DEF Outcome
<1>4. CASE section.errand = "pause"
  <2>1. /\ Paused(read) \in Rows
        /\ Paused(read).pausedAt = clock /\ Paused(read).status = "paused"
    BY <1>1 DEF Paused, Rows
  <2> QED
    BY <1>4, <2>1 DEF Outcome
<1>5. CASE section.errand \in {"resume", "reopen"}
  <2>1. /\ ActiveAgain(read) \in Rows
        /\ ActiveAgain(read).activity = clock /\ ActiveAgain(read).status = "active"
    BY <1>1 DEF ActiveAgain, Rows
  <2>2. Outcome(section.errand, section.read) = ActiveAgain(read)
    BY <1>5 DEF Outcome
  <2> QED
    BY <1>5, <2>1, <2>2
<1>6. CASE section.errand = "close"
  <2>1. Ended(read, "closed") \in Rows /\ Ended(read, "closed").status = "closed"
    BY <1>1 DEF Ended, Rows
  <2> QED
    BY <1>6, <2>1 DEF Outcome
<1>7. CASE section.errand = "archive"
  <2>1. Ended(read, "archived") \in Rows /\ Ended(read, "archived").status = "archived"
    BY <1>1 DEF Ended, Rows
  <2> QED
    BY <1>7, <2>1 DEF Outcome
<1>8. CASE section.errand = "retime"
  BY <1>1, <1>8 DEF Outcome, Retimed
<1> QED
  BY <1>2, <1>3, <1>4, <1>5, <1>6, <1>7, <1>8

-----------------------------------------------------------------------------
(* The types, what an attempt relies on, the clocks and the closes owed    *)
(* are kept by every step.                                                 *)
LEMMA TimersInvariant == TimersInit /\ [][TimersNext]_timersVars => []TimersInv
<1> USE TimersAssumption
<1>1. TimersInit => TimersInv
  BY DEF TimersInit, TimersInv, TimersTypeOK, AttemptSound, ClocksKept, OwedSeen, Rows,
         Instants, Unpaused
<1>2. TimersInv /\ [TimersNext]_timersVars => TimersInv'
  <2> SUFFICES ASSUME TimersInv, [TimersNext]_timersVars PROVE TimersInv'
    OBVIOUS
  <2>0. /\ TimersTypeOK /\ AttemptSound /\ ClocksKept /\ OwedSeen
        /\ clock \in Instants /\ row \in Rows /\ section.read \in Rows
        /\ clock \in Int /\ clock <= clock
    BY DEF TimersInv, TimersTypeOK, Instants
  <2>1. CASE Tick
    <3>1. clock' \in Instants /\ clock <= clock'
      BY <2>0, <2>1 DEF Tick, Instants
    <3>2. TimersTypeOK'
      BY <2>0, <2>1, <3>1 DEF Tick, TimersTypeOK
    <3>3. /\ PauseDue(section.read) => PauseDue(section.read)'
          /\ CloseDue(section.read) => CloseDue(section.read)'
      <4>1. section' = section
        BY <2>1 DEF Tick
      <4> QED
        BY <2>0, <3>1, <4>1, DueStays
    <3>4. AttemptSound'
      BY <2>0, <2>1, <3>3 DEF Tick, AttemptSound
    <3>5. ClocksKept'
      BY <2>0, <2>1, <3>1 DEF Tick, ClocksKept, TimersTypeOK, Instants
    <3>6. OwedSeen'
      BY <2>0, <2>1, <3>3 DEF Tick, OwedSeen
    <3> QED
      BY <3>2, <3>4, <3>5, <3>6 DEF TimersInv
  <2>2. CASE Greet
    <3>1. /\ row' \in Rows /\ row'.activity = clock /\ row'.status # "paused"
          /\ row.status = "closed" => row'.status = "closed"
      BY <2>0, <2>2, ActiveNowRow DEF Greet
    <3>2. /\ clock' = clock /\ heard' = clock
          /\ section' = [section EXCEPT !.owed = FALSE]
      BY <2>2 DEF Greet
    <3>3. TimersTypeOK'
      BY <2>0, <3>1, <3>2 DEF TimersTypeOK
    <3>4. AttemptSound'
      BY <2>0, <3>2 DEF AttemptSound, PauseDue, CloseDue, PausedFrom, TimersTypeOK
    <3>5. ClocksKept'
      BY <2>0, <3>1, <3>2 DEF ClocksKept
    <3>6. OwedSeen'
      BY <2>0, <3>2 DEF OwedSeen, TimersTypeOK
    <3> QED
      BY <3>3, <3>4, <3>5, <3>6 DEF TimersInv
  <2>3. ASSUME NEW errand \in Errands, Enter(errand) PROVE TimersInv'
    <3>1. UNCHANGED <<clock, row, heard>>
      BY <2>3 DEF Enter
    <3>2. /\ section'.errand = errand /\ section'.read = row
          /\ section'.tries = Attempts /\ section'.due = "nothing"
          /\ section'.owed = CloseDue(row)
          /\ section'.step = IF errand = "retime" THEN "deciding" ELSE "computing"
      BY <2>3 DEF Enter
    <3>3. TimersTypeOK'
      <4>1. CloseDue(row) \in BOOLEAN
        BY DEF CloseDue
      <4> QED
        BY <2>0, <2>3, <3>1, <4>1 DEF Enter, TimersTypeOK
    <3>4. AttemptSound'
      BY <3>2 DEF AttemptSound
    <3>5. ClocksKept'
      BY <2>0, <3>1 DEF ClocksKept
    <3>6. OwedSeen'
      BY <3>1, <3>2 DEF OwedSeen, CloseDue, PauseDue, PausedFrom
    <3> QED
      BY <3>3, <3>4, <3>5, <3>6 DEF TimersInv
  <2>4. CASE Compute
    <3> DEFINE due == DueStatus(section.read)
    <3>1. UNCHANGED <<clock, row, heard>>
      BY <2>4 DEF Compute
    <3>2. /\ due \in {"nothing", "paused", "closed"}
          /\ due = "paused" => PauseDue(section.read)
          /\ due = "closed" <=> CloseDue(section.read)
      BY DEF DueStatus
    <3>3. section.step = "computing" /\ section.tries > 0
      BY <2>0, <2>4 DEF Compute, AttemptSound
    <3>4. section' = [section EXCEPT !.due = due,
                         !.step = IF due = "nothing" THEN "deciding" ELSE "writing"]
      BY <2>4 DEF Compute
    <3> HIDE DEF due
    <3>5. TimersTypeOK'
      BY <2>0, <3>1, <3>2, <3>4 DEF TimersTypeOK
    <3>6. /\ section'.read = section.read /\ section'.owed = section.owed
          /\ section'.due = due /\ section'.tries = section.tries
          /\ section'.step = IF due = "nothing" THEN "deciding" ELSE "writing"
      BY <2>0, <3>4 DEF TimersTypeOK
    <3>7. AttemptSound'
      BY <3>1, <3>2, <3>3, <3>6 DEF AttemptSound, CloseDue, PauseDue, PausedFrom
    <3>8. ClocksKept'
      BY <2>0, <3>1 DEF ClocksKept
    <3>9. OwedSeen'
      BY <2>0, <3>2, <3>3, <3>6 DEF OwedSeen
    <3> QED
      BY <3>5, <3>7, <3>8, <3>9 DEF TimersInv
  <2>5. CASE WriteDue
    <3>1. /\ UNCHANGED <<clock, heard>>
          /\ section.step = "writing" /\ section.tries > 0
          /\ section.due \in {"paused", "closed"}
          /\ section.due = "paused" => PauseDue(section.read)
      BY <2>0, <2>5 DEF WriteDue, AttemptSound, TimersTypeOK
    <3>2. CASE RowHolds
      <4>1. /\ row' \in Rows /\ row'.status = section.due
            /\ section.due = "paused" => row'.pausedAt = row.activity + InactiveAfter
        BY <2>0, <2>5, <3>1, <3>2, TransitionedRow DEF WriteDue, RowHolds
      <4>2. section' = [section EXCEPT !.step = "reporting"]
        BY <2>5, <3>2 DEF WriteDue
      <4>3. TimersTypeOK'
        BY <2>0, <3>1, <4>1, <4>2 DEF TimersTypeOK
      <4>4. section'.step = "reporting" /\ section'.owed = section.owed
        BY <2>0, <4>2 DEF TimersTypeOK
      <4>5. AttemptSound'
        BY <4>4 DEF AttemptSound
      <4>6. ClocksKept'
        <5>1. "retime" \notin Errands /\ section.due = "paused" => heard <= row.activity
          BY <2>0, <3>1, <3>2 DEF ClocksKept, RowHolds, PauseDue
        <5>2. row.activity \in Nat /\ heard \in Nat
          BY <2>0 DEF TimersTypeOK, Rows, Instants
        <5> QED
          BY <2>0, <3>1, <4>1, <5>1, <5>2 DEF ClocksKept
      <4>7. OwedSeen'
        BY <2>0, <3>1, <4>1, <4>4 DEF OwedSeen
      <4> QED
        BY <4>3, <4>5, <4>6, <4>7 DEF TimersInv
    <3>3. CASE ~RowHolds
      <4>1. row' = row
        BY <2>5, <3>3 DEF WriteDue
      <4>2. section' = [section EXCEPT !.step = "rereading", !.tries = @ - 1]
        BY <2>5, <3>3 DEF WriteDue
      <4>3. TimersTypeOK'
        <5>1. section.tries - 1 \in 0 .. Attempts
          BY <2>0, <3>1 DEF TimersTypeOK
        <5> QED
          BY <2>0, <3>1, <4>1, <4>2, <5>1 DEF TimersTypeOK
      <4>4. section'.step = "rereading"
        BY <2>0, <4>2 DEF TimersTypeOK
      <4> QED
        BY <2>0, <3>1, <4>1, <4>3, <4>4 DEF TimersInv, AttemptSound, ClocksKept, OwedSeen
    <3> QED
      BY <3>2, <3>3
  <2>6. CASE Reread
    <3> DEFINE more == section.tries > 0
    <3>1. /\ UNCHANGED <<clock, row, heard>>
          /\ section' = [section EXCEPT !.read = row, !.owed = more /\ CloseDue(row),
                            !.step = IF more THEN "computing" ELSE "deciding"]
      BY <2>6 DEF Reread
    <3>2. more \in BOOLEAN /\ (more /\ CloseDue(row)) \in BOOLEAN
      BY DEF CloseDue
    <3> HIDE DEF more
    <3>3. TimersTypeOK'
      BY <2>0, <3>1, <3>2 DEF TimersTypeOK
    <3>4. /\ section'.read = row /\ section'.tries = section.tries
          /\ section'.owed = (more /\ CloseDue(row))
          /\ section'.step = IF more THEN "computing" ELSE "deciding"
      BY <2>0, <3>1 DEF TimersTypeOK
    <3>5. AttemptSound'
      BY <3>4 DEF AttemptSound, more
    <3>6. ClocksKept'
      BY <2>0, <3>1 DEF ClocksKept
    <3>7. OwedSeen'
      <4>1. CloseDue(row)' <=> CloseDue(row)
        BY <3>1 DEF CloseDue, PauseDue, PausedFrom
      <4>2. section'.owed => section'.step = "computing" /\ CloseDue(section'.read)
        BY <3>4
      <4> QED
        BY <3>1, <3>4, <4>1, <4>2 DEF OwedSeen, CloseDue, PauseDue, PausedFrom
    <3> QED
      BY <3>3, <3>5, <3>6, <3>7 DEF TimersInv
  <2>7. CASE Report
    <3>1. /\ UNCHANGED <<clock, row, heard>>
          /\ section.step = "reporting"
          /\ section' = [section EXCEPT !.read = row, !.step = "deciding"]
      BY <2>7 DEF Report
    <3>2. TimersTypeOK'
      BY <2>0, <3>1 DEF TimersTypeOK
    <3>3. /\ section'.step = "deciding" /\ section'.owed = section.owed
          /\ section'.read = row
      BY <2>0, <3>1 DEF TimersTypeOK
    <3> QED
      BY <2>0, <3>1, <3>2, <3>3 DEF TimersInv, AttemptSound, ClocksKept, OwedSeen
  <2>8. CASE LeaveRoom
    <3>1. /\ clock' = clock
          /\ section.step = "deciding"
          /\ section' = [section EXCEPT !.step = "none"]
      BY <2>8 DEF LeaveRoom
    <3>2. section'.step = "none"
      BY <2>0, <3>1 DEF TimersTypeOK
    <3>3. AttemptSound' /\ OwedSeen'
      BY <3>2 DEF AttemptSound, OwedSeen
    <3>4. CASE Accepted
      <4>1. /\ row' \in Rows
            /\ section.errand = "message" => row' = ActiveNow(row)
            /\ section.errand \in {"resume", "reopen"} => row'.activity = clock
            /\ section.errand = "pause" => row'.pausedAt = clock
            /\ section.errand \notin {"message", "resume", "reopen", "retime"} =>
                  row'.status # "active"
            /\ section.errand \notin {"pause", "retime"} => row'.status # "paused"
        BY <2>0, <2>8, <3>4, OutcomeRow DEF LeaveRoom
      <4>2. section.errand = "message" => row'.activity = clock
        BY <2>0, <4>1, ActiveNowRow
      <4>3. heard' \in {clock, heard}
        BY <2>8, <3>4 DEF LeaveRoom
      <4>4. TimersTypeOK'
        BY <2>0, <3>1, <4>1, <4>3 DEF TimersTypeOK
      <4>5. section.errand = "retime" => "retime" \in Errands
        BY <2>0 DEF TimersTypeOK
      <4>6. heard' <= clock
        BY <2>0, <4>3 DEF ClocksKept
      <4> QED
        BY <3>1, <3>3, <4>1, <4>2, <4>4, <4>5, <4>6 DEF TimersInv, ClocksKept
    <3>5. CASE ~Accepted
      <4>1. UNCHANGED <<row, heard>>
        BY <2>8, <3>5 DEF LeaveRoom
      <4>2. TimersTypeOK'
        BY <2>0, <3>1, <4>1 DEF TimersTypeOK
      <4> QED
        BY <2>0, <3>1, <3>3, <4>1, <4>2 DEF TimersInv, ClocksKept
    <3> QED
      BY <3>4, <3>5
  <2>9. CASE UNCHANGED timersVars
    BY <2>0, <2>9 DEF timersVars, TimersInv, TimersTypeOK, AttemptSound, ClocksKept,
       OwedSeen, PauseDue, CloseDue, PausedFrom
  <2> QED
    BY <2>1, <2>2, <2>3, <2>4, <2>5, <2>6, <2>7, <2>8, <2>9 DEF TimersNext
<1> QED
  BY <1>1, <1>2, PTL


(* The room, the section and what it computed keep their types. *)
THEOREM TimersTypeCorrect == TimersSpec => []TimersTypeOK
<1>1. TimersInv => TimersTypeOK
  BY DEF TimersInv
<1> QED
  BY <1>1, TimersInvariant, PTL DEF TimersSpec

(* Where no thresholds are adjusted, the timers write nothing before it is *)
(* due by what was last heard, and no message enters a room whose close    *)
(* was due as its section read it (_write_due, room_holds).                *)
THEOREM TimersPunctual ==
    ASSUME "retime" \notin Errands
    PROVE  TimersSpec => TimersOnTime
<1> DEFINE Writes == section.step = "writing" /\ section'.step = "reporting"
           Enters == /\ section.step = "deciding" /\ section'.step = "none"
                     /\ section.errand = "message" /\ Accepted
           Punctual == /\ Writes => heard + IdleFor <= clock
                       /\ Enters => ~section.owed
<1>1. TimersInv /\ [TimersNext]_timersVars => [Punctual]_timersVars
  <2> SUFFICES ASSUME TimersInv, TimersNext PROVE Punctual
    BY DEF timersVars
  <2>0. /\ AttemptSound /\ ClocksKept /\ OwedSeen
        /\ row \in Rows /\ heard \in Nat /\ clock \in Nat
    BY DEF TimersInv, TimersTypeOK, Instants
  <2>1. ASSUME Writes PROVE heard + IdleFor <= clock
    <3>1. WriteDue
      BY <2>1 DEF TimersNext, Tick, Greet, Enter, Compute, Reread, Report, LeaveRoom, TimersInv, TimersTypeOK
    <3>2. RowHolds /\ row' = Transitioned(row, section.due)
      BY <2>1, <3>1 DEF WriteDue, TimersInv, TimersTypeOK, RowHolds
    <3>3. /\ section.due \in {"paused", "closed"}
          /\ section.due = "paused" => PauseDue(row)
          /\ section.due = "closed" => CloseDue(row)
      BY <2>0, <2>1, <3>2 DEF AttemptSound, RowHolds, TimersInv, TimersTypeOK
    <3>4. row'.status = section.due
      BY <2>0, <3>2 DEF Transitioned, Rows
    <3>5. /\ row.status = "active" => heard <= row.activity
          /\ row.status = "paused" => heard <= row.pausedAt
      BY <2>0 DEF ClocksKept
    <3>6. row.activity \in Int /\ row.pausedAt \in Int
      BY <2>0 DEF Rows, Instants, Unpaused
    <3> QED
      BY <2>0, <3>3, <3>4, <3>5, <3>6, TimersAssumption
         DEF IdleFor, PauseDue, CloseDue, PausedFrom
  <2>2. ASSUME Enters PROVE ~section.owed
    BY <2>0, <2>2 DEF OwedSeen, Accepted, LeavesFrom
  <2> QED
    BY <2>1, <2>2
<1> QED
  BY <1>1, TimersInvariant, PTL DEF TimersSpec, TimersOnTime

(***************************************************************************)
(* TaskRunner, for any tasks and any callers of cancel().  The argument:   *)
(* the end of a task that runs is in _cancelled_ends, or was taken, by its *)
(* own run or by one cancel, and who took it completes the task (RunKept). *)
(***************************************************************************)

(* Whose the end of a task is, by how far its runs are. *)
RunKept(t) ==
    /\ work[t] = "none" => t \notin ends /\ held[t] = "none" /\ completed[t] = 0
    /\ t \in ends => work[t] = "running" /\ held[t] = "none" /\ completed[t] = 0
    /\ t \notin ends /\ held[t] = "none" /\ work[t] # "none" =>
          \/ work[t] = "finishing" /\ completed[t] = 0
          \/ work[t] = "over" /\ completed[t] = 1
    /\ held[t] = "held" => work[t] \in {"running", "over"} /\ completed[t] = 0
    /\ held[t] = "finishing" => work[t] = "over" /\ completed[t] = 0
    /\ held[t] = "over" => work[t] = "over" /\ completed[t] = 1
    /\ t \in cut => held[t] # "none"

(* A cancel that cuts a task holds its end alone; whoever cancels, a task. *)
HoldKept ==
    /\ \A c \in Cancelling :
          /\ call[c][1] # "idle" => call[c][2] \in Delegated
          /\ call[c][1] = "cuts" => held[call[c][2]] = "held"
    /\ \A c, d \in Cancelling :
          call[c][1] = "cuts" /\ call[d][1] = "cuts" /\ call[c][2] = call[d][2] => c = d
    /\ \A t \in Delegated : held[t] = "held" =>
          \E c \in Cancelling : call[c] = <<"cuts", t>>

(* Of a closed runner, every task submitted was completed. *)
ClosedKept ==
    runner = "closed" =>
        \A t \in Delegated : work[t] # "none" => work[t] = "over" /\ completed[t] = 1

RunnerInv ==
    RunnerTypeOK /\ (\A t \in Delegated : RunKept(t)) /\ HoldKept /\ ClosedKept

(* Every step keeps how far a task's runs are. *)
LEMMA RunsStay ==
    ASSUME RunnerInv, [RunnerNext]_runnerVars, NEW t \in Delegated
    PROVE  RunKept(t)'
<1> USE DEF RunnerTypeOK, RunKept
<1>0. RunnerTypeOK /\ RunKept(t)
  BY DEF RunnerInv
<1>1. ASSUME NEW u \in Delegated, Submit(u) PROVE RunKept(t)'
  BY <1>0, <1>1 DEF Submit
<1>2. ASSUME NEW u \in Delegated, WorkReturns(u) PROVE RunKept(t)'
  BY <1>0, <1>2 DEF WorkReturns
<1>3. ASSUME NEW u \in Delegated, WorkCut(u) PROVE RunKept(t)'
  BY <1>0, <1>3 DEF WorkCut
<1>4. ASSUME NEW u \in Delegated, WorkFinishes(u) PROVE RunKept(t)'
  BY <1>0, <1>4 DEF WorkFinishes, Completes
<1>5. ASSUME NEW u \in Delegated, EndFinishes(u) PROVE RunKept(t)'
  BY <1>0, <1>5 DEF EndFinishes, Completes
<1>6. ASSUME NEW c \in Cancelling, NEW u \in Delegated, Cancel(c, u) PROVE RunKept(t)'
  BY <1>0, <1>6 DEF Cancel, Known
<1>7. ASSUME NEW c \in Cancelling, EndsHeld(c) PROVE RunKept(t)'
  <2>1. call[c][2] \in Delegated /\ held[call[c][2]] = "held" /\ RunKept(call[c][2])
    BY <1>7 DEF EndsHeld, RunnerInv, HoldKept
  <2> QED
    BY <1>0, <1>7, <2>1 DEF EndsHeld
<1>8. ASSUME NEW c \in Cancelling, Returns(c) \/ LeavesIt(c) PROVE RunKept(t)'
  BY <1>0, <1>8 DEF Returns, LeavesIt
<1>9. CASE CloseRunner \/ RunnerClosed \/ UNCHANGED runnerVars
  BY <1>0, <1>9 DEF CloseRunner, RunnerClosed, runnerVars
<1> QED
  <2>1. ASSUME ClosePass PROVE RunKept(t)'
    BY <1>6, <2>1 DEF ClosePass, Cancelling
  <2> QED
    BY <1>1, <1>2, <1>3, <1>4, <1>5, <1>6, <1>7, <1>8, <1>9, <2>1
       DEF RunnerNext, RunnerObliged, Cancelling

(* Every step keeps the state in shape: what a cancel does to a task, it   *)
(* does to a delegated one.                                                *)
LEMMA RunnerTyped ==
    ASSUME RunnerInv, [RunnerNext]_runnerVars
    PROVE  RunnerTypeOK'
<1> USE DEF RunnerTypeOK
<1>0. RunnerTypeOK
  BY DEF RunnerInv
<1>1. ASSUME NEW u \in Delegated, Submit(u) \/ WorkReturns(u) \/ WorkCut(u)
      PROVE RunnerTypeOK'
  BY <1>0, <1>1 DEF Submit, WorkReturns, WorkCut
<1>2. ASSUME NEW u \in Delegated, WorkFinishes(u) \/ EndFinishes(u) PROVE RunnerTypeOK'
  BY <1>0, <1>2 DEF WorkFinishes, EndFinishes, Completes
<1>3. ASSUME NEW c \in Cancelling, NEW u \in Delegated, Cancel(c, u) PROVE RunnerTypeOK'
  BY <1>0, <1>3 DEF Cancel
<1>4. ASSUME NEW c \in Cancelling, EndsHeld(c) PROVE RunnerTypeOK'
  <2>1. call[c][2] \in Delegated
    BY <1>4 DEF EndsHeld, RunnerInv, HoldKept
  <2> QED
    BY <1>0, <1>4, <2>1 DEF EndsHeld
<1>5. ASSUME NEW c \in Cancelling, Returns(c) \/ LeavesIt(c) PROVE RunnerTypeOK'
  BY <1>0, <1>5 DEF Returns, LeavesIt, Idle
<1>6. CASE CloseRunner \/ RunnerClosed \/ UNCHANGED runnerVars
  BY <1>0, <1>6 DEF CloseRunner, RunnerClosed, runnerVars
<1> QED
  <2>1. ASSUME ClosePass PROVE RunnerTypeOK'
    BY <1>3, <2>1 DEF ClosePass, Cancelling
  <2> QED
    BY <1>1, <1>2, <1>3, <1>4, <1>5, <1>6, <2>1 DEF RunnerNext, RunnerObliged, Cancelling

(* Every step keeps one cancel at each end that is held. *)
LEMMA HoldsStay ==
    ASSUME RunnerInv, [RunnerNext]_runnerVars
    PROVE  HoldKept'
<1> USE DEF RunnerTypeOK, HoldKept
<1>0. RunnerTypeOK /\ HoldKept /\ \A t \in Delegated : RunKept(t)
  BY DEF RunnerInv
<1>1. ASSUME NEW u \in Delegated, Submit(u) \/ WorkReturns(u) \/ WorkCut(u) \/ WorkFinishes(u)
      PROVE HoldKept'
  BY <1>0, <1>1 DEF Submit, WorkReturns, WorkCut, WorkFinishes
<1>2. ASSUME NEW u \in Delegated, EndFinishes(u) PROVE HoldKept'
  BY <1>0, <1>2 DEF EndFinishes
<1>3. ASSUME NEW c \in Cancelling, NEW u \in Delegated, Cancel(c, u) PROVE HoldKept'
  <2>1. CASE u \in ends
    <3>1. /\ held' = [held EXCEPT ![u] = "held"] /\ held[u] = "none"
          /\ call' = [call EXCEPT ![c] = <<"cuts", u>>] /\ call[c] = Idle
      BY <1>0, <1>3, <2>1 DEF Cancel, RunKept
    <3>2. \A d \in Cancelling :
              /\ call'[d][1] # "idle" => call'[d][2] \in Delegated
              /\ call'[d][1] = "cuts" => held'[call'[d][2]] = "held"
      BY <1>0, <3>1
    <3>3. \A d, e \in Cancelling :
              call'[d][1] = "cuts" /\ call'[e][1] = "cuts" /\ call'[d][2] = call'[e][2]
                  => d = e
      BY <1>0, <3>1
    <3>4. ASSUME NEW t \in Delegated, held'[t] = "held"
          PROVE \E d \in Cancelling : call'[d] = <<"cuts", t>>
      BY <1>0, <3>1, <3>4 DEF Idle
    <3> QED
      BY <3>2, <3>3, <3>4
  <2>2. CASE u \notin ends
    BY <1>0, <1>3, <2>2 DEF Cancel, Idle
  <2> QED
    BY <2>1, <2>2
<1>4. ASSUME NEW c \in Cancelling, EndsHeld(c) PROVE HoldKept'
  <2>1. PICK u \in Delegated : u = call[c][2]
    BY <1>0, <1>4 DEF EndsHeld
  <2>2. /\ held' = [held EXCEPT ![u] = "finishing"] /\ call[c] = <<"cuts", u>>
        /\ call' = [call EXCEPT ![c] = <<"ends", u>>]
    BY <1>0, <1>4, <2>1 DEF EndsHeld
  <2>3. \A d \in Cancelling :
            /\ call'[d][1] # "idle" => call'[d][2] \in Delegated
            /\ call'[d][1] = "cuts" => held'[call'[d][2]] = "held"
    BY <1>0, <2>2
  <2>4. \A d, e \in Cancelling :
            call'[d][1] = "cuts" /\ call'[e][1] = "cuts" /\ call'[d][2] = call'[e][2]
                => d = e
    BY <1>0, <2>2
  <2>5. ASSUME NEW t \in Delegated, held'[t] = "held"
        PROVE \E d \in Cancelling : call'[d] = <<"cuts", t>>
    BY <1>0, <2>2, <2>5
  <2> QED
    BY <2>3, <2>4, <2>5
<1>5. ASSUME NEW c \in Cancelling, Returns(c) \/ LeavesIt(c) PROVE HoldKept'
  BY <1>0, <1>5 DEF Returns, LeavesIt, Idle
<1>6. CASE CloseRunner \/ RunnerClosed \/ UNCHANGED runnerVars
  BY <1>0, <1>6 DEF CloseRunner, RunnerClosed, runnerVars
<1> QED
  <2>1. ASSUME ClosePass PROVE HoldKept'
    BY <1>3, <2>1 DEF ClosePass, Cancelling
  <2> QED
    BY <1>1, <1>2, <1>3, <1>4, <1>5, <1>6, <2>1 DEF RunnerNext, RunnerObliged, Cancelling

(* A runner closes when no task of it runs, and none is submitted after. *)
LEMMA ClosedStays ==
    ASSUME RunnerInv, [RunnerNext]_runnerVars
    PROVE  ClosedKept'
<1>0. RunnerTypeOK /\ ClosedKept /\ \A t \in Delegated : RunKept(t)
  BY DEF RunnerInv
<1>1. ASSUME runner = "closed" PROVE ClosedKept'
  <2>1. ASSUME NEW t \in Delegated, work'[t] # "none" PROVE work'[t] = "over" /\ completed'[t] = 1
    <3>1. \A u \in Delegated : work[u] # "none" => work[u] = "over" /\ completed[u] = 1
      BY <1>0, <1>1 DEF ClosedKept
    <3>2. \A u \in Delegated : held[u] # "finishing" /\ work[u] \notin {"finishing", "running"}
      BY <1>0, <3>1 DEF RunKept, RunnerTypeOK
    <3>3. \A c \in Cancelling, u \in Delegated : ~Cancel(c, u)
      BY <3>1 DEF Cancel, Known
    <3>4. completed' = completed /\ work' = work
      BY <1>1, <3>2, <3>3
         DEF RunnerNext, RunnerObliged, Submit, Finishing, WorkReturns, WorkCut, WorkFinishes,
             EndFinishes, EndsHeld, Returns, LeavesIt, CloseRunner, ClosePass, RunnerClosed,
             runnerVars, Cancelling
    <3> QED
      BY <2>1, <3>1, <3>4
  <2> QED
    BY <2>1 DEF ClosedKept
<1>2. ASSUME runner # "closed", RunnerClosed PROVE ClosedKept'
  <2>1. ASSUME NEW t \in Delegated, work[t] # "none" PROVE work[t] = "over" /\ completed[t] = 1
    <3>1. ~StillRuns(t)
      BY <1>2 DEF RunnerClosed
    <3>2. RunKept(t) /\ completed[t] \in 0 .. 2 /\ held[t] \in {"none", "held", "finishing", "over"}
      BY <1>0 DEF RunnerTypeOK
    <3> QED
      BY <2>1, <3>1, <3>2 DEF StillRuns, Known, RunsOver, RunKept
  <2> QED
    BY <1>2, <2>1 DEF RunnerClosed, ClosedKept
<1>3. ASSUME runner # "closed", ~RunnerClosed PROVE runner' # "closed"
  BY <1>0, <1>3
     DEF RunnerNext, RunnerObliged, Submit, WorkReturns, WorkCut, WorkFinishes, EndFinishes,
         Cancel, EndsHeld, Returns, LeavesIt, CloseRunner, ClosePass, runnerVars
<1> QED
  BY <1>1, <1>2, <1>3 DEF ClosedKept

(* The invariant holds in every state of the runner. *)
LEMMA RunnerInvariant == RunnerInit /\ [][RunnerNext]_runnerVars => []RunnerInv
<1>1. RunnerInit => RunnerInv
  <2> SUFFICES ASSUME RunnerInit PROVE RunnerInv
    OBVIOUS
  <2>1. RunnerTypeOK
    BY DEF RunnerInit, RunnerTypeOK, Idle
  <2>2. \A t \in Delegated : RunKept(t)
    BY DEF RunnerInit, RunKept
  <2>3. HoldKept /\ ClosedKept
    BY DEF RunnerInit, HoldKept, ClosedKept, Idle
  <2> QED
    BY <2>1, <2>2, <2>3 DEF RunnerInv
<1>2. RunnerInv /\ [RunnerNext]_runnerVars => RunnerInv'
  BY RunsStay, RunnerTyped, HoldsStay, ClosedStays DEF RunnerInv
<1> QED
  BY <1>1, <1>2, PTL

(* The runner's state keeps its types: a cancel waits for a task there is,  *)
(* and no task is completed more often than is counted.                     *)
THEOREM RunnerTypeCorrect == RunnerSpec => []RunnerTypeOK
<1>1. RunnerInv => RunnerTypeOK
  BY DEF RunnerInv
<1> QED
  BY <1>1, RunnerInvariant, PTL DEF RunnerSpec

(* No task is completed twice, and none is by two of its own run, the      *)
(* cancels and the close: whoever took its end out of _cancelled_ends.     *)
CompletesOnce ==
    \A t \in Delegated :
        /\ completed[t] <= 1
        /\ completed[t] = 1 => work[t] = "over" /\ t \notin ends /\ held[t] \in {"none", "over"}

(* Every state of the runner is so: of a task's run, its cancels and the   *)
(* close, the one that takes the entry completes it (InMemoryTaskRunner).  *)
THEOREM RunnerCompletesOnce == RunnerSpec => []CompletesOnce
<1>1. RunnerInv => CompletesOnce
  <2> SUFFICES ASSUME RunnerInv, NEW t \in Delegated
               PROVE  /\ completed[t] <= 1
                      /\ completed[t] = 1 => work[t] = "over" /\ t \notin ends
                                             /\ held[t] \in {"none", "over"}
    BY DEF CompletesOnce
  <2>1. RunKept(t) /\ RunnerTypeOK
    BY DEF RunnerInv
  <2> QED
    BY <2>1 DEF RunKept, RunnerTypeOK
<1> QED
  BY <1>1, RunnerInvariant, PTL DEF RunnerSpec

(* A runner that is closed completed every task it was given, once: the    *)
(* safety half of EndsOnce, whatever cancels and late submissions the      *)
(* close met.                                                              *)
THEOREM RunnerClosesEmpty ==
    RunnerSpec => [](runner = "closed" =>
                        \A t \in Delegated : work[t] # "none" => completed[t] = 1)
<1>1. RunnerInv => (runner = "closed" =>
                        \A t \in Delegated : work[t] # "none" => completed[t] = 1)
  BY DEF RunnerInv, ClosedKept
<1> QED
  BY <1>1, RunnerInvariant, PTL DEF RunnerSpec

(***************************************************************************)
(* MemoryDelivery, for any items and any bounds of the queue, the batch,   *)
(* the retries and the closes.  The argument: the queue, the flight and    *)
(* the retries that wait hold what was enqueued and not settled, each item *)
(* once, in one of them.                                                   *)
(***************************************************************************)

(* No item is in two of the lines, or twice in one. *)
Apart ==
    /\ Once(queued) /\ Once(flight) /\ Once(waiting)
    /\ \A x : ~(Member(queued, x) /\ Member(flight, x))
    /\ \A x : ~(Member(queued, x) /\ Member(waiting, x))
    /\ \A x : ~(Member(flight, x) /\ Member(waiting, x))

InHand(i) == Member(queued, i) \/ Member(flight, i) \/ Member(waiting, i)

(* What was enqueued is in hand, or was settled once. *)
ItemsKept ==
    \A i \in Items :
        /\ InHand(i) => i \in known
        /\ settled[i] = 0 => retried[i] <= Retries
        /\ settled[i] = IF i \in known /\ ~InHand(i) THEN 1 ELSE 0

(* A stopped worker left nothing in flight or in a delay. *)
WorkerKept ==
    /\ worker = "off" => flight = <<>> /\ waiting = <<>>
    /\ worker = "runs" => flight # <<>>

MemoryInv == MemoryTypeOK /\ Apart /\ ItemsKept /\ WorkerKept

(* Two lines with nobody in common make one. *)
LEMMA LinesJoined ==
    ASSUME NEW S, NEW s \in Seq(S), NEW t \in Seq(S), Once(s), Once(t),
           \A x : ~(Member(s, x) /\ Member(t, x))
    PROVE  /\ s \o t \in Seq(S) /\ Len(s \o t) = Len(s) + Len(t) /\ Once(s \o t)
           /\ \A x : Member(s \o t, x) <=> Member(s, x) \/ Member(t, x)
<1> DEFINE r == s \o t
<1>1. /\ r \in Seq(S) /\ Len(r) = Len(s) + Len(t)
      /\ \A j \in 1 .. Len(s) + Len(t) : r[j] = IF j <= Len(s) THEN s[j] ELSE t[j - Len(s)]
  BY ConcatProperties
<1> HIDE DEF r
<1>2. /\ DOMAIN s = 1 .. Len(s) /\ Len(s) \in Nat /\ DOMAIN t = 1 .. Len(t) /\ Len(t) \in Nat
      /\ DOMAIN r = 1 .. Len(s) + Len(t)
  BY <1>1
<1>3. ASSUME NEW j \in DOMAIN r
      PROVE  \/ j \in DOMAIN s /\ r[j] = s[j]
             \/ j - Len(s) \in DOMAIN t /\ r[j] = t[j - Len(s)] /\ j > Len(s)
  BY <1>1, <1>2
<1>4. ASSUME NEW x, Member(r, x) PROVE Member(s, x) \/ Member(t, x)
  BY <1>3, <1>4 DEF Member
<1>5. ASSUME NEW x, Member(s, x) \/ Member(t, x) PROVE Member(r, x)
  <2>1. ASSUME NEW j \in DOMAIN s PROVE j \in DOMAIN r /\ r[j] = s[j]
    BY <1>1, <1>2
  <2>2. ASSUME NEW j \in DOMAIN t PROVE j + Len(s) \in DOMAIN r /\ r[j + Len(s)] = t[j]
    BY <1>1, <1>2
  <2> QED
    BY <1>5, <2>1, <2>2 DEF Member
<1>6. Once(r)
  <2> SUFFICES ASSUME NEW x, Before(r, x, x) PROVE FALSE
    BY DEF Once
  <2>1. PICK j \in DOMAIN r, k \in DOMAIN r : j < k /\ r[j] = x /\ r[k] = x
    BY DEF Before
  <2>2. ~ \E m, n \in DOMAIN s : m < n /\ s[m] = x /\ s[n] = x
    BY DEF Once, Before
  <2>3. ~ \E m, n \in DOMAIN t : m < n /\ t[m] = x /\ t[n] = x
    BY DEF Once, Before
  <2>4. j \in Nat /\ k \in Nat
    BY <1>2
  <2>5. ~(k \in DOMAIN s /\ r[k] = s[k] /\ j \in DOMAIN s /\ r[j] = s[j])
    BY <2>1, <2>2
  <2>6. CASE j \in DOMAIN s /\ r[j] = s[j]
    <3>1. k - Len(s) \in DOMAIN t /\ t[k - Len(s)] = x
      BY <1>3, <2>1, <2>5, <2>6
    <3> QED
      BY <2>1, <2>6, <3>1 DEF Member
  <2>7. CASE j - Len(s) \in DOMAIN t /\ r[j] = t[j - Len(s)] /\ j > Len(s)
    <3>1. k - Len(s) \in DOMAIN t /\ r[k] = t[k - Len(s)] /\ j - Len(s) < k - Len(s)
      BY <1>2, <1>3, <2>1, <2>4, <2>7
    <3> QED
      BY <2>1, <2>3, <2>7, <3>1
  <2> QED
    BY <1>3, <2>6, <2>7
<1> QED
  BY <1>1, <1>4, <1>5, <1>6, Zenon DEF r

(* A line that is cut in two. *)
LEMMA LineSplit ==
    ASSUME NEW S, NEW s \in Seq(S), NEW k \in 0 .. Len(s), Once(s)
    PROVE  /\ SubSeq(s, 1, k) \in Seq(S) /\ Len(SubSeq(s, 1, k)) = k
           /\ SubSeq(s, k + 1, Len(s)) \in Seq(S)
           /\ Len(SubSeq(s, k + 1, Len(s))) = Len(s) - k
           /\ Once(SubSeq(s, 1, k)) /\ Once(SubSeq(s, k + 1, Len(s)))
           /\ \A x : Member(s, x) <=>
                        Member(SubSeq(s, 1, k), x) \/ Member(SubSeq(s, k + 1, Len(s)), x)
           /\ \A x : ~(Member(SubSeq(s, 1, k), x) /\ Member(SubSeq(s, k + 1, Len(s)), x))
<1> DEFINE a == SubSeq(s, 1, k)
           b == SubSeq(s, k + 1, Len(s))
<1>0. Len(s) \in Nat /\ k \in Nat /\ k <= Len(s) /\ DOMAIN s = 1 .. Len(s)
  OBVIOUS
<1>1. a \in Seq(S) /\ Len(a) = k /\ DOMAIN a = 1 .. k /\ \A j \in 1 .. k : a[j] = s[j]
  OBVIOUS
<1>2. /\ b \in Seq(S) /\ Len(b) = Len(s) - k /\ DOMAIN b = 1 .. Len(s) - k
      /\ \A j \in 1 .. Len(s) - k : b[j] = s[k + j]
  OBVIOUS
<1> HIDE DEF a, b
<1>3. ASSUME NEW x PROVE ~ \E m, n \in DOMAIN s : m < n /\ s[m] = x /\ s[n] = x
  BY DEF Once, Before
<1>4. Once(a)
  <2> SUFFICES ASSUME NEW x, Before(a, x, x) PROVE FALSE
    BY DEF Once
  <2>1. PICK i \in DOMAIN a, j \in DOMAIN a : i < j /\ a[i] = x /\ a[j] = x
    BY DEF Before
  <2>2. i \in DOMAIN s /\ j \in DOMAIN s /\ s[i] = x /\ s[j] = x
    BY <1>0, <1>1, <2>1
  <2> QED
    BY <1>3, <2>1, <2>2
<1>5. Once(b)
  <2> SUFFICES ASSUME NEW x, Before(b, x, x) PROVE FALSE
    BY DEF Once
  <2>1. PICK i \in DOMAIN b, j \in DOMAIN b : i < j /\ b[i] = x /\ b[j] = x
    BY DEF Before
  <2>2. /\ k + i \in DOMAIN s /\ k + j \in DOMAIN s /\ k + i < k + j
        /\ s[k + i] = x /\ s[k + j] = x
    BY <1>0, <1>2, <2>1
  <2> QED
    BY <1>3, <2>2
<1>6. ASSUME NEW x, Member(s, x) PROVE Member(a, x) \/ Member(b, x)
  <2>1. PICK i \in DOMAIN s : s[i] = x
    BY <1>6 DEF Member
  <2>2. CASE i <= k
    BY <1>0, <1>1, <2>1, <2>2 DEF Member
  <2>3. CASE ~(i <= k)
    <3>1. i - k \in DOMAIN b /\ k + (i - k) = i
      BY <1>0, <1>2, <2>3
    <3> QED
      BY <1>2, <2>1, <3>1 DEF Member
  <2> QED
    BY <2>2, <2>3
<1>7. ASSUME NEW x, Member(a, x) \/ Member(b, x) PROVE Member(s, x)
  <2>1. ASSUME NEW i \in DOMAIN a PROVE i \in DOMAIN s /\ s[i] = a[i]
    BY <1>0, <1>1
  <2>2. ASSUME NEW i \in DOMAIN b PROVE k + i \in DOMAIN s /\ s[k + i] = b[i]
    BY <1>0, <1>2
  <2> QED
    BY <1>7, <2>1, <2>2 DEF Member
<1>8. ASSUME NEW x, Member(a, x), Member(b, x) PROVE FALSE
  <2>1. PICK i \in DOMAIN a, j \in DOMAIN b : a[i] = x /\ b[j] = x
    BY <1>8 DEF Member
  <2>2. i \in 1 .. k /\ j \in 1 .. Len(s) - k
    BY <1>1, <1>2
  <2>3. s[i] = x /\ s[k + j] = x
    BY <1>1, <1>2, <2>1, <2>2
  <2>4. i \in DOMAIN s /\ k + j \in DOMAIN s /\ i < k + j
    BY <1>0, <2>2
  <2> QED
    BY <1>3, <2>3, <2>4
<1>9. /\ a \in Seq(S) /\ Len(a) = k /\ b \in Seq(S) /\ Len(b) = Len(s) - k
      /\ Once(a) /\ Once(b)
      /\ \A x : Member(s, x) <=> Member(a, x) \/ Member(b, x)
      /\ \A x : ~(Member(a, x) /\ Member(b, x))
  BY <1>1, <1>2, <1>4, <1>5, <1>6, <1>7, <1>8
<1> QED
  BY <1>9, Zenon DEF a, b

(* In a line of items each of which is there once, the one at a place is   *)
(* the first that is like it.                                              *)
LEMMA PlaceLeft ==
    ASSUME NEW S, NEW s \in Seq(S), NEW n \in DOMAIN s, Once(s)
    PROVE  SubSeq(s, 1, n - 1) \o SubSeq(s, n + 1, Len(s)) = RemoveFirst(s, s[n])
<1>1. Member(s, s[n])
  BY DEF Member
<1>2. PICK i \in 1 .. Len(s) : s[i] = s[n] /\ RemoveFirst(s, s[n]) = RemoveAt(s, i)
  BY <1>1, FirstOut
<1>3. i = n
  <2>1. i \in DOMAIN s /\ i \in Nat /\ n \in Nat
    OBVIOUS
  <2>2. ~(i < n) /\ ~(n < i)
    BY <1>2, <2>1 DEF Once, Before
  <2> QED
    BY <2>1, <2>2
<1> QED
  BY <1>2, <1>3 DEF RemoveAt

(* Who is not in an empty line. *)
LEMMA NobodyInLine == Once(<<>>) /\ \A x : ~Member(<<>>, x)
BY DEF Once, Before, Member

(* What the queue has no room for, and what it has. *)
LEMMA Portioned ==
    ASSUME NEW S, NEW s \in Seq(S), NEW n \in Nat, Once(s)
    PROVE  /\ First(n, s) \in Seq(S) /\ Rest(n, s) \in Seq(S)
           /\ Len(First(n, s)) <= n /\ Len(First(n, s)) <= Len(s) /\ Len(First(n, s)) \in Nat
           /\ Len(Rest(n, s)) <= Len(s) /\ Len(Rest(n, s)) \in Nat
           /\ Once(First(n, s)) /\ Once(Rest(n, s))
           /\ \A x : Member(s, x) <=> Member(First(n, s), x) \/ Member(Rest(n, s), x)
           /\ \A x : ~(Member(First(n, s), x) /\ Member(Rest(n, s), x))
           /\ n > 0 /\ s # <<>> => First(n, s) # <<>>
<1>0. Len(s) \in Nat
  OBVIOUS
<1>1. CASE n < Len(s)
  <2>1. n \in 0 .. Len(s)
    BY <1>0, <1>1
  <2>2. First(n, s) = SubSeq(s, 1, n) /\ Rest(n, s) = SubSeq(s, n + 1, Len(s))
    BY <1>1 DEF First, Rest
  <2>3. /\ SubSeq(s, 1, n) \in Seq(S) /\ Len(SubSeq(s, 1, n)) = n
        /\ SubSeq(s, n + 1, Len(s)) \in Seq(S)
        /\ Len(SubSeq(s, n + 1, Len(s))) = Len(s) - n
        /\ Once(SubSeq(s, 1, n)) /\ Once(SubSeq(s, n + 1, Len(s)))
        /\ \A x : Member(s, x) <=>
                     Member(SubSeq(s, 1, n), x) \/ Member(SubSeq(s, n + 1, Len(s)), x)
        /\ \A x : ~(Member(SubSeq(s, 1, n), x) /\ Member(SubSeq(s, n + 1, Len(s)), x))
    BY <2>1, LineSplit
  <2> DEFINE a == SubSeq(s, 1, n)
             b == SubSeq(s, n + 1, Len(s))
  <2>4. /\ First(n, s) = a /\ Rest(n, s) = b
        /\ a \in Seq(S) /\ Len(a) = n /\ b \in Seq(S) /\ Len(b) = Len(s) - n
        /\ Once(a) /\ Once(b)
        /\ \A x : Member(s, x) <=> Member(a, x) \/ Member(b, x)
        /\ \A x : ~(Member(a, x) /\ Member(b, x))
    BY <2>2, <2>3, Zenon
  <2> HIDE DEF a, b
  <2>5. n > 0 => a # <<>>
    BY <2>4
  <2>6. n <= n /\ n <= Len(s) /\ Len(s) - n <= Len(s) /\ Len(s) - n \in Nat
    BY <1>0, <1>1
  <2> QED
    BY <2>4, <2>5, <2>6
<1>2. CASE ~(n < Len(s))
  <2>1. First(n, s) = s
    <3>1. First(n, s) = SubSeq(s, 1, Len(s))
      BY <1>2 DEF First
    <3> QED
      BY <3>1
  <2>2. Rest(n, s) = <<>>
    <3>1. Len(s) < n + 1
      BY <1>0, <1>2
    <3> QED
      BY <1>0, <3>1 DEF Rest
  <2>3. <<>> \in Seq(S) /\ Len(<<>>) = 0
    OBVIOUS
  <2> QED
    BY <1>0, <1>2, <2>1, <2>2, <2>3, NobodyInLine
<1> QED
  BY <1>1, <1>2

(* The facts of the invariant that hold of the lines. *)
LEMMA MemoryFacts ==
    ASSUME MemoryInv
    PROVE  /\ queued \in Seq(Items) /\ flight \in Seq(Items) /\ waiting \in Seq(Items)
           /\ Once(queued) /\ Once(flight) /\ Once(waiting)
           /\ \A x : Member(queued, x) \/ Member(flight, x) \/ Member(waiting, x) =>
                        x \in known /\ x \in Items
           /\ QueueSize \in Nat /\ Len(queued) \in Nat /\ Len(queued) <= QueueSize
           /\ Chunk \in Nat /\ Room \in Nat
<1>1. MemoryTypeOK /\ Apart
  BY DEF MemoryInv
<1>2. queued \in Seq(Items) /\ flight \in Seq(Items) /\ waiting \in Seq(Items)
  BY <1>1 DEF MemoryTypeOK
<1>3. ASSUME NEW x, Member(queued, x) \/ Member(flight, x) \/ Member(waiting, x)
      PROVE  x \in known /\ x \in Items
  <2>1. x \in Items
    BY <1>2, <1>3 DEF Member
  <2> QED
    BY <1>3, <2>1 DEF MemoryInv, ItemsKept, InHand
<1>4. Once(queued) /\ Once(flight) /\ Once(waiting)
  BY <1>1 DEF Apart
<1>5. QueueSize \in Nat /\ Len(queued) \in Nat /\ Len(queued) <= QueueSize /\ Chunk \in Nat
  BY <1>1, <1>2, MemoryAssumption DEF MemoryTypeOK
<1>6. Room \in Nat
  BY <1>5 DEF Room
<1> QED
  BY <1>2, <1>3, <1>4, <1>5, <1>6

(* An item enqueued joins the queue, and was nowhere. *)
LEMMA EnqueueStays ==
    ASSUME MemoryInv, NEW i \in Items, Enqueue(i)
    PROVE  MemoryInv'
<1>1. /\ i \notin known /\ Room > 0 /\ known' = known \cup {i} /\ queued' = Append(queued, i)
      /\ UNCHANGED <<flight, waiting, retried, settled, worker, closes>>
  BY DEF Enqueue
<1>2. ~Member(queued, i) /\ ~Member(flight, i) /\ ~Member(waiting, i)
  BY <1>1, MemoryFacts
<1>3. /\ queued' \in Seq(Items) /\ Once(queued')
      /\ \A x : Member(queued', x) <=> Member(queued, x) \/ x = i
  BY <1>1, <1>2, MemoryFacts, LineJoined
<1>4. Len(queued') = Len(queued) + 1 /\ Len(queued') <= QueueSize
  BY <1>1, MemoryFacts DEF Room
<1>5. MemoryTypeOK'
  BY <1>1, <1>3, <1>4 DEF MemoryInv, MemoryTypeOK
<1>6. Apart'
  BY <1>1, <1>2, <1>3 DEF MemoryInv, Apart
<1>7. ItemsKept'
  <2> SUFFICES ASSUME NEW k \in Items
               PROVE  /\ InHand(k)' => k \in known'
                      /\ settled'[k] = 0 => retried'[k] <= Retries
                      /\ settled'[k] = IF k \in known' /\ ~InHand(k)' THEN 1 ELSE 0
    BY DEF ItemsKept
  <2>1. InHand(k)' <=> InHand(k) \/ k = i
    BY <1>1, <1>3 DEF InHand
  <2>2. settled[i] = 0
    BY <1>1 DEF MemoryInv, ItemsKept
  <2> QED
    BY <1>1, <2>1, <2>2 DEF MemoryInv, ItemsKept
<1> QED
  BY <1>1, <1>5, <1>6, <1>7 DEF MemoryInv, WorkerKept

(* Settling once more what was in hand, and is no more. *)
LEMMA SettledNow ==
    ASSUME MemoryInv, NEW gone \in SUBSET Items, Settle(gone),
           \A i \in gone : InHand(i)
    PROVE  settled' = [i \in Items |-> IF i \in gone THEN 1 ELSE settled[i]]
<1>1. \A i \in gone : settled[i] = 0
  BY DEF MemoryInv, ItemsKept
<1>2. settled' = [i \in Items |-> IF i \in gone /\ settled[i] < 2 THEN settled[i] + 1
                                  ELSE settled[i]]
  BY DEF Settle
<1> DEFINE one == [i \in Items |-> IF i \in gone THEN 1 ELSE settled[i]]
<1>3. ASSUME NEW i \in Items PROVE settled'[i] = one[i]
  <2>1. settled'[i] = IF i \in gone /\ settled[i] < 2 THEN settled[i] + 1 ELSE settled[i]
    BY <1>2
  <2> QED
    BY <1>1, <2>1
<1>4. DOMAIN settled' = Items /\ DOMAIN one = Items
  BY <1>2
<1>5. settled' = [i \in DOMAIN settled' |-> settled'[i]] /\ one = [i \in DOMAIN one |-> one[i]]
  BY <1>2
<1> HIDE DEF one
<1>6. settled' = one
  BY <1>3, <1>4, <1>5
<1> QED
  BY <1>6 DEF one

(* Items that move from a line to another, no item coming or going. *)
LEMMA MovesKeep ==
    ASSUME MemoryInv,
           queued' \in Seq(Items), flight' \in Seq(Items), waiting' \in Seq(Items),
           \A i \in Items : InHand(i)' <=> InHand(i),
           UNCHANGED <<known, retried, settled>>
    PROVE  ItemsKept'
BY DEF MemoryInv, ItemsKept

(* Items that go out of hand as they are settled. *)
LEMMA GoneKeep ==
    ASSUME MemoryInv, NEW gone \in SUBSET Items,
           settled' = [i \in Items |-> IF i \in gone THEN 1 ELSE settled[i]],
           \A i \in Items : InHand(i)' <=> InHand(i) /\ i \notin gone,
           \A i \in gone : i \in known,
           \A i \in Items : i \notin gone => retried'[i] = retried[i],
           UNCHANGED known
    PROVE  ItemsKept'
<1> SUFFICES ASSUME NEW i \in Items
             PROVE  /\ InHand(i)' => i \in known'
                    /\ settled'[i] = 0 => retried'[i] <= Retries
                    /\ settled'[i] = IF i \in known' /\ ~InHand(i)' THEN 1 ELSE 0
  BY DEF ItemsKept
<1>1. /\ InHand(i) => i \in known
      /\ settled[i] = 0 => retried[i] <= Retries
      /\ settled[i] = IF i \in known /\ ~InHand(i) THEN 1 ELSE 0
  BY DEF MemoryInv, ItemsKept
<1>2. settled'[i] = IF i \in gone THEN 1 ELSE settled[i]
  OBVIOUS
<1>3. InHand(i)' <=> InHand(i) /\ i \notin gone
  OBVIOUS
<1>4. i \notin gone => retried'[i] = retried[i]
  OBVIOUS
<1>5. i \in gone => i \in known
  OBVIOUS
<1> QED
  BY <1>1, <1>2, <1>3, <1>4, <1>5

(* A batch goes from the queue to the flight. *)
LEMMA DequeueStays ==
    ASSUME MemoryInv, Dequeue
    PROVE  MemoryInv'
<1>1. /\ worker = "polls" /\ flight = <<>> /\ queued # <<>>
      /\ flight' = First(Chunk, queued) /\ queued' = Rest(Chunk, queued)
      /\ UNCHANGED <<known, waiting, retried, settled, worker, closes>>
  BY DEF Dequeue
<1>2. /\ queued \in Seq(Items) /\ Chunk \in Nat /\ Once(queued)
      /\ Len(queued) \in Nat /\ Len(queued) <= QueueSize /\ QueueSize \in Nat
      /\ waiting \in Seq(Items)
  BY MemoryFacts
<1>3. /\ flight' \in Seq(Items) /\ queued' \in Seq(Items)
      /\ Len(flight') <= Chunk
      /\ Len(queued') <= Len(queued) /\ Len(queued') \in Nat
      /\ Once(flight') /\ Once(queued')
      /\ \A x : Member(queued, x) <=> Member(flight', x) \/ Member(queued', x)
      /\ \A x : ~(Member(flight', x) /\ Member(queued', x))
  <2> DEFINE f == First(Chunk, queued)
             r == Rest(Chunk, queued)
  <2>1. /\ f \in Seq(Items) /\ r \in Seq(Items)
        /\ Len(f) <= Chunk
        /\ Len(r) <= Len(queued) /\ Len(r) \in Nat
        /\ Once(f) /\ Once(r)
        /\ \A x : Member(queued, x) <=> Member(f, x) \/ Member(r, x)
        /\ \A x : ~(Member(f, x) /\ Member(r, x))
    BY <1>2, Portioned
  <2> HIDE DEF f, r
  <2>2. flight' = f /\ queued' = r
    BY <1>1 DEF f, r
  <2> QED
    BY <2>1, <2>2
<1>4. Len(queued') <= QueueSize
  BY <1>2, <1>3
<1>5. MemoryTypeOK'
  BY <1>1, <1>3, <1>4 DEF MemoryInv, MemoryTypeOK
<1>6. Apart'
  BY <1>1, <1>3 DEF MemoryInv, Apart
<1>7. \A i \in Items : InHand(i)' <=> InHand(i)
  BY <1>1, <1>3, NobodyInLine DEF InHand
<1>8. ItemsKept'
  <2>1. waiting' \in Seq(Items) /\ UNCHANGED <<known, retried, settled>>
    BY <1>1, <1>2
  <2> QED
    BY <1>3, <1>7, <2>1, MovesKeep
<1> QED
  BY <1>1, <1>5, <1>6, <1>8 DEF MemoryInv, WorkerKept

(* What was executed is settled, or waits for its retry. *)
LEMMA ExecutedStays ==
    ASSUME MemoryInv, Ack \/ Nack
    PROVE  MemoryInv'
<1> DEFINE h == Head(flight)
<1>1. /\ worker = "runs" /\ worker' = "polls" /\ flight' = Tail(flight) /\ flight # <<>>
      /\ UNCHANGED <<known, queued, closes>>
  BY DEF Ack, Nack, Executed, MemoryInv, WorkerKept
<1>2. /\ flight' \in Seq(Items) /\ Once(flight')
      /\ \A x : Member(flight', x) <=> Member(flight, x) /\ x # h
  BY <1>1, MemoryFacts, LineHeadGone
<1>3. /\ Member(flight, h) /\ h \in Items /\ h \in known
  <2>1. 1 \in DOMAIN flight /\ flight[1] = h
    BY <1>1, MemoryFacts
  <2>2. Member(flight, h)
    BY <2>1 DEF Member
  <2> QED
    BY <2>2, MemoryFacts
<1>4. Len(flight') <= Chunk
  <2>1. Len(flight) <= Chunk /\ Chunk \in Nat /\ flight \in Seq(Items)
    BY MemoryFacts DEF MemoryInv, MemoryTypeOK
  <2>2. Len(Tail(flight)) = Len(flight) - 1 /\ Len(flight) \in Nat
    BY <1>1, <2>1
  <2> QED
    BY <1>1, <2>1, <2>2
<1> HIDE DEF h
<1>5. ~Member(queued, h) /\ ~Member(waiting, h) /\ InHand(h)
  BY <1>3 DEF MemoryInv, Apart, InHand
<1>6. retried[h] \in Nat /\ retried[h] <= Retries /\ retried \in [Items -> 0 .. Retries + 1]
  BY <1>3, <1>5, MemoryAssumption DEF MemoryInv, MemoryTypeOK, ItemsKept
<1>7. /\ retried' \in [Items -> 0 .. Retries + 1]
      /\ \A i \in Items : i # h => retried'[i] = retried[i]
  <2>1. CASE Ack
    BY <1>6, <2>1 DEF Ack
  <2>2. CASE Nack
    <3>1. retried' = [retried EXCEPT ![h] = @ + 1]
      BY <2>2 DEF Nack, h
    <3> QED
      BY <1>3, <1>6, <3>1, MemoryAssumption
  <2> QED
    BY <2>1, <2>2
<1>8. CASE Settle({h}) /\ UNCHANGED waiting
  <2>1. settled' = [i \in Items |-> IF i \in {h} THEN 1 ELSE settled[i]]
    <3>1. {h} \in SUBSET Items /\ \A i \in {h} : InHand(i)
      BY <1>3, <1>5
    <3>2. Settle({h})
      BY <1>8
    <3> QED
      BY <3>1, <3>2, SettledNow
  <2>2. MemoryTypeOK'
    BY <1>1, <1>2, <1>4, <1>7, <1>8, <2>1 DEF MemoryInv, MemoryTypeOK
  <2>3. Apart'
    BY <1>1, <1>2, <1>8 DEF MemoryInv, Apart
  <2>4. ItemsKept'
    <3>1. \A i \in Items : InHand(i)' <=> InHand(i) /\ i \notin {h}
      BY <1>1, <1>2, <1>5, <1>8 DEF InHand
    <3>2. {h} \in SUBSET Items /\ \A i \in {h} : i \in known
      BY <1>3
    <3>3. \A i \in Items : i \notin {h} => retried'[i] = retried[i]
      BY <1>7
    <3>4. UNCHANGED known
      BY <1>1
    <3> QED
      BY <2>1, <3>1, <3>2, <3>3, <3>4, GoneKeep
  <2> QED
    BY <1>1, <2>2, <2>3, <2>4 DEF MemoryInv, WorkerKept
<1>9. CASE Nack /\ retried[h] < Retries
  <2>1. /\ waiting' = Append(waiting, h) /\ settled' = settled
        /\ retried' = [retried EXCEPT ![h] = @ + 1]
    BY <1>9 DEF Nack, h
  <2>2. /\ waiting' \in Seq(Items) /\ Once(waiting')
        /\ \A x : Member(waiting', x) <=> Member(waiting, x) \/ x = h
    BY <1>3, <1>5, <2>1, MemoryFacts, LineJoined
  <2>3. MemoryTypeOK'
    BY <1>1, <1>2, <1>4, <1>7, <2>1, <2>2 DEF MemoryInv, MemoryTypeOK
  <2>4. Apart'
    BY <1>1, <1>2, <1>5, <2>2 DEF MemoryInv, Apart
  <2>5. ItemsKept'
    <3> SUFFICES ASSUME NEW i \in Items
                 PROVE  /\ InHand(i)' => i \in known'
                        /\ settled'[i] = 0 => retried'[i] <= Retries
                        /\ settled'[i] = IF i \in known' /\ ~InHand(i)' THEN 1 ELSE 0
      BY DEF ItemsKept
    <3>1. InHand(i)' <=> InHand(i)
      BY <1>1, <1>2, <1>3, <2>2 DEF InHand
    <3>2. settled'[i] = 0 => retried'[i] <= Retries
      <4>1. CASE i = h
        BY <1>3, <1>6, <1>9, <2>1, <4>1, MemoryAssumption
      <4>2. CASE i # h
        BY <1>7, <2>1, <4>2 DEF MemoryInv, ItemsKept
      <4> QED
        BY <4>1, <4>2
    <3> QED
      BY <1>1, <2>1, <3>1, <3>2 DEF MemoryInv, ItemsKept
  <2> QED
    BY <1>1, <2>3, <2>4, <2>5 DEF MemoryInv, WorkerKept
<1> QED
  BY <1>6, <1>8, <1>9, MemoryAssumption DEF Ack, Nack, h

(* A retry whose delay is over joins the queue, or is settled. *)
LEMMA RequeueStays ==
    ASSUME MemoryInv, Requeue
    PROVE  MemoryInv'
<1>0. PICK n \in DOMAIN waiting :
          /\ waiting' = SubSeq(waiting, 1, n - 1) \o Rest(n, waiting)
          /\ IF Room > 0
             THEN queued' = Append(queued, waiting[n]) /\ UNCHANGED settled
             ELSE Settle({waiting[n]}) /\ UNCHANGED queued
          /\ UNCHANGED <<known, flight, retried, worker, closes>>
  BY DEF Requeue
<1> DEFINE h == waiting[n]
<1>1. Member(waiting, h) /\ h \in Items /\ h \in known
  <2>1. Member(waiting, h)
    BY DEF Member
  <2> QED
    BY <2>1, MemoryFacts
<1>2. waiting' = RemoveFirst(waiting, h)
  <2>1. SubSeq(waiting, 1, n - 1) \o SubSeq(waiting, n + 1, Len(waiting))
            = RemoveFirst(waiting, waiting[n])
    BY MemoryFacts, PlaceLeft
  <2> QED
    BY <1>0, <2>1 DEF Rest
<1>3. /\ UNCHANGED <<known, flight, retried, worker, closes>>
      /\ Room > 0 => queued' = Append(queued, h) /\ UNCHANGED settled
      /\ ~(Room > 0) => Settle({h}) /\ UNCHANGED queued
  BY <1>0
<1> HIDE DEF h
<1>4. /\ waiting' \in Seq(Items) /\ Once(waiting')
      /\ \A x : Member(waiting', x) <=> Member(waiting, x) /\ x # h
  BY <1>2, MemoryFacts, LineLeft
<1>5. ~Member(queued, h) /\ ~Member(flight, h) /\ InHand(h)
  BY <1>1 DEF MemoryInv, Apart, InHand
<1>6. CASE Room > 0
  <2>1. /\ queued' \in Seq(Items) /\ Once(queued')
        /\ \A x : Member(queued', x) <=> Member(queued, x) \/ x = h
    <3>1. /\ Append(queued, h) \in Seq(Items) /\ Once(Append(queued, h))
          /\ \A x : Member(Append(queued, h), x) <=> Member(queued, x) \/ x = h
      BY <1>1, <1>5, MemoryFacts, LineJoined
    <3>2. queued' = Append(queued, h)
      BY <1>3, <1>6
    <3> QED
      BY <3>1, <3>2
  <2>2. Len(queued') <= QueueSize
    BY <1>3, <1>6, MemoryFacts DEF Room
  <2>3. MemoryTypeOK'
    BY <1>3, <1>4, <1>6, <2>1, <2>2 DEF MemoryInv, MemoryTypeOK
  <2>4. Apart'
    BY <1>3, <1>4, <1>5, <2>1 DEF MemoryInv, Apart
  <2>5. \A i \in Items : InHand(i)' <=> InHand(i)
    BY <1>1, <1>3, <1>4, <2>1 DEF InHand
  <2>6. ItemsKept'
    <3>1. flight' \in Seq(Items) /\ UNCHANGED <<known, retried, settled>>
      BY <1>3, <1>6, MemoryFacts
    <3> QED
      BY <1>4, <2>1, <2>5, <3>1, MovesKeep
  <2>7. WorkerKept'
    <3>1. worker # "off"
      BY <1>1, NobodyInLine DEF MemoryInv, WorkerKept
    <3> QED
      BY <1>3, <3>1 DEF MemoryInv, WorkerKept
  <2> QED
    BY <2>3, <2>4, <2>6, <2>7 DEF MemoryInv
<1>7. CASE ~(Room > 0)
  <2>1. settled' = [i \in Items |-> IF i \in {h} THEN 1 ELSE settled[i]]
    <3>1. {h} \in SUBSET Items /\ (\A i \in {h} : InHand(i)) /\ Settle({h})
      BY <1>1, <1>3, <1>5, <1>7
    <3> QED
      BY <3>1, SettledNow
  <2>2. MemoryTypeOK'
    BY <1>3, <1>4, <1>7, <2>1 DEF MemoryInv, MemoryTypeOK
  <2>3. Apart'
    BY <1>3, <1>4, <1>7 DEF MemoryInv, Apart
  <2>4. ItemsKept'
    <3>1. \A i \in Items : InHand(i)' <=> InHand(i) /\ i \notin {h}
      BY <1>3, <1>4, <1>5, <1>7 DEF InHand
    <3>2. {h} \in SUBSET Items /\ \A i \in {h} : i \in known
      BY <1>1
    <3>3. UNCHANGED known /\ \A i \in Items : i \notin {h} => retried'[i] = retried[i]
      BY <1>3
    <3> QED
      BY <2>1, <3>1, <3>2, <3>3, GoneKeep
  <2>5. WorkerKept'
    <3>1. worker # "off"
      BY <1>1, NobodyInLine DEF MemoryInv, WorkerKept
    <3> QED
      BY <1>3, <3>1 DEF MemoryInv, WorkerKept
  <2> QED
    BY <2>2, <2>3, <2>4, <2>5 DEF MemoryInv
<1> QED
  BY <1>6, <1>7

(* A close puts back what is in flight and what waits, and settles what    *)
(* the queue has no room for.                                              *)
LEMMA CloseStays ==
    ASSUME MemoryInv, CloseBackend
    PROVE  MemoryInv'
<1> DEFINE put == First(Room, PutBack)
           over == Rest(Room, PutBack)
           gone == {over[n] : n \in DOMAIN over}
<1>1. /\ worker' = "off" /\ queued' = queued \o put /\ Settle(gone)
      /\ flight' = <<>> /\ waiting' = <<>> /\ closes' = closes + 1 /\ closes < MaxCloses
      /\ UNCHANGED <<known, retried>>
  BY DEF CloseBackend
<1>2. /\ PutBack \in Seq(Items) /\ Once(PutBack)
      /\ \A x : Member(PutBack, x) <=> Member(flight, x) \/ Member(waiting, x)
  <2>1. \A x : ~(Member(flight, x) /\ Member(waiting, x))
    BY DEF MemoryInv, Apart
  <2>2. /\ flight \o waiting \in Seq(Items) /\ Once(flight \o waiting)
        /\ \A x : Member(flight \o waiting, x) <=> Member(flight, x) \/ Member(waiting, x)
    BY <2>1, MemoryFacts, LinesJoined
  <2> QED
    BY <2>2, Zenon DEF PutBack
<1>3. /\ put \in Seq(Items) /\ Len(put) <= Room /\ Len(put) \in Nat /\ Once(put)
      /\ over \in Seq(Items)
      /\ \A x : Member(PutBack, x) <=> Member(put, x) \/ Member(over, x)
      /\ \A x : ~(Member(put, x) /\ Member(over, x))
  BY <1>2, MemoryFacts, Portioned
<1>4. \A x : x \in gone <=> Member(over, x)
  <2> HIDE DEF over
  <2> QED
    BY DEF Member
<1> HIDE DEF put, over, gone
<1>5. \A x : ~(Member(queued, x) /\ Member(put, x))
  BY <1>2, <1>3 DEF MemoryInv, Apart
<1>6. /\ queued' \in Seq(Items) /\ Len(queued') = Len(queued) + Len(put) /\ Once(queued')
      /\ \A x : Member(queued', x) <=> Member(queued, x) \/ Member(put, x)
  <2>1. /\ queued \o put \in Seq(Items) /\ Len(queued \o put) = Len(queued) + Len(put)
        /\ Once(queued \o put)
        /\ \A x : Member(queued \o put, x) <=> Member(queued, x) \/ Member(put, x)
    BY <1>3, <1>5, MemoryFacts, LinesJoined
  <2> QED
    BY <1>1, <2>1
<1>7. Len(queued') <= QueueSize
  BY <1>3, <1>6, MemoryFacts DEF Room
<1>8. \A i \in gone : i \in Items /\ i \in known /\ InHand(i) /\ ~Member(queued, i)
  <2> SUFFICES ASSUME NEW i \in gone
               PROVE  i \in Items /\ i \in known /\ InHand(i) /\ ~Member(queued, i)
    OBVIOUS
  <2>1. Member(flight, i) \/ Member(waiting, i)
    BY <1>2, <1>3, <1>4
  <2>2. i \in Items /\ i \in known
    BY <2>1, MemoryFacts
  <2> QED
    BY <2>1, <2>2 DEF InHand, MemoryInv, Apart
<1>9. settled' = [i \in Items |-> IF i \in gone THEN 1 ELSE settled[i]]
  <2>1. gone \in SUBSET Items /\ \A i \in gone : InHand(i)
    BY <1>8
  <2> QED
    BY <1>1, <2>1, SettledNow
<1>10. MemoryTypeOK'
  <2>1. flight' \in Seq(Items) /\ waiting' \in Seq(Items) /\ Len(flight') <= Chunk
    BY <1>1, MemoryFacts
  <2>2. closes' \in 0 .. MaxCloses
    BY <1>1, MemoryAssumption DEF MemoryInv, MemoryTypeOK
  <2>3. settled' \in [Items -> 0 .. 2]
    BY <1>9 DEF MemoryInv, MemoryTypeOK
  <2> QED
    BY <1>1, <1>6, <1>7, <2>1, <2>2, <2>3 DEF MemoryInv, MemoryTypeOK
<1>11. Apart'
  BY <1>1, <1>6, NobodyInLine DEF Apart
<1>12. ItemsKept'
  <2>1. \A i \in Items : InHand(i)' <=> InHand(i) /\ i \notin gone
    <3> SUFFICES ASSUME NEW i \in Items PROVE InHand(i)' <=> InHand(i) /\ i \notin gone
      OBVIOUS
    <3>1. InHand(i)' <=> Member(queued, i) \/ Member(put, i)
      BY <1>1, <1>6, NobodyInLine DEF InHand
    <3>2. InHand(i) <=> Member(queued, i) \/ Member(put, i) \/ i \in gone
      BY <1>2, <1>3, <1>4 DEF InHand
    <3>3. i \in gone => ~Member(queued, i) /\ ~Member(put, i)
      BY <1>3, <1>4, <1>8
    <3> QED
      BY <3>1, <3>2, <3>3
  <2>2. gone \in SUBSET Items /\ \A i \in gone : i \in known
    BY <1>8
  <2>3. UNCHANGED known /\ \A i \in Items : i \notin gone => retried'[i] = retried[i]
    BY <1>1
  <2> QED
    BY <1>9, <2>1, <2>2, <2>3, GoneKeep
<1> QED
  BY <1>1, <1>10, <1>11, <1>12 DEF MemoryInv, WorkerKept

(* The invariant holds in every state of the backend. *)
LEMMA MemoryInvariant == MemoryInit /\ [][MemoryNext]_memoryVars => []MemoryInv
<1>1. MemoryInit => MemoryInv
  <2> SUFFICES ASSUME MemoryInit PROVE MemoryInv
    OBVIOUS
  <2>1. MemoryTypeOK
    BY MemoryAssumption DEF MemoryInit, MemoryTypeOK
  <2>2. Apart
    BY NobodyInLine DEF MemoryInit, Apart
  <2>3. ItemsKept
    <3>1. \A i \in Items : ~InHand(i)
      BY NobodyInLine DEF MemoryInit, InHand
    <3> QED
      BY <3>1, MemoryAssumption DEF MemoryInit, ItemsKept
  <2>4. WorkerKept
    BY DEF MemoryInit, WorkerKept
  <2> QED
    BY <2>1, <2>2, <2>3, <2>4 DEF MemoryInv
<1>2. ASSUME MemoryInv, [MemoryNext]_memoryVars PROVE MemoryInv'
  <2>1. CASE StartWorker \/ Execute \/ UNCHANGED memoryVars
    <3>1. /\ UNCHANGED <<known, queued, flight, waiting, retried, settled, closes>>
          /\ worker' \in {"off", "polls", "runs"}
      BY <1>2, <2>1 DEF StartWorker, Execute, memoryVars, MemoryInv, MemoryTypeOK
    <3>2. MemoryTypeOK'
      BY <1>2, <3>1 DEF MemoryInv, MemoryTypeOK
    <3>3. Apart'
      BY <1>2, <3>1 DEF MemoryInv, Apart
    <3>4. ItemsKept'
      BY <1>2, <3>1 DEF MemoryInv, ItemsKept, InHand
    <3>5. WorkerKept'
      BY <1>2, <2>1 DEF MemoryInv, WorkerKept, StartWorker, Execute, memoryVars
    <3> QED
      BY <3>2, <3>3, <3>4, <3>5 DEF MemoryInv
  <2>2. ASSUME NEW i \in Items, Enqueue(i) PROVE MemoryInv'
    BY <1>2, <2>2, EnqueueStays
  <2>3. CASE Dequeue
    BY <1>2, <2>3, DequeueStays
  <2>4. CASE Ack \/ Nack
    BY <1>2, <2>4, ExecutedStays
  <2>5. CASE Requeue
    BY <1>2, <2>5, RequeueStays
  <2>6. CASE CloseBackend
    BY <1>2, <2>6, CloseStays
  <2> QED
    BY <1>2, <2>1, <2>2, <2>3, <2>4, <2>5, <2>6 DEF MemoryNext, MemoryObliged
<1> QED
  BY <1>1, <1>2, PTL

(* The backend's state keeps its types: the queue never holds more than    *)
(* max_queue_size, nor a batch more than the worker asks for.              *)
THEOREM MemoryTypeCorrect == MemorySpec => []MemoryTypeOK
<1>1. MemoryInv => MemoryTypeOK
  BY DEF MemoryInv
<1> QED
  BY <1>1, MemoryInvariant, PTL DEF MemorySpec

(* Every item enqueued is, at every moment, once in the queue, in flight   *)
(* or in a retry delay, or was acked or dead-lettered once: the safety     *)
(* half of SettlesOnce, whatever closes, full queues and retries it met.   *)
THEOREM MemoryKeepsItems == MemorySpec => [](Apart /\ ItemsKept)
<1>1. MemoryInv => Apart /\ ItemsKept
  BY DEF MemoryInv
<1> QED
  BY <1>1, MemoryInvariant, PTL DEF MemorySpec

(***************************************************************************)
(* The kit.                                                                *)
(***************************************************************************)

(* In every behavior of the kit each part behaves as its own module says,  *)
(* or rests, so the state of every part keeps its types.                   *)
THEOREM KitTypeCorrect == KitSpec => []KitTypeOK
<1>1. KitInit => /\ DoorInit /\ LocksInit /\ TurnsInit
                 /\ TimersInit /\ RunnerInit /\ MemoryInit
  BY DEF KitInit
<1>2. [KitNext]_kitVars =>
          /\ [DoorNext]_doorVars /\ [LocksNext]_locksVars /\ [TurnsNext]_turnsVars
          /\ [TimersNext]_timersVars /\ [RunnerNext]_runnerVars
          /\ [MemoryNext]_memoryVars
  BY DEF KitNext, kitVars
<1>3. DoorInv /\ LocksInv /\ TurnsInv /\ TimersInv /\ RunnerInv /\ MemoryInv => KitTypeOK
  BY DEF KitTypeOK, DoorInv, LocksInv, TurnsInv, TimersInv, RunnerInv, MemoryInv
<1> QED
  BY <1>1, <1>2, <1>3, DoorInvariant, LocksInvariant, TurnsInvariant, TimersInvariant,
     RunnerInvariant, MemoryInvariant, PTL DEF KitSpec
=============================================================================
