----------------------------- MODULE RoomTimers -----------------------------
(***************************************************************************)
(* A room's timers (core/_room_timers.py): an ACTIVE room pauses once it   *)
(* was idle for a while, a PAUSED one closes a while later.  The section   *)
(* that holds the room's lock first applies what fell due                  *)
(* (core/_timer_transitions.py), then does what it came for: a message,    *)
(* the host's check, or a call that moves the status                       *)
(* (core/mixins/room_lifecycle.py).  A spoken greeting commits without the *)
(* lock (core/mixins/greeting.py), so the due transitions are written by a *)
(* compare-and-set.  What is reported of a transition, its hooks included, *)
(* is left out, and so are the calls that change other fields of the room. *)
(***************************************************************************)
EXTENDS Integers, Sequences

CONSTANTS
    InactiveAfter, \* inactive_after_seconds
    ClosedAfter,   \* closed_after_seconds
    Attempts,      \* _ATTEMPTS
    Errands,       \* what sections come for
    MaxClock       \* bound: the instants

ASSUME TimersAssumption ==
    /\ InactiveAfter \in Nat /\ ClosedAfter \in Nat
    /\ Attempts \in Nat \ {0} /\ MaxClock \in Nat
    /\ Errands \subseteq {"message", "check", "pause", "resume", "reopen", "close",
                          "archive", "retime"}

VARIABLES
    clock,   \* the instant
    row,     \* the room as stored: status, last_activity_at and paused_at
    section, \* the section that holds the room's lock, and what it read
    heard    \* history: when the room was last active, resumed or reopened

timersVars == <<clock, row, section, heard>>

Unpaused == -1   \* paused_at is null
Instants == 0 .. MaxClock
Rows == [status : {"active", "paused", "closed", "archived"},
         activity : Instants, pausedAt : Instants \cup {Unpaused}]

TimersTypeOK ==
    /\ clock \in Instants /\ heard \in Instants
    /\ row \in Rows
    /\ section \in [errand : Errands \cup {"check"}, read : Rows, tries : 0 .. Attempts,
                    due : {"nothing", "paused", "closed"}, owed : BOOLEAN,
                    step : {"none", "computing", "writing", "reporting",
                            "rereading", "deciding"}]

TimersInit ==
    /\ clock = 0 /\ heard = 0
    /\ row = [status |-> "active", activity |-> 0, pausedAt |-> Unpaused]
    /\ section = [errand |-> "check", read |-> row, tries |-> 0, due |-> "nothing",
                  owed |-> FALSE, step |-> "none"]

-----------------------------------------------------------------------------
(* due_transitions: the status it leads to by now, the pause of an ACTIVE  *)
(* room taking the instant it fell due.                                    *)
PauseDue(r) == r.status = "active" /\ r.activity + InactiveAfter <= clock
PausedFrom(r) == IF r.status = "active" THEN r.activity + InactiveAfter ELSE r.pausedAt
CloseDue(r) ==
    /\ PauseDue(r) \/ r.status = "paused"
    /\ PausedFrom(r) + ClosedAfter <= clock

DueStatus(r) ==
    IF CloseDue(r) THEN "closed" ELSE IF PauseDue(r) THEN "paused" ELSE "nothing"

(* transitioned *)
Transitioned(r, due) ==
    [r EXCEPT !.status = due,
              !.pausedAt = IF due = "paused" THEN PausedFrom(r) ELSE Unpaused]

(* committed_state of an event that is the room's activity. *)
ActiveNow(r) ==
    [r EXCEPT !.activity = clock,
              !.status = IF @ = "paused" THEN "active" ELSE @,
              !.pausedAt = IF r.status = "paused" THEN Unpaused ELSE @]

-----------------------------------------------------------------------------
Tick ==
    /\ clock < MaxClock
    /\ clock' = clock + 1
    /\ UNCHANGED <<row, section, heard>>

(* _store_greeting_event: no lock, no status read. *)
Greet ==
    /\ row' = ActiveNow(row)
    /\ heard' = clock
    /\ section' = [section EXCEPT !.owed = FALSE]
    /\ UNCHANGED clock

(* A section enters the lock and reads the room; set_room_timers applies   *)
(* nothing.                                                                *)
Enter(errand) ==
    /\ section.step = "none"
    /\ section' = [errand |-> errand, read |-> row, tries |-> Attempts, due |-> "nothing",
                   owed |-> CloseDue(row),
                   step |-> IF errand = "retime" THEN "deciding" ELSE "computing"]
    /\ UNCHANGED <<clock, row, heard>>

(* _write_due: one attempt. *)
Compute ==
    /\ section.step = "computing"
    /\ LET due == DueStatus(section.read)
       IN  section' = [section EXCEPT !.due = due,
                          !.step = IF due = "nothing" THEN "deciding" ELSE "writing"]
    /\ UNCHANGED <<clock, row, heard>>

(* room_holds *)
StatusHolds == row.status = section.read.status   \* mutant: the activity not compared
RowHolds == row = section.read

(* update_room_if *)
WriteDue ==
    /\ section.step = "writing"
    /\ IF RowHolds
       THEN /\ row' = Transitioned(section.read, section.due)
            /\ section' = [section EXCEPT !.step = "reporting"]
       ELSE /\ section' = [section EXCEPT !.step = "rereading", !.tries = @ - 1]
            /\ UNCHANGED row
    /\ UNCHANGED <<clock, heard>>

(* Beaten: the room is read again, and left to the next section after the  *)
(* last attempt.                                                           *)
Reread ==
    /\ section.step = "rereading"
    /\ LET again == section.tries > 0
       IN  section' = [section EXCEPT !.read = row, !.owed = again /\ CloseDue(row),
                          !.step = IF again THEN "computing" ELSE "deciding"]
    /\ UNCHANGED <<clock, row, heard>>

(* _announce, then the room as stored once the records are written. *)
Report ==
    /\ section.step = "reporting"
    /\ section' = [section EXCEPT !.read = row, !.step = "deciding"]
    /\ UNCHANGED <<clock, row, heard>>

-----------------------------------------------------------------------------
(* What the section came for, by the status it read: a message is refused  *)
(* by a room that is closed, a call moves some statuses and leaves others  *)
(* (_change_status, _close, archive_room), set_room_timers reads none, a   *)
(* check moves none.                                                       *)
LeavesFrom(errand) ==
    CASE errand \in {"message", "close"} -> {"active", "paused"}
      [] errand = "pause" -> {"active"}
      [] errand = "resume" -> {"paused"}
      [] errand = "reopen" -> {"closed"}
      [] errand = "archive" -> {"active", "paused", "closed"}
      [] errand = "retime" -> {"active", "paused", "closed", "archived"}
      [] errand = "check" -> {}

(* A message's commit moves the stored room; a call writes the room it     *)
(* read, with what it changed (update_room), set_room_timers the idle      *)
(* clock it read.                                                          *)
Paused(read) == [read EXCEPT !.status = "paused", !.pausedAt = clock]
ActiveAgain(read) ==
    [read EXCEPT !.status = "active", !.pausedAt = Unpaused, !.activity = clock]
Ended(read, status) == [read EXCEPT !.status = status, !.pausedAt = Unpaused]
Retimed(read) == read

Outcome(errand, read) ==
    CASE errand = "message" -> ActiveNow(row)
      [] errand = "pause" -> Paused(read)
      [] errand \in {"resume", "reopen"} -> ActiveAgain(read)
      [] errand = "close" -> Ended(read, "closed")
      [] errand = "archive" -> Ended(read, "archived")
      [] errand = "retime" -> Retimed(read)

Accepted == section.read.status \in LeavesFrom(section.errand)

LeaveRoom ==
    /\ section.step = "deciding"
    /\ IF Accepted
       THEN /\ row' = Outcome(section.errand, section.read)
            /\ heard' = IF section.errand \in {"message", "resume", "reopen"} THEN clock
                        ELSE heard
       ELSE UNCHANGED <<row, heard>>
    /\ section' = [section EXCEPT !.step = "none"]
    /\ UNCHANGED clock

-----------------------------------------------------------------------------
TimersNext ==
    \/ Tick \/ Greet
    \/ \E errand \in Errands : Enter(errand)
    \/ Compute \/ WriteDue \/ Reread \/ Report \/ LeaveRoom

TimersSpec == TimersInit /\ [][TimersNext]_timersVars
-----------------------------------------------------------------------------
(* How long the room must have been idle for a timer's write.              *)
IdleFor ==
    (IF row.status = "active" THEN InactiveAfter ELSE 0)
        + (IF row'.status = "closed" THEN ClosedAfter ELSE 0)

(* The timers neither run early nor late: what they write passes over no   *)
(* activity committed meanwhile, greetings off the lock included; and a    *)
(* section takes no message into a room whose close was due as it read the *)
(* room, unless a commit beat its last attempt or moved the activity.      *)
TimersOnTime ==
    [][ /\ section.step = "writing" /\ section'.step = "reporting"
            => heard + IdleFor <= clock
        /\ section.step = "deciding" /\ section'.step = "none"
              /\ section.errand = "message" /\ Accepted
            => ~section.owed
      ]_timersVars

(* set_room_timers: adjusting thresholds never resets the idle clock. *)
IdleClockKept == [][row'.activity >= row.activity]_timersVars
=============================================================================
