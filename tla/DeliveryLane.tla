---------------------------- MODULE DeliveryLane ----------------------------
(***************************************************************************)
(* One room's delivery lanes, one per process (core/lanes.py), with the    *)
(* store's delivered_index cursor, the room lock the commits run under and *)
(* the delivery claim the lanes take turns with.                           *)
(*                                                                         *)
(* An event is committed under the room lock, which gives it the next      *)
(* index, and its plan then joins the lane of the process that committed   *)
(* it.  A lane may run the plan at delivered_index + 1 only, under the     *)
(* claim, and moves the cursor past it.  A hole no process fills is        *)
(* skipped by a lane that has waited gap_timeout.                          *)
(*                                                                         *)
(* A step of this specification is what one process does between two       *)
(* awaits.  A process that crashes comes back with an empty lane.          *)
(***************************************************************************)
EXTENDS Integers, Sequences, FiniteSets

CONSTANTS
    Procs,         \* the processes that serve the room
    NoProc,        \* a value that is not a process
    MaxIndex,      \* bound: how many events the room commits
    MaxUnstored,   \* bound: how many events are delivered but not stored
    MaxCrashes,    \* bound: how many crashes
    MaxFaults      \* bound: how many store writes fail, one more when it is made again

ASSUME ProcsAssumption == NoProc \notin Procs
ASSUME BoundsAssumption ==
    /\ MaxIndex \in Nat /\ MaxUnstored \in Nat
    /\ MaxCrashes \in Nat /\ MaxFaults \in Nat

(* Entries are named by number: an indexed one by its index, an unstored    *)
(* (index-less) one by a number above every index, in order of placement.   *)
Indexes == 0 .. MaxIndex - 1
Unstored == MaxIndex .. MaxIndex + MaxUnstored - 1
Entries == Indexes \cup Unstored
Cursors == -1 .. MaxIndex - 1      \* -1 is before the first index, and None

VARIABLES
    cursor,    \* the store's delivered_index
    latest,    \* the store's latest_index, -1 while the room is empty
    unstored,  \* how many unstored events were placed
    roomLock,  \* who holds the room lock
    claim,     \* who holds the delivery claim
    owner,     \* the process that placed each entry
    after,     \* after_index of an unstored entry
    at,        \* where each entry is, see Stages
    lane,      \* where each process's lane is, see LaneStages
    delivered, \* `delivered` of the lane's claimed round
    owed,      \* _owed_cursor, -1 for None
    target,    \* the skip target of the lane, once computed
    forced,    \* the processes whose round has force_skip
    dropped,   \* those whose check off the claim dropped something: the
               \* `progressed` of _process_ready
    moved,     \* those whose round under the claim progressed: the
               \* `progressed` of _claimed_round
    clock,     \* gap_since: "off" (None), "running", "expired" (>= gap_timeout)
    executed,  \* the lane's `executed`: the entries its round began
    skipped,   \* the indexes delivery_skipped named
    unheard,   \* history: skipped by a lane that failed before it said so
    crashes, faults

store == <<cursor, latest, unstored>>
entries == <<owner, after>>
round == <<delivered, owed, target, forced, dropped, moved, executed>>
vars == <<cursor, latest, unstored, roomLock, claim, owner, after, at, lane,
          delivered, owed, target, forced, dropped, moved, clock, executed,
          skipped, unheard, crashes, faults>>

(* An entry is "committed" (or "noting", with no delivery set) between its  *)
(* commit and its lane; "queued" (or "noted", a CursorEntry) in the lane;   *)
(* "running", "ran" until its aftermath, "finished"; "filled" when it needs *)
(* no delivery; "stale" when dropped behind the cursor; "lost" when its     *)
(* process crashed (or failed) before it began, "cut" when after.           *)
Stages == {"none", "committed", "noting", "queued", "noted", "running", "ran",
           "finished", "filled", "stale", "lost", "cut"}
Queued == {"queued", "noted"}
Pending == {"committed", "noting", "queued", "noted"}
Begun == {"running", "ran", "finished", "cut"}

(* "rest" between rounds, "want" queued for the claim; under the claim,     *)
(* "owed" (_write_owed_cursor), "round" (the loop), "running", "writing"    *)
(* (_advance_cursor), "reading" (a hole), "skipping" and "announcing" it;   *)
(* then "finishing".                                                        *)
LaneStages == {"rest", "want", "owed", "round", "running", "writing", "reading",
               "skipping", "announcing", "finishing"}
Tenure == {"owed", "round", "running", "writing", "reading", "skipping",
           "announcing"}

StoreOK ==
    /\ cursor \in Cursors
    /\ latest \in Cursors
    /\ unstored \in 0..MaxUnstored
    /\ roomLock \in Procs \cup {NoProc}
    /\ claim \in Procs \cup {NoProc}

EntriesOK ==
    /\ owner \in [Entries -> Procs \cup {NoProc}]
    /\ after \in [Unstored -> Cursors]
    /\ at \in [Entries -> Stages]

LanesOK ==
    /\ lane \in [Procs -> LaneStages]
    /\ delivered \in [Procs -> Cursors]
    /\ owed \in [Procs -> Cursors]
    /\ target \in [Procs -> Cursors]
    /\ forced \in SUBSET Procs
    /\ dropped \in SUBSET Procs
    /\ moved \in SUBSET Procs
    /\ clock \in [Procs -> {"off", "running", "expired"}]
    /\ executed \in [Procs -> Seq(Entries)]

HistoryOK ==
    /\ skipped \in SUBSET Indexes
    /\ unheard \in SUBSET Indexes
    /\ crashes \in 0..MaxCrashes
    /\ faults \in 0..MaxFaults + 1

TypeOK == StoreOK /\ EntriesOK /\ LanesOK /\ HistoryOK

Init ==
    /\ cursor = -1 /\ latest = -1 /\ unstored = 0
    /\ roomLock = NoProc /\ claim = NoProc
    /\ owner = [e \in Entries |-> NoProc]
    /\ after = [u \in Unstored |-> -1]
    /\ at = [e \in Entries |-> "none"]
    /\ lane = [p \in Procs |-> "rest"]
    /\ delivered = [p \in Procs |-> -1]
    /\ owed = [p \in Procs |-> -1]
    /\ target = [p \in Procs |-> -1]
    /\ forced = {} /\ dropped = {} /\ moved = {}
    /\ clock = [p \in Procs |-> "off"]
    /\ executed = [p \in Procs |-> <<>>]
    /\ skipped = {} /\ unheard = {}
    /\ crashes = 0 /\ faults = 0

Higher(i, j) == IF i > j THEN i ELSE j

(* The store's compare-and-set: advance_delivered_index without force moves *)
(* the cursor onto i from i - 1 only.                                       *)
CanAdvanceAhead(i) == cursor < i        \* mutant: any index ahead of the cursor
CanAdvance(i) == cursor = i - 1

-----------------------------------------------------------------------------
(* Commits, under the room lock.                                           *)

(* _commit_to_lane and _commit_and_note: the store gives the event the     *)
(* next index; its plan is enqueued, or its index noted, once the store    *)
(* answered.                                                               *)
Commit(p, stage) ==
    /\ roomLock = NoProc
    /\ latest + 1 \in Indexes
    /\ roomLock' = p
    /\ latest' = latest + 1
    /\ owner' = [owner EXCEPT ![latest + 1] = p]
    /\ at' = [at EXCEPT ![latest + 1] = stage]
    /\ UNCHANGED <<cursor, unstored, claim, after, lane, round, clock, skipped, unheard,
                   crashes, faults>>

Enqueue(p) ==
    /\ roomLock = p
    /\ at[latest] = "committed"
    /\ roomLock' = NoProc
    /\ at' = [at EXCEPT ![latest] = "queued"]
    /\ UNCHANGED <<store, claim, entries, lane, round, clock, skipped, unheard, crashes,
                   faults>>

(* _note_committed_index: the cursor moves at once when it stands just     *)
(* behind the index, off the claim; else the lane gets a cursor entry.     *)
NoteCommitted(p) ==
    /\ roomLock = p
    /\ at[latest] = "noting"
    /\ roomLock' = NoProc
    /\ IF CanAdvance(latest)
       THEN /\ cursor' = latest
            /\ at' = [at EXCEPT ![latest] = "filled"]
       ELSE /\ at' = [at EXCEPT ![latest] = "noted"]
            /\ UNCHANGED cursor
    /\ UNCHANGED <<latest, unstored, claim, entries, lane, round, clock, skipped, unheard,
                   crashes, faults>>

(* Its store write raises, applied or not: the error reaches the caller,    *)
(* the index no lane.                                                       *)
NoteFails(p) ==
    /\ roomLock = p
    /\ at[latest] = "noting"
    /\ faults < MaxFaults
    /\ faults' = faults + 1
    /\ roomLock' = NoProc
    /\ \/ /\ at' = [at EXCEPT ![latest] = "lost"]
          /\ UNCHANGED cursor
       \/ /\ CanAdvance(latest)
          /\ cursor' = latest
          /\ at' = [at EXCEPT ![latest] = "filled"]
    /\ UNCHANGED <<latest, unstored, claim, entries, lane, round, clock, skipped,
                   unheard, crashes>>

(* An event the persistence policy excludes: an index-less entry anchored  *)
(* behind the latest index, in one hold of the room lock.                  *)
PlaceUnstored(p) ==
    /\ roomLock = NoProc
    /\ unstored < MaxUnstored
    /\ unstored' = unstored + 1
    /\ LET u == MaxIndex + unstored IN
         /\ owner' = [owner EXCEPT ![u] = p]
         /\ after' = [after EXCEPT ![u] = latest]
         /\ at' = [at EXCEPT ![u] = "queued"]
    /\ UNCHANGED <<cursor, latest, roomLock, claim, lane, round, clock, skipped, unheard,
                   crashes, faults>>

-----------------------------------------------------------------------------
(* The lane's queues.                                                      *)

MyIndexed(p) == {i \in Indexes : owner[i] = p /\ at[i] \in Queued}
MyUnstored(p) == {u \in Unstored : owner[u] = p /\ at[u] \in Queued}

(* The head of _unindexed, once its anchor was delivered. *)
DueUnanchored(p, u, d) ==               \* mutant: the anchor is not looked at
    u \in MyUnstored(p) /\ \A v \in MyUnstored(p) : u <= v
Due(p, u, d) ==
    /\ u \in MyUnstored(p)
    /\ \A v \in MyUnstored(p) : u <= v
    /\ after[u] <= d

(* _has_turn *)
HasTurn(p, d) ==
    \/ d + 1 \in MyIndexed(p)
    \/ \E u \in MyUnstored(p) : Due(p, u, d)

(* _drop_stale: what stands at or behind d is dropped. *)
Stale(p, d) == {i \in MyIndexed(p) : i <= d}
AfterDrop(p, d) ==
    [e \in Entries |-> IF e \notin Stale(p, d) THEN at[e]
                       ELSE IF at[e] = "queued" THEN "stale" ELSE "filled"]

(* _skip_target: the least cursor that lets one of the lane's entries run, *)
(* d when there is none ahead of d.                                        *)
Needs(p, d) ==
    {n \in {after[u] : u \in MyUnstored(p)}
           \cup {i - 1 : i \in {j \in MyIndexed(p) : \A k \in MyIndexed(p) : j <= k}} :
       n > d}
IsSkipTargetLast(p, d, t) ==            \* mutant: the greatest instead
    IF Needs(p, d) = {} THEN t = d
    ELSE t \in Needs(p, d) /\ \A n \in Needs(p, d) : t >= n
IsSkipTarget(p, d, t) ==
    IF Needs(p, d) = {} THEN t = d
    ELSE t \in Needs(p, d) /\ \A n \in Needs(p, d) : t <= n

-----------------------------------------------------------------------------
(* The lane.                                                               *)

(* gap_since after a round that progressed or did not. *)
GapClockSwapped(p, progressed) ==       \* mutant: the branches swapped
    IF ~progressed THEN "off" ELSE IF clock[p] = "off" THEN "running" ELSE clock[p]
GapClock(p, progressed) ==
    IF progressed THEN "off" ELSE IF clock[p] = "off" THEN "running" ELSE clock[p]

(* _run's turn of the loop and _process_ready's check off the claim: read  *)
(* the cursor, drop what is stale, and queue for the claim when an entry   *)
(* has its turn or the gap clock expired.                                  *)
Poll(p) ==
    /\ lane[p] = "rest"
    /\ MyIndexed(p) \cup MyUnstored(p) # {}
    /\ LET d == Higher(cursor, owed[p])
           progressed == Stale(p, d) # {}
           force == clock[p] = "expired"
       IN  /\ at' = AfterDrop(p, d)
           /\ IF HasTurn(p, d) \/ force
              THEN /\ lane' = [lane EXCEPT ![p] = "want"]
                   /\ forced' = IF force THEN forced \cup {p} ELSE forced
                   /\ dropped' = IF progressed THEN dropped \cup {p} ELSE dropped
                   /\ UNCHANGED clock
              ELSE /\ clock' = [clock EXCEPT ![p] = GapClock(p, progressed)]
                   /\ UNCHANGED <<lane, forced, dropped>>
    /\ UNCHANGED <<store, roomLock, claim, entries, delivered, owed, target,
                   moved, executed, skipped, unheard, crashes, faults>>

(* _run with nothing queued: the gap clock is forgotten. *)
Idle(p) ==
    /\ lane[p] = "rest"
    /\ MyIndexed(p) \cup MyUnstored(p) = {}
    /\ clock[p] # "off"
    /\ clock' = [clock EXCEPT ![p] = "off"]
    /\ UNCHANGED <<store, roomLock, claim, entries, at, lane, round, skipped, unheard,
                   crashes, faults>>

TakeClaimUnserialised(p) ==             \* mutant: the claim excludes nobody
    /\ lane[p] = "want"
    /\ claim' = p
    /\ lane' = [lane EXCEPT ![p] = "owed"]
    /\ UNCHANGED <<store, roomLock, entries, at, round, clock, skipped, unheard, crashes,
                   faults>>
TakeClaim(p) ==
    /\ lane[p] = "want"
    /\ claim = NoProc
    /\ claim' = p
    /\ lane' = [lane EXCEPT ![p] = "owed"]
    /\ UNCHANGED <<store, roomLock, entries, at, round, clock, skipped, unheard, crashes,
                   faults>>

(* _write_owed_cursor: one index at a time from the stored cursor.  A write *)
(* refused has met another process's, and the cursor read again is ahead:   *)
(* it never moves back, so none is found where it was.                      *)
OwingAtMost(p) == cursor <= owed[p]     \* mutant: one write too many
Owing(p) == cursor < owed[p]

WriteOwed(p) ==
    /\ lane[p] = "owed"
    /\ IF Owing(p)
       THEN /\ cursor' = cursor + 1
            /\ UNCHANGED <<lane, delivered, owed, moved>>
       ELSE /\ delivered' = [delivered EXCEPT ![p] = cursor]
            /\ moved' = IF owed[p] = -1 THEN moved ELSE moved \cup {p}
            /\ owed' = [owed EXCEPT ![p] = -1]
            /\ lane' = [lane EXCEPT ![p] = "round"]
            /\ UNCHANGED cursor
    /\ UNCHANGED <<latest, unstored, roomLock, claim, entries, at, target, forced, dropped,
                   clock, executed, skipped, unheard, crashes, faults>>

WriteOwedFails(p) ==
    /\ lane[p] = "owed"
    /\ Owing(p)
    /\ faults <= MaxFaults
    /\ faults' = faults + 1
    /\ cursor' \in {cursor, cursor + 1}
    /\ delivered' = [delivered EXCEPT ![p] = owed[p]]
    /\ lane' = [lane EXCEPT ![p] = "round"]
    /\ UNCHANGED <<latest, unstored, roomLock, claim, entries, at, owed, target, forced, dropped,
                   moved, clock, executed, skipped, unheard, crashes>>

(* What the loop's _drop_stale does to `progressed`. *)
MovedByDrop(p) == IF Stale(p, delivered[p]) # {} THEN moved \cup {p} ELSE moved

(* _claimed_round begins an entry: the due unstored one, else the plan at  *)
(* delivered + 1.  _execute_owned records it before it runs.               *)
RunsFirst(p, e) ==                      \* mutant: the head, its turn or not
    \/ e \in Unstored /\ Due(p, e, delivered[p])
    \/ /\ e \in MyIndexed(p) /\ \A i \in MyIndexed(p) : e <= i
       /\ at[e] = "queued"
       /\ \A u \in MyUnstored(p) : ~Due(p, u, delivered[p])
Runs(p, e) ==
    \/ e \in Unstored /\ Due(p, e, delivered[p])
    \/ /\ e = delivered[p] + 1
       /\ e \in MyIndexed(p) /\ at[e] = "queued"
       /\ \A u \in MyUnstored(p) : ~Due(p, u, delivered[p])

Begin(p, e) ==
    /\ lane[p] = "round"
    /\ Runs(p, e)
    /\ at' = [AfterDrop(p, delivered[p]) EXCEPT ![e] = "running"]
    /\ executed' = [executed EXCEPT ![p] = Append(@, e)]
    /\ lane' = [lane EXCEPT ![p] = "running"]
    /\ moved' = MovedByDrop(p)
    /\ UNCHANGED <<store, roomLock, claim, entries, delivered, owed, target,
                   forced, dropped, clock, skipped, unheard, crashes, faults>>

(* _execute returns: a failure is recorded, never raised, and a cancelled  *)
(* cascade still consumes its index.                                       *)
RunEnds(p, e) ==
    /\ lane[p] = "running"
    /\ at[e] = "running" /\ owner[e] = p
    /\ at' = [at EXCEPT ![e] = "ran"]
    /\ lane' = [lane EXCEPT ![p] = IF e \in Indexes THEN "writing" ELSE "round"]
    /\ moved' = moved \cup {p}
    /\ UNCHANGED <<store, roomLock, claim, entries, delivered, owed, target,
                   forced, dropped, clock, executed, skipped, unheard, crashes, faults>>

(* A cursor entry has its turn: nothing runs. *)
TakeNoted(p) ==
    LET i == delivered[p] + 1 IN
    /\ lane[p] = "round"
    /\ i \in MyIndexed(p) /\ at[i] = "noted"
    /\ \A u \in MyUnstored(p) : ~Due(p, u, delivered[p])
    /\ at' = [AfterDrop(p, delivered[p]) EXCEPT ![i] = "filled"]
    /\ lane' = [lane EXCEPT ![p] = "writing"]
    /\ moved' = moved \cup {p}
    /\ UNCHANGED <<store, roomLock, claim, entries, delivered, owed, target,
                   forced, dropped, clock, executed, skipped, unheard, crashes, faults>>

(* _advance_cursor: a strict compare-and-set, or one more index owed. *)
AdvanceCursor(p) ==
    LET i == delivered[p] + 1 IN
    /\ lane[p] = "writing"
    /\ delivered' = [delivered EXCEPT ![p] = i]
    /\ lane' = [lane EXCEPT ![p] = "round"]
    /\ IF owed[p] # -1
       THEN /\ owed' = [owed EXCEPT ![p] = i]
            /\ UNCHANGED cursor
       ELSE /\ cursor' = IF CanAdvance(i) THEN i ELSE cursor
            /\ UNCHANGED owed
    /\ UNCHANGED <<latest, unstored, roomLock, claim, entries, at, target, forced, dropped,
                   moved, clock, executed, skipped, unheard, crashes, faults>>

AdvanceFails(p) ==
    LET i == delivered[p] + 1 IN
    /\ lane[p] = "writing"
    /\ owed[p] = -1
    /\ faults < MaxFaults
    /\ faults' = faults + 1
    /\ cursor' \in {cursor, IF CanAdvance(i) THEN i ELSE cursor}
    /\ owed' = [owed EXCEPT ![p] = i]
    /\ delivered' = [delivered EXCEPT ![p] = i]
    /\ lane' = [lane EXCEPT ![p] = "round"]
    /\ UNCHANGED <<latest, unstored, roomLock, claim, entries, at, target, forced, dropped, moved,
                   clock, executed, skipped, unheard, crashes>>

NoTurn(p) == ~HasTurn(p, delivered[p])

(* The claim is released; what the round ran is finished next. *)
Release(p) ==
    /\ claim' = IF claim = p THEN NoProc ELSE claim
    /\ lane' = [lane EXCEPT ![p] = "finishing"]
    /\ delivered' = [delivered EXCEPT ![p] = -1]
    /\ target' = [target EXCEPT ![p] = -1]

(* The queues are empty: the round is over. *)
RoundOver(p) ==
    /\ lane[p] = "round"
    /\ MyIndexed(p) \cup MyUnstored(p) = Stale(p, delivered[p])
    /\ at' = AfterDrop(p, delivered[p])
    /\ moved' = MovedByDrop(p)
    /\ Release(p)
    /\ UNCHANGED <<store, roomLock, entries, owed, forced, dropped, clock, executed,
                   skipped, unheard, crashes, faults>>

(* A hole: the cursor is read again. *)
MeetHole(p) ==
    /\ lane[p] = "round"
    /\ NoTurn(p)
    /\ MyIndexed(p) \cup MyUnstored(p) # Stale(p, delivered[p])
    /\ at' = AfterDrop(p, delivered[p])
    /\ moved' = MovedByDrop(p)
    /\ lane' = [lane EXCEPT ![p] = "reading"]
    /\ UNCHANGED <<store, roomLock, claim, entries, delivered, owed, target,
                   forced, dropped, clock, executed, skipped, unheard, crashes, faults>>

(* The read's answer: another process moved the cursor; or the skip is due *)
(* (forced, nothing progressed under the claim, nothing owed, something    *)
(* ahead to unblock); or the round is over.                                *)
ReadHole(p) ==
    LET d == delivered[p]
        refreshed == Higher(cursor, owed[p])
        maySkip == p \in forced /\ p \notin moved /\ owed[p] = -1
    IN
    /\ lane[p] = "reading"
    /\ \/ /\ refreshed > d
          /\ delivered' = [delivered EXCEPT ![p] = refreshed]
          /\ moved' = moved \cup {p}
          /\ lane' = [lane EXCEPT ![p] = "round"]
          /\ UNCHANGED <<claim, target>>
       \/ /\ refreshed <= d /\ maySkip /\ Needs(p, d) # {}
          /\ \E t \in Indexes : IsSkipTarget(p, d, t) /\ target' = [target EXCEPT ![p] = t]
          /\ lane' = [lane EXCEPT ![p] = "skipping"]
          /\ UNCHANGED <<claim, delivered, moved>>
       \/ /\ refreshed <= d /\ ~(maySkip /\ Needs(p, d) # {})
          /\ Release(p)
          /\ UNCHANGED moved
    /\ UNCHANGED <<store, roomLock, entries, at, owed, forced, dropped, clock, executed,
                   skipped, unheard, crashes, faults>>

(* The forced write; then delivery_skipped, when it moved the cursor. *)
Skip(p) ==
    /\ lane[p] = "skipping"
    /\ IF cursor < target[p]
       THEN /\ cursor' = target[p]
            /\ lane' = [lane EXCEPT ![p] = "announcing"]
            /\ UNCHANGED <<claim, delivered, target>>
       ELSE /\ Release(p)
            /\ UNCHANGED cursor
    /\ UNCHANGED <<latest, unstored, roomLock, entries, at, owed, forced, dropped, moved,
                   clock, executed, skipped, unheard, crashes, faults>>

Passed(p) == delivered[p] + 1 .. target[p]

Announce(p) ==
    /\ lane[p] = "announcing"
    /\ skipped' = skipped \cup Passed(p)
    /\ delivered' = [delivered EXCEPT ![p] = target[p]]
    /\ moved' = moved \cup {p}
    /\ lane' = [lane EXCEPT ![p] = "round"]
    /\ UNCHANGED <<store, roomLock, claim, entries, at, owed, target, forced, dropped,
                   clock, executed, unheard, crashes, faults>>

(* A store or claim call of the round raises, a write applied or not: the  *)
(* claim is released, what ran is finished, and the round counts as one    *)
(* that did not progress.                                                  *)
RoundFails(p) ==
    /\ lane[p] \in {"want", "owed", "reading", "skipping"}
    /\ faults < MaxFaults
    /\ faults' = faults + 1
    /\ \/ UNCHANGED <<cursor, unheard>>
       \/ /\ lane[p] = "skipping" /\ cursor < target[p]
          /\ cursor' = target[p]
          /\ unheard' = unheard \cup Passed(p)
    /\ dropped' = dropped \ {p}
    /\ moved' = moved \ {p}
    /\ Release(p)
    /\ UNCHANGED <<latest, unstored, roomLock, entries, at, owed, forced, clock,
                   executed, skipped, crashes>>

(* _finish, in the order the entries ran: aftermath and responses' passes. *)
Finish(p) ==
    /\ lane[p] = "finishing"
    /\ executed[p] # <<>>
    /\ at' = [at EXCEPT ![Head(executed[p])] = "finished"]
    /\ executed' = [executed EXCEPT ![p] = Tail(@)]
    /\ UNCHANGED <<store, roomLock, claim, entries, lane, delivered, owed, target,
                   forced, dropped, moved, clock, skipped, unheard, crashes, faults>>

(* Back in _run: the gap clock restarts after progress, else it runs on. *)
EndRound(p) ==
    /\ lane[p] = "finishing"
    /\ executed[p] = <<>>
    /\ lane' = [lane EXCEPT ![p] = "rest"]
    /\ clock' = [clock EXCEPT ![p] = GapClock(p, p \in dropped \cup moved)]
    /\ forced' = forced \ {p}
    /\ dropped' = dropped \ {p}
    /\ moved' = moved \ {p}
    /\ UNCHANGED <<store, roomLock, claim, entries, at, delivered, owed, target,
                   executed, skipped, unheard, crashes, faults>>

(* gap_timeout passes only while something takes that long: a delivery or  *)
(* its aftermath, or a hole nobody is going to fill.  A lane with work to  *)
(* do polls far more often than that.                                      *)
LongWait ==
    \/ \E p \in Procs : lane[p] \in {"running", "finishing"}
    \/ cursor < latest /\ at[cursor + 1] \notin Pending \cup {"running"}

GapTimeout(p) ==
    /\ clock[p] = "running"
    /\ LongWait
    /\ clock' = [clock EXCEPT ![p] = "expired"]
    /\ UNCHANGED <<store, roomLock, claim, entries, at, lane, round, skipped, unheard,
                   crashes, faults>>

-----------------------------------------------------------------------------
(* The process dies: its locks go with its connection and its lane with    *)
(* its memory; a process of the same name starts again with an empty lane. *)
Crash(p) ==
    /\ crashes < MaxCrashes
    /\ crashes' = crashes + 1
    /\ roomLock' = IF roomLock = p THEN NoProc ELSE roomLock
    /\ claim' = IF claim = p THEN NoProc ELSE claim
    /\ at' = [e \in Entries |->
                IF owner[e] # p THEN at[e]
                ELSE IF at[e] \in Pending THEN "lost"
                ELSE IF at[e] \in {"running", "ran"} THEN "cut" ELSE at[e]]
    /\ lane' = [lane EXCEPT ![p] = "rest"]
    /\ delivered' = [delivered EXCEPT ![p] = -1]
    /\ owed' = [owed EXCEPT ![p] = -1]
    /\ target' = [target EXCEPT ![p] = -1]
    /\ forced' = forced \ {p}
    /\ dropped' = dropped \ {p}
    /\ moved' = moved \ {p}
    /\ clock' = [clock EXCEPT ![p] = "off"]
    /\ executed' = [executed EXCEPT ![p] = <<>>]
    /\ unheard' = IF lane[p] = "announcing" THEN unheard \cup Passed(p) ELSE unheard
    /\ UNCHANGED <<store, entries, skipped, faults>>

Places(p) ==
    \/ Commit(p, "committed") \/ Commit(p, "noting")
    \/ Enqueue(p) \/ NoteCommitted(p) \/ NoteFails(p)
    \/ PlaceUnstored(p)

LaneStep(p) ==
    \/ Poll(p) \/ Idle(p)
    \/ WriteOwed(p)
    \/ \E e \in Entries : Begin(p, e) \/ RunEnds(p, e)
    \/ TakeNoted(p) \/ AdvanceCursor(p)
    \/ RoundOver(p) \/ MeetHole(p) \/ ReadHole(p) \/ Skip(p)
    \/ Announce(p)
    \/ Finish(p) \/ EndRound(p)

Fails(p) == WriteOwedFails(p) \/ AdvanceFails(p) \/ RoundFails(p)

Next ==
    \E p \in Procs :
      Places(p) \/ TakeClaim(p) \/ LaneStep(p) \/ Fails(p) \/ GapTimeout(p) \/ Crash(p)

(* An event loop runs what is ready, a delivery ends, the clock runs, and  *)
(* the claim's queue lets each waiter in.                                  *)
Fairness ==
    \A p \in Procs :
      /\ WF_vars(Enqueue(p) \/ NoteCommitted(p))
      /\ WF_vars(LaneStep(p))
      /\ SF_vars(TakeClaim(p))
      /\ WF_vars(GapTimeout(p))

Spec == Init /\ [][Next]_vars
FairSpec == Spec /\ Fairness

-----------------------------------------------------------------------------
(* The claim makes "one event's set completes before the next begins" hold *)
(* across processes: one lane is in its tenure, one entry runs.            *)
OneDelivery ==
    \A e, f \in Entries : at[e] = "running" /\ at[f] = "running" => e = f

(* Deliveries begin in the order of the indexes, whichever processes own   *)
(* them, whatever crashed, failed or was skipped.                          *)
InOrder ==
    [][\A i, j \in Indexes :
         i < j /\ at[i] \notin Begun /\ at'[i] \in Begun => at[j] \notin Begun]_vars

(* What a skip passed: announced, about to be, or passed by a lane that    *)
(* crashed or failed between the write and the announcement.               *)
GivenUp ==
    skipped \cup unheard
    \cup UNION {Passed(p) : p \in {q \in Procs : lane[q] = "announcing"}}

(* The cursor never passes an index silently: each one behind it was       *)
(* begun, needed no delivery, or was skipped and announced.                *)
NoSilentLoss ==
    \A i \in Indexes : i <= cursor => at[i] \in Begun \cup {"filled"} \/ i \in GivenUp

(* What a lane owes the cursor it delivered itself: the writes it makes    *)
(* again pass no other process's index.                                    *)
OwesItsOwn ==
    \A p \in Procs, i \in Indexes :
      cursor < i /\ i <= owed[p] =>
        owner[i] = p /\ at[i] \in {"ran", "finished", "filled"}

(* An unstored entry runs behind every event it causally follows: when it  *)
(* begins, none of them is still to run, but one declared lost.            *)
AnchorRespected ==
    [][\A u \in Unstored : at[u] = "queued" /\ at'[u] = "running" =>
         \A i \in Indexes : i <= after[u] =>
           at[i] \in Begun \cup {"filled"} \/ i \in GivenUp]_vars

(* A lane never skips what it holds itself, in its queue or on its way     *)
(* there from the commit.                                                  *)
SkipsNoneOfItsOwn ==
    [][\A p \in Procs, i \in Indexes :
         lane[p] = "skipping" /\ lane'[p] # "skipping" /\ cursor < i /\ i <= cursor' =>
           ~(owner[i] = p /\ at[i] \in Pending)]_vars

(* The room never wedges: what is committed, or queued in a lane, does not *)
(* stay there, even when the indexes ahead of it are lost.                 *)
NeverWedges == \A e \in Entries : []<>(at[e] \notin Pending)

(* lanes.py: "acquiring it blocks behind a live owner, so a slow delivery  *)
(* is re-checked, never skipped": no lane finds a plan of its own behind   *)
(* the cursor, for the skip passes absent owners only.                     *)
NoLiveDeliverySkipped == \A i \in Indexes : at[i] # "stale"

(* lanes.py, of a cursor write that fails: "the room's next delivery runs  *)
(* at once and no index is skipped as lost".                               *)
NoDeliveredIndexSkipped ==
    \A i \in Indexes : i \in skipped => at[i] \notin {"ran", "finished"}

-----------------------------------------------------------------------------
(* Why the properties hold: the inductive invariant.                       *)

InRound == {"round", "running", "writing", "reading", "skipping", "announcing"}

(* The claim is held by the one lane in its tenure. *)
ClaimHeld == \A p \in Procs : lane[p] \in Tenure <=> claim = p

(* Indexes are given in order; the one between its commit and its lane is  *)
(* the latest, its process holding the room lock.                          *)
Timeline ==
    /\ \A i \in Indexes : at[i] = "none" <=> i > latest
    /\ \A e \in Entries : at[e] # "none" => owner[e] \in Procs
    /\ \A u \in Unstored : at[u] \notin {"committed", "noting", "noted"}
    /\ \A u \in Unstored : at[u] = "none" <=> u >= MaxIndex + unstored
    /\ \A i \in Indexes :
         at[i] \in {"committed", "noting"} => i = latest /\ roomLock = owner[i]
    /\ roomLock # NoProc => latest # -1 /\ at[latest] \in {"committed", "noting"}

(* Nothing stands past the latest index; an anchor is behind no index on   *)
(* its way to a lane.                                                      *)
Bounded ==
    /\ cursor <= latest
    /\ \A p \in Procs : owed[p] <= latest /\ delivered[p] <= latest /\ target[p] <= latest
    /\ \A u \in Unstored : after[u] <= latest
    /\ \A u \in Unstored, i \in Indexes :
         at[u] # "none" /\ i <= after[u] => at[i] \notin {"committed", "noting"}

(* What runs is its lane's next. *)
RunsItsNext ==
    \A e \in Entries : at[e] = "running" =>
      /\ lane[owner[e]] = "running"
      /\ e \in Indexes => e = delivered[owner[e]] + 1

(* And so is what waits for its cursor write. *)
WritesItsNext ==
    \A p \in Procs : lane[p] = "writing" =>
      /\ delivered[p] + 1 \in Indexes
      /\ owner[delivered[p] + 1] = p
      /\ at[delivered[p] + 1] \in {"ran", "filled"}

(* What a lane recorded as executed it took from its own queue. *)
RecordsItsOwn ==
    \A p \in Procs : \A k \in 1 .. Len(executed[p]) :
      /\ owner[executed[p][k]] = p
      /\ at[executed[p][k]] \in {"running", "ran", "finished"}

(* The lane's reading of the cursor: not past it but for what it owes, and *)
(* what the cursor passed since needed no delivery.                        *)
KnowsCursor ==
    \A p \in Procs : lane[p] \in InRound =>
      /\ delivered[p] <= cursor \/ delivered[p] = owed[p]
      /\ \A i \in Indexes : delivered[p] < i /\ i <= cursor =>
           \/ at[i] \notin Pending
           \/ lane[p] = "announcing" /\ i <= target[p]

(* A skip passes no index of the lane that makes it, and it owes nothing.  *)
SkipsOthers ==
    \A p \in Procs :
      /\ lane[p] \in {"reading", "skipping"} =>
           /\ delivered[p] + 1 <= latest
           /\ \A i \in Indexes :
                i <= delivered[p] + 1 => ~(owner[i] = p /\ at[i] \in Pending)
      /\ lane[p] \in {"skipping", "announcing"} => owed[p] = -1 /\ delivered[p] < target[p]
      /\ lane[p] = "skipping" => \A i \in Indexes :
           delivered[p] < i /\ i <= target[p] => ~(owner[i] = p /\ at[i] \in Pending)
      /\ lane[p] = "announcing" => target[p] <= cursor

(* Below a delivery that began, what is still to run was skipped: it stands *)
(* behind the cursor, and its lane will drop it.                            *)
BegunInOrder ==
    \A i, j \in Indexes :
      i < j /\ at[j] \in Begun /\ at[i] \in Pending => i <= cursor

(* Who acts: enough, on its own, for one delivery at a time.                *)
CoreInv ==
    /\ TypeOK /\ ClaimHeld /\ Timeline
    /\ RunsItsNext /\ WritesItsNext /\ RecordsItsOwn /\ OneDelivery

(* And where the cursor stands, for the order and the losses. *)
LaneInv ==
    /\ CoreInv /\ Bounded /\ KnowsCursor /\ SkipsOthers
    /\ BegunInOrder /\ OwesItsOwn /\ NoSilentLoss
=============================================================================
