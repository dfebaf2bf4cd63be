----------------------------- MODULE RoomLocks ------------------------------
(***************************************************************************)
(* The rooms' locks (core/locks.py, InMemoryLockManager): a table of       *)
(* asyncio locks with their reference counts, from which unused locks are  *)
(* evicted, and the sections run under them.  A hook's body run in a       *)
(* section lends the lock to the tasks it spawns while it runs; a call     *)
(* such a task makes into the room is nested under the section, which      *)
(* waits for it (core/_nested_calls.py, core/hooks.py).  The hooks of a    *)
(* nested call are not modelled.                                           *)
(*                                                                         *)
(* A step is what a task does between two awaits: the manager's own lock   *)
(* is never held across one, so nobody waits for it.                       *)
(***************************************************************************)
EXTENDS Integers, Sequences, FiniteSets, SequencesExt

CONSTANTS
    Tasks,     \* the tasks, each making one call after the other
    Rooms,     \* the rooms
    Locks,     \* the locks; one that nobody uses any more is made again
    None,      \* no room, no lock, no section
    MaxLocks   \* how many locks the table keeps when fewer are used

ASSUME LocksAssumption ==
    /\ None \notin Tasks \cup Rooms \cup Locks /\ MaxLocks \in Nat
    /\ IsFiniteSet(Tasks) /\ IsFiniteSet(Rooms)
    /\ IsFiniteSet(Locks) => Cardinality(Locks) >= Cardinality(Rooms)

VARIABLES
    table,   \* the rooms that have a lock in the table, the last used last
    lockOf,  \* the lock of each of them
    refs,    \* the reference count of each room
    at,      \* where each task is
    room,    \* the room of its call
    lock,    \* the lock its call waits for or holds
    queue,   \* the tasks that wait for a lock, in order
    under,   \* the section a task's call is nested under
    writing, \* the nested calls that started their commit
    overrun  \* those that a section's deadline left to end their commit

locksVars == <<table, lockOf, refs, at, room, lock, queue, under, writing, overrun>>

LocksTypeOK ==
    /\ table \in Seq(Rooms)
    /\ lockOf \in [Rooms -> Locks \cup {None}]
    /\ refs \in [Rooms -> Nat]
    /\ at \in [Tasks -> {"away", "waiting", "inside", "hook", "settling", "holding"}]
    /\ room \in [Tasks -> Rooms \cup {None}]
    /\ lock \in [Tasks -> Locks \cup {None}]
    /\ queue \in Seq(Tasks)
    /\ under \in [Tasks -> Tasks \cup {None}]
    /\ writing \in SUBSET Tasks
    /\ overrun \in SUBSET Tasks

LocksInit ==
    /\ table = <<>> /\ queue = <<>>
    /\ lockOf = [r \in Rooms |-> None]
    /\ refs = [r \in Rooms |-> 0]
    /\ at = [t \in Tasks |-> "away"]
    /\ room = [t \in Tasks |-> None]
    /\ lock = [t \in Tasks |-> None]
    /\ under = [t \in Tasks |-> None]
    /\ writing = {} /\ overrun = {}

-----------------------------------------------------------------------------
(* The table. *)

Within(t) == at[t] \notin {"away", "waiting"}
Holds(t, l) == Within(t) /\ lock[t] = l
LockHeld(l) == \E t \in Tasks : Holds(t, l)

(* What of an order is kept as some rooms go. *)
Kept(order, gone) ==
    LET upTo[n \in 0 .. Len(order)] ==
            IF n = 0 THEN <<>>
            ELSE IF order[n] \in gone THEN upTo[n - 1] ELSE Append(upTo[n - 1], order[n])
    IN  upTo[Len(order)]

(* _evict: the least recently used locks beyond the bound that nobody      *)
(* holds and nobody is about to hold.                                      *)
EvictableUnlocked(r) == ~LockHeld(lockOf[r])   \* mutant: the references not read
Evictable(r) == ~LockHeld(lockOf[r]) /\ refs[r] = 0

Evicted(order) ==
    LET idle == {i \in DOMAIN order : Evictable(order[i])}
        beyond == Len(order) - MaxLocks
    IN  {order[i] : i \in {j \in idle : Cardinality({k \in idle : k <= j}) <= beyond}}

(* A lock nobody names. *)
Named == {lockOf[r] : r \in Rooms} \cup {lock[t] : t \in Tasks}
NewLock == CHOOSE l \in Locks : l \notin Named

(* _get_lock: the room's lock, one reference more. *)
GetLock(r) ==
    IF lockOf[r] # None
    THEN /\ table' = Append(RemoveFirst(table, r), r)
         /\ refs' = [refs EXCEPT ![r] = @ + 1]
         /\ UNCHANGED lockOf
    ELSE LET gone == Evicted(Append(table, r)) \ {r}
         IN  /\ table' = Append(Kept(table, gone), r)
             /\ lockOf' = [s \in Rooms |-> IF s = r THEN NewLock
                                           ELSE IF s \in gone THEN None ELSE lockOf[s]]
             /\ refs' = [s \in Rooms |-> IF s = r THEN 1
                                         ELSE IF s \in gone THEN 0 ELSE refs[s]]

(* _release_ref *)
ReleaseRef(r) == refs' = [refs EXCEPT ![r] = IF @ > 0 THEN @ - 1 ELSE 0]

-----------------------------------------------------------------------------
(* locked: a call of a context that holds no live lease of the room. *)
Call(t, r) ==
    /\ at[t] = "away"
    /\ GetLock(r)
    /\ room' = [room EXCEPT ![t] = r]
    /\ lock' = [lock EXCEPT ![t] = lockOf'[r]]
    /\ IF LockHeld(lockOf'[r]) \/ \E i \in DOMAIN queue : lock[queue[i]] = lockOf'[r]
       THEN at' = [at EXCEPT ![t] = "waiting"] /\ queue' = Append(queue, t)
       ELSE at' = [at EXCEPT ![t] = "inside"] /\ UNCHANGED queue
    /\ UNCHANGED <<under, writing, overrun>>

(* The first that waits for a released lock takes it. *)
TakeLock(t) ==
    /\ at[t] = "waiting" /\ ~LockHeld(lock[t])
    /\ \E i \in DOMAIN queue :
          queue[i] = t /\ \A j \in 1..(i - 1) : lock[queue[j]] # lock[t]
    /\ at' = [at EXCEPT ![t] = "inside"]
    /\ queue' = RemoveFirst(queue, t)
    /\ UNCHANGED <<table, lockOf, refs, room, lock, under, writing, overrun>>

(* Some calls are over. *)
Gone(calls) ==
    /\ at' = [t \in Tasks |-> IF t \in calls THEN "away" ELSE at[t]]
    /\ room' = [t \in Tasks |-> IF t \in calls THEN None ELSE room[t]]
    /\ lock' = [t \in Tasks |-> IF t \in calls THEN None ELSE lock[t]]
    /\ under' = [t \in Tasks |-> IF t \in calls THEN None ELSE under[t]]

(* Cancelled as it waits. *)
CancelledWaiting(t) ==
    /\ at[t] = "waiting"
    /\ Gone({t})
    /\ queue' = RemoveFirst(queue, t)
    /\ ReleaseRef(room[t])
    /\ UNCHANGED <<table, lockOf, writing, overrun>>

-----------------------------------------------------------------------------
(* A section. *)

IsSection(t) == Within(t) /\ under[t] = None
NestedIn(t) == {c \in Tasks : under[c] = t} \ overrun

Goes(t, stage) ==
    /\ at' = [at EXCEPT ![t] = stage]
    /\ UNCHANGED <<table, lockOf, refs, room, lock, queue, under, writing, overrun>>

(* A hook's body runs, the locks lent to it. *)
HookRuns(t) == IsSection(t) /\ at[t] = "inside" /\ Goes(t, "hook")

(* A task it spawned calls into the room: a call nested under the section  *)
(* while the body runs, an arrival (Call) once it is over.                 *)
Nest(t, c) ==
    /\ IsSection(t) /\ at[t] = "hook" /\ at[c] = "away"
    /\ at' = [at EXCEPT ![c] = "inside"]
    /\ room' = [room EXCEPT ![c] = room[t]]
    /\ under' = [under EXCEPT ![c] = t]
    /\ UNCHANGED <<table, lockOf, refs, lock, queue, writing, overrun>>

NestedCommits(c) ==
    /\ under[c] # None /\ c \notin writing
    /\ writing' = writing \cup {c}
    /\ UNCHANGED <<table, lockOf, refs, at, room, lock, queue, under, overrun>>

(* Over, by its commit or refused, failed, cancelled before it. *)
NestedOver(c) ==
    /\ under[c] # None
    /\ Gone({c})
    /\ writing' = writing \ {c} /\ overrun' = overrun \ {c}
    /\ UNCHANGED <<table, lockOf, refs, queue>>

(* The body is over, however it ended: the section waits for the calls     *)
(* nested under it.                                                        *)
HookOver(t) == at[t] = "hook" /\ Goes(t, "settling")
Settled(t) == at[t] = "settling" /\ NestedIn(t) = {} /\ Goes(t, "inside")

(* Cancelled meanwhile, it holds the lock for them. *)
HeldOnCancel(t) == at[t] \in {"hook", "settling"} /\ Goes(t, "holding")

(* The section is left, by its end or by a cancellation. *)
LeavesThem(t) == at[t] \in {"inside", "holding"}   \* mutant: cancelled, it leaves
MayLeave(t) == at[t] = "inside" \/ (at[t] = "holding" /\ NestedIn(t) = {})

LeaveSection(t) ==
    /\ IsSection(t) /\ MayLeave(t)
    /\ Gone({t})
    /\ ReleaseRef(room[t])
    /\ UNCHANGED <<table, lockOf, queue, writing, overrun>>

(* The section's deadline: the nested calls that have not started their    *)
(* commit are cut and unwind at once, one that has goes on to its end.     *)
SectionDeadline(t) ==
    /\ at[t] \in {"hook", "settling", "holding"}
    /\ Gone({t} \cup (NestedIn(t) \ writing))
    /\ ReleaseRef(room[t])
    /\ overrun' = overrun \cup (NestedIn(t) \cap writing)
    /\ UNCHANGED <<table, lockOf, queue, writing>>

-----------------------------------------------------------------------------
LocksNext ==
    \E t \in Tasks :
        \/ \E r \in Rooms : Call(t, r)
        \/ TakeLock(t) \/ CancelledWaiting(t) \/ LeaveSection(t)
        \/ HookRuns(t) \/ HookOver(t) \/ Settled(t)
        \/ HeldOnCancel(t) \/ SectionDeadline(t)
        \/ \E c \in Tasks : Nest(t, c)
        \/ NestedCommits(t) \/ NestedOver(t)

LocksSpec == LocksInit /\ [][LocksNext]_locksVars
-----------------------------------------------------------------------------
(* Whoever acts in a room is the section that holds its lock or a call     *)
(* nested under it, but for the commits a deadline left to end: never two  *)
(* sections in one room, whatever the table evicted between them.          *)
OneSection ==
    \A t, u \in Tasks \ overrun :
        Within(t) /\ Within(u) /\ room[t] = room[u] /\ t # u
            => \/ under[t] = u \/ under[u] = t
               \/ under[t] = under[u] /\ under[t] # None

(* A room's references are the calls that wait for its lock or hold it,    *)
(* and while there are any the table has the very lock they use.           *)
RefsAreUsers ==
    \A r \in Rooms :
        LET users == {t \in Tasks : at[t] # "away" /\ under[t] = None /\ room[t] = r}
        IN  refs[r] = Cardinality(users) /\ \A t \in users : lock[t] = lockOf[r]
=============================================================================
