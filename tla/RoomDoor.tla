------------------------------ MODULE RoomDoor ------------------------------
(***************************************************************************)
(* The way of a call into a room (an inbound message, a direct injection): *)
(* its run, which the kit's close cuts (core/_closing.py, DoorRuns), its   *)
(* place in the room's admission order (core/admission.py), the room's     *)
(* lock and its commit, written by a task that runs to its end             *)
(* (core/task_utils.py).  The calls are those into one room: of the calls  *)
(* into others they share the close alone.  RoomLocks is about the lock.   *)
(*                                                                         *)
(* A step is what a task does between two awaits.  A cancellation (of the  *)
(* close, of the caller, of the pre-commit deadline) is asked of a task    *)
(* and raised in it as its next step.                                      *)
(***************************************************************************)
EXTENDS Integers, Sequences, FiniteSets, SequencesExt

CONSTANTS
    Calls,   \* the calls, each in a task of its own
    MaxAsks  \* bound: the calls cancelled by their caller or deadline

ASSUME DoorAssumption ==
    /\ IsFiniteSet(Calls)
    /\ MaxAsks \in Nat

VARIABLES
    closing,    \* the kit: "open", in the "grace" of its close, or "cutting"
    pc,         \* where each call is
    tickets,    \* the calls that hold an admission ticket
    ahead,      \* per call, those that held a ticket when it took its own
    line,       \* the calls that wait for the room's lock, in order
    pending,    \* per call, the cancellations asked and not raised yet
    cancelling, \* per call, its task's count of cancellation requests
    cutCalls,   \* the calls the close cut, the cut not taken back yet
    committing, \* the calls that started their commit
    writes,     \* the commits being written, each by a task of its own
    stored,     \* the calls whose event is stored
    result,     \* what each call ended with
    asked,      \* history: the calls cancelled by their caller or deadline
    recut,      \* history: the calls the close cancelled as they read back
    unread,     \* history: the calls whose read-back failed or timed out
    taken       \* history: the calls that took a ticket, in order, but for
                \* those that left

doorVars == <<closing, pc, tickets, ahead, line, pending, cancelling, cutCalls,
              committing, writes, stored, result, asked, recut, unread, taken>>

Stages == {"out", "preparing", "checking", "lockwait", "locked", "writing",
           "announcing", "delivering", "refusing", "unwinding", "ended"}
Results == {"none", "stored", "failed", "refused", "cancelled",
            "cut_stored", "cut_nothing"}

DoorTypeOK ==
    /\ closing \in {"open", "grace", "cutting"}
    /\ pc \in [Calls -> Stages]
    /\ tickets \in SUBSET Calls
    /\ ahead \in [Calls -> SUBSET Calls]
    /\ line \in Seq(Calls)
    /\ pending \in [Calls -> SUBSET {"cut", "again", "caller", "deadline"}]
    /\ cancelling \in [Calls -> Nat]
    /\ cutCalls \in SUBSET Calls
    /\ committing \in SUBSET Calls
    /\ writes \in SUBSET Calls
    /\ stored \in SUBSET Calls
    /\ result \in [Calls -> Results]
    /\ asked \in SUBSET (Calls \X {"caller", "deadline"})
    /\ recut \in SUBSET Calls
    /\ unread \in SUBSET Calls
    /\ taken \in Seq(Calls)

DoorInit ==
    /\ closing = "open"
    /\ pc = [c \in Calls |-> "out"]
    /\ tickets = {} /\ line = <<>>
    /\ ahead = [c \in Calls |-> {}]
    /\ pending = [c \in Calls |-> {}]
    /\ cancelling = [c \in Calls |-> 0]
    /\ cutCalls = {} /\ committing = {} /\ writes = {} /\ stored = {} /\ asked = {}
    /\ recut = {} /\ unread = {}
    /\ result = [c \in Calls |-> "none"]
    /\ taken = <<>>

-----------------------------------------------------------------------------
Moves(c, stage) == pc' = [pc EXCEPT ![c] = stage]

(* The end of a call's run, with what its caller gets. *)
Ends(c, outcome) ==
    /\ Moves(c, "ended")
    /\ result' = [result EXCEPT ![c] = outcome]

Inside(c) == pc[c] \in {"locked", "writing", "announcing"}
UsesLock(c) == pc[c] = "lockwait" \/ Inside(c)

(* DoorRuns.run: refused on a closing kit. *)
Start(c) ==
    /\ pc[c] = "out"
    /\ IF closing # "open"
       THEN Ends(c, "refused")
       ELSE Moves(c, "preparing") /\ UNCHANGED result
    /\ UNCHANGED <<closing, tickets, ahead, line, pending, cancelling,
                   cutCalls, committing, writes, stored, asked, recut, unread,
                   taken>>

(* admitted: a call an off-lock hook matches takes its ticket, behind every *)
(* ticket held in its room, and runs the check.                             *)
AheadLastOnly(c) ==   \* mutant: it waits for the ticket before its own alone
    LET held == {i \in DOMAIN taken : taken[i] \in tickets}
    IN  {taken[i] : i \in {j \in held : \A k \in held : k <= j}}
Ahead(c) == tickets

TakeTicket(c) ==
    /\ pc[c] = "preparing" /\ pending[c] = {}
    /\ Moves(c, "checking")
    /\ ahead' = [ahead EXCEPT ![c] = Ahead(c)]
    /\ tickets' = tickets \cup {c}
    /\ taken' = Append(taken, c)
    /\ UNCHANGED <<closing, line, pending, cancelling, cutCalls, committing,
                   writes, stored, result, asked, recut, unread>>

GiveTicketBack(c) ==
    /\ tickets' = tickets \ {c}
    /\ ahead' = [ahead EXCEPT ![c] = {}]

(* Past its check, once every ticket taken before its own is released; at  *)
(* once for a call no off-lock hook matches.                               *)
Admitted(c) ==
    \/ pc[c] = "preparing"
    \/ pc[c] = "checking" /\ ahead[c] \cap tickets = {}

(* asyncio.Lock: taken at once when it is free and nobody waits but calls  *)
(* already cancelled; else in line.                                        *)
Held == \E d \in Calls : Inside(d)
Free == ~Held /\ \A i \in DOMAIN line : pending[line[i]] # {}

(* The lock section is entered (waiting_for_lock, locked): refused once    *)
(* the close started.                                                      *)
Arrive(c) ==
    /\ Admitted(c) /\ pending[c] = {}
    /\ IF closing # "open"
       THEN /\ Ends(c, "refused")
            /\ GiveTicketBack(c)
            /\ UNCHANGED line
       ELSE /\ IF Free
               THEN Moves(c, "locked") /\ UNCHANGED line
               ELSE Moves(c, "lockwait") /\ line' = Append(line, c)
            /\ UNCHANGED <<tickets, ahead, result>>
    /\ UNCHANGED <<closing, pending, cancelling, cutCalls, committing, writes,
                   stored, asked, recut, unread, taken>>

(* The first in line gets a lock once it is released. *)
Acquire(c) ==
    /\ pc[c] = "lockwait" /\ pending[c] = {}
    /\ ~Held /\ line # <<>> /\ Head(line) = c
    /\ Moves(c, "locked")
    /\ line' = Tail(line)
    /\ UNCHANGED <<closing, tickets, ahead, pending, cancelling, cutCalls,
                   committing, writes, stored, result, asked, recut, unread,
                   taken>>

(* What a call leaves on its way out: its place in line, the lock, its     *)
(* ticket.                                                                 *)
TicketKept(c) ==   \* mutant: a cancelled check keeps its ticket
    /\ line' = RemoveFirst(line, c)
    /\ taken' = RemoveFirst(taken, c)
    /\ IF pc[c] = "checking" THEN UNCHANGED <<tickets, ahead>> ELSE GiveTicketBack(c)
Leave(c) ==
    /\ line' = RemoveFirst(line, c)
    /\ taken' = RemoveFirst(taken, c)
    /\ GiveTicketBack(c)

-----------------------------------------------------------------------------
(* Under the lock: the gates, then the decided writes. *)

(* Refused by a gate, nothing written. *)
Refuse(c) ==
    /\ pc[c] = "locked" /\ pending[c] = {}
    /\ Leave(c)
    /\ Moves(c, "delivering")
    /\ result' = [result EXCEPT ![c] = "refused"]
    /\ UNCHANGED <<closing, pending, cancelling, cutCalls, committing, writes,
                   stored, asked, recut, unread>>

(* _write_decision: the write runs in a task of its own, to its end. *)
Decide(c) ==
    /\ pc[c] = "locked" /\ pending[c] = {}
    /\ Moves(c, "writing")
    /\ committing' = committing \cup {c}
    /\ writes' = writes \cup {c}
    /\ UNCHANGED <<closing, tickets, ahead, line, pending, cancelling,
                   cutCalls, stored, result, asked, recut, unread, taken>>

(* It stores the event, or fails, or is cut with the event stored or not. *)
WriteEnds(c) ==
    /\ c \in writes
    /\ writes' = writes \ {c}
    /\ stored' \in {stored, stored \cup {c}}
    /\ UNCHANGED <<closing, pc, tickets, ahead, line, pending, cancelling,
                   cutCalls, committing, result, asked, recut, unread, taken>>

(* The call goes on: the section left, the commit behind it (committed),   *)
(* the close cuts it no more.                                              *)
Return(c) ==
    /\ pc[c] = "writing" /\ c \notin writes /\ pending[c] = {}
    /\ Leave(c)
    /\ IF c \in stored
       THEN Moves(c, "delivering") /\ result' = [result EXCEPT ![c] = "stored"]
       ELSE Ends(c, "failed")
    /\ UNCHANGED <<closing, pending, cancelling, cutCalls, committing, writes,
                   stored, asked, recut, unread>>

(* The end of its delivery. *)
Finish(c) ==
    /\ pc[c] = "delivering" /\ pending[c] = {}
    /\ Moves(c, "ended")
    /\ UNCHANGED <<closing, tickets, ahead, line, pending, cancelling,
                   cutCalls, committing, writes, stored, result, asked, recut,
                   unread, taken>>

-----------------------------------------------------------------------------
(* Cancellations. *)

AskCancel(c, by) ==
    /\ <<c, by>> \notin asked /\ Cardinality({a[1] : a \in asked} \cup {c}) <= MaxAsks
    /\ asked' = asked \cup {<<c, by>>}
    /\ pending' = [pending EXCEPT ![c] = @ \cup {by}]
    /\ cancelling' = [cancelling EXCEPT ![c] = @ + 1]

CallerCancels(c) ==
    /\ pc[c] \notin {"out", "ended"}
    /\ AskCancel(c, "caller")
    /\ UNCHANGED <<closing, pc, tickets, ahead, line, cutCalls, committing,
                   writes, stored, result, recut, unread, taken>>

(* The pre-commit deadline, around everything before the commit. *)
DeadlinePasses(c) ==
    /\ pc[c] \in {"preparing", "checking", "lockwait", "locked"}
    /\ AskCancel(c, "deadline")
    /\ UNCHANGED <<closing, pc, tickets, ahead, line, cutCalls, committing,
                   writes, stored, result, recut, unread, taken>>

(* _take_cut: whether the close's own cut is what was raised, which is     *)
(* taken back.  One asked by the caller too stays the caller's.            *)
CutAtAll(c, count) == c \in cutCalls   \* mutant: a cut hides the caller's own
CutAlone(c, count) == c \in cutCalls /\ count = 1

(* The deadline takes its own request back as it turns it into a refusal. *)
LateAlways(c) == 1   \* mutant: a request is taken back that nobody made
Late(c) == IF "deadline" \in pending[c] THEN 1 ELSE 0

(* The writes of a decision end before a cancellation is raised. *)
AnyAwait(c) == pc[c] \notin {"out", "ended"}   \* mutant: not waited for
CanRaise(c) == pc[c] \notin {"out", "ended"} /\ c \notin writes

(* The deadline's own request, turned into a refusal, which is announced   *)
(* before the call lets go: under the lock when it passed there, with the  *)
(* ticket when it passed in the lock's line.                               *)
TimesOut(c) ==
    /\ CanRaise(c)
    /\ pending[c] = {"deadline"}
    /\ \/ /\ pc[c] = "locked"
          /\ Moves(c, "announcing")
          /\ UNCHANGED <<line, tickets, ahead, taken>>
       \/ /\ pc[c] = "lockwait"
          /\ Moves(c, "refusing")
          /\ line' = RemoveFirst(line, c)
          /\ UNCHANGED <<tickets, ahead, taken>>
       \/ /\ pc[c] \in {"preparing", "checking"}
          /\ Moves(c, "refusing")
          /\ Leave(c)
    /\ result' = [result EXCEPT ![c] = "refused"]
    /\ pending' = [pending EXCEPT ![c] = {}]
    /\ cancelling' = [cancelling EXCEPT ![c] = @ - Late(c)]
    /\ UNCHANGED <<closing, cutCalls, committing, writes, stored, asked,
                   recut, unread>>

(* The refusal is announced; past its section the close cuts it no more.   *)
Announced(c) ==
    /\ pc[c] \in {"announcing", "refusing"} /\ pending[c] = {}
    /\ Leave(c)
    /\ Moves(c, IF pc[c] = "announcing" THEN "delivering" ELSE "ended")
    /\ UNCHANGED <<closing, pending, cancelling, cutCalls, committing, writes,
                   stored, result, asked, recut, unread>>

(* Any other leaves at once.  A call whose cut alone was raised reports    *)
(* it, a commit it began read back first; the others end cancelled.        *)
Raise(c) ==
    /\ CanRaise(c)
    /\ pending[c] \notin {{}, {"deadline"}}
    /\ Leave(c)
    /\ LET count == cancelling[c] - Late(c)
       IN  \/ /\ CutAlone(c, count)
              /\ cancelling' = [cancelling EXCEPT ![c] = count - 1]
              /\ IF c \in committing
                 THEN Moves(c, "unwinding") /\ UNCHANGED result
                 ELSE Ends(c, "cut_nothing")
           \/ /\ ~CutAlone(c, count)
              /\ Ends(c, "cancelled")
              /\ cancelling' = [cancelling EXCEPT ![c] =
                                   IF c \in cutCalls THEN count - 1 ELSE count]
    /\ cutCalls' = cutCalls \ {c}
    /\ pending' = [pending EXCEPT ![c] = {}]
    /\ UNCHANGED <<closing, committing, writes, stored, asked, recut, unread>>

(* _read_back: what a cut call tells of the commit it began.  A read that  *)
(* fails, or is not over in time, tells that nothing is stored.            *)
ReadBack(c) ==
    /\ pc[c] = "unwinding" /\ pending[c] = {}
    /\ \/ /\ Ends(c, IF c \in stored THEN "cut_stored" ELSE "cut_nothing")
          /\ UNCHANGED unread
       \/ /\ Ends(c, "cut_nothing")
          /\ unread' = unread \cup {c}
    /\ UNCHANGED <<closing, tickets, ahead, line, pending, cancelling,
                   cutCalls, committing, writes, stored, asked, recut, taken>>

-----------------------------------------------------------------------------
(* The kit's close. *)

RunningInside ==   \* mutant: a call runs from the lock on
    {c \in Calls : pc[c] \in {"locked", "writing", "announcing", "refusing"}}
Waiting == {c \in Calls : pc[c] = "lockwait"}
Running == {c \in Calls : pc[c] \in {"preparing", "checking", "locked", "writing",
                                     "announcing", "refusing"}}

(* _cut_task, once per call, of the calls given; cut_once_started, of those *)
(* that read back and have no cancellation under way.                       *)
Cut(calls, again) ==
    LET cut == calls \ cutCalls
    IN  /\ cutCalls' = cutCalls \cup cut
        /\ recut' = recut \cup again
        /\ pending' = [c \in Calls |-> IF c \in cut THEN pending[c] \cup {"cut"}
                                       ELSE IF c \in again THEN {"again"}
                                       ELSE pending[c]]
        /\ cancelling' = [c \in Calls |->
                            cancelling[c] + IF c \in cut \cup again THEN 1 ELSE 0]

CutWaiting ==
    /\ closing = "open"
    /\ closing' = "grace"
    /\ Cut(Waiting, {})
    /\ UNCHANGED <<pc, tickets, ahead, line, committing, writes, stored,
                   result, asked, unread, taken>>

(* The grace is over; read again at each wake, as any work of the kit      *)
(* ends, a call's into another room too.  The cut of a call that reads     *)
(* back was taken back, and it is work the close still finds running.      *)
ReadingBack == {c \in Calls : pc[c] = "unwinding" /\ cancelling[c] = 0}

CutRunning ==
    /\ \/ closing = "grace"
       \/ closing = "cutting" /\ (~ (Running \subseteq cutCalls) \/ ReadingBack # {})
    /\ closing' = "cutting"
    /\ Cut(Running \cup Waiting, ReadingBack)
    /\ UNCHANGED <<pc, tickets, ahead, line, committing, writes, stored,
                   result, asked, unread, taken>>

-----------------------------------------------------------------------------
GoesOn(c) ==
    \/ Raise(c) \/ TimesOut(c) \/ WriteEnds(c)
    \/ Return(c) \/ Announced(c) \/ Finish(c) \/ ReadBack(c)

DoorNext ==
    \/ \E c \in Calls :
          \/ Start(c) \/ TakeTicket(c) \/ Arrive(c) \/ Acquire(c)
          \/ Refuse(c) \/ Decide(c)
          \/ CallerCancels(c) \/ DeadlinePasses(c)
          \/ GoesOn(c)
    \/ CutWaiting \/ CutRunning

(* Ready tasks run, the store's writes and reads end, and so does the      *)
(* close's grace; no hook has to end.  A call loops nowhere: one weak      *)
(* fairness of all of these is fair to each.                               *)
DoorObliged == CutRunning \/ \E c \in Calls : GoesOn(c)

DoorSpec == DoorInit /\ [][DoorNext]_doorVars /\ WF_doorVars(DoorObliged)
-----------------------------------------------------------------------------
(* One call at a time is in the room's locked section, its decided writes  *)
(* and the announcement of its refusal included; and a call that left, by  *)
(* whatever way, holds no ticket and no place in line.                     *)
ExclusiveDoor ==
    /\ \A c, d \in Calls : Inside(c) /\ Inside(d) => c = d
    /\ \A c \in writes : pc[c] = "writing"
    /\ \A c \in tickets : pc[c] \in {"checking", "refusing"} \/ UsesLock(c)
    /\ \A i \in DOMAIN line : pc[line[i]] = "lockwait"

(* Calls of a room that ran an off-lock check enter its lock in the order  *)
(* of their tickets, whatever ends between them.                           *)
AdmissionOrder ==
    \A i, j \in DOMAIN taken :
        i < j /\ UsesLock(taken[j])
            => pc[taken[i]] \in {"delivering", "unwinding", "ended"}

(* What a call the close cut tells of its event is so, but that one whose  *)
(* read-back failed or timed out says that nothing is stored, whatever the *)
(* store holds; and a call is refused only if nothing of it is stored.     *)
CutTellsTruth ==
    \A c \in Calls :
        /\ result[c] \in {"stored", "cut_stored"} => c \in stored
        /\ result[c] = "refused" => c \notin stored
        /\ result[c] = "cut_nothing" /\ c \in stored => c \in unread

(* A call that ended leaves its task the caller's own cancellation and the *)
(* close's second one, of a call that read back, and no other: a cut and a *)
(* deadline take back what they asked, and swallow neither.                *)
One(holds) == IF holds THEN 1 ELSE 0
AskedBy(c, by) == <<c, by>> \in asked

CancelsSettled ==
    \A c \in Calls : pc[c] = "ended" =>
        /\ cancelling[c] = One(AskedBy(c, "caller")) + One(c \in recut)
        /\ result[c] = "cancelled" <=> AskedBy(c, "caller") \/ c \in recut

(* core/_closing.py: "A cut call ends with CallCutError, never a           *)
(* CancelledError its caller did not ask for".                             *)
NeverCancelledUnasked ==
    \A c \in Calls : result[c] = "cancelled" => AskedBy(c, "caller")

(* Once the kit closes, every call that was made ends. *)
DoorDrains == closing # "open" ~> \A c \in Calls : pc[c] \in {"out", "ended"}
=============================================================================
