----------------------------- MODULE TaskRunner -----------------------------
(***************************************************************************)
(* Delegated tasks run in the background (tasks/memory.py,                 *)
(* InMemoryTaskRunner): whoever takes a task's entry in _cancelled_ends    *)
(* ends the task, its own run once its work is over or a cancel, which     *)
(* holds the end until that work is over.  The runner's close cancels what *)
(* runs until nothing does.  The tasks a close is called from, which it    *)
(* spares, are not modelled.                                               *)
(***************************************************************************)
EXTENDS Naturals, FiniteSets

CONSTANTS
    Delegated,    \* the delegated tasks
    Callers,  \* the callers of cancel()
    Closer,   \* the runner's close()
    NoTask    \* no task

ASSUME RunnerAssumption == Closer \notin Callers /\ NoTask \notin Delegated

VARIABLES
    work,      \* each task's own run
    cut,       \* the tasks whose run is cancelled
    ends,      \* _cancelled_ends: the tasks whose end nobody took
    held,      \* _ends: the run of the end a cancel took
    completed, \* how many times each task was completed, at most 2
    call,      \* what each caller does: the step, and the task it cancels
    runner     \* "open", "closing" or "closed"

runnerVars == <<work, cut, ends, held, completed, call, runner>>

Cancelling == Callers \cup {Closer}
Idle == <<"idle", NoTask>>

RunnerTypeOK ==
    /\ work \in [Delegated -> {"none", "running", "finishing", "over"}]
    /\ cut \in SUBSET Delegated
    /\ ends \in SUBSET Delegated
    /\ held \in [Delegated -> {"none", "held", "finishing", "over"}]
    /\ completed \in [Delegated -> 0 .. 2]
    /\ call \in [Cancelling ->
                    {"idle", "waits", "cuts", "ends"} \X (Delegated \cup {NoTask})]
    /\ runner \in {"open", "closing", "closed"}

RunnerInit ==
    /\ work = [t \in Delegated |-> "none"]
    /\ held = [t \in Delegated |-> "none"]
    /\ completed = [t \in Delegated |-> 0]
    /\ cut = {} /\ ends = {}
    /\ call = [c \in Cancelling |-> Idle]
    /\ runner = "open"

-----------------------------------------------------------------------------
(* A task's callback, run as it finishes, may delegate again. *)
Finishing(t) == work[t] = "finishing" \/ held[t] = "finishing"

Submit(t) ==
    /\ work[t] = "none"
    /\ runner = "open" \/ \E u \in Delegated : Finishing(u)
    /\ work' = [work EXCEPT ![t] = "running"]
    /\ ends' = ends \cup {t}
    /\ UNCHANGED <<cut, held, completed, call, runner>>

(* _end_ran: the work is over, or swallowed its cancellation; it takes the *)
(* end unless a cancel did.                                                *)
WorkReturns(t) ==
    /\ work[t] = "running"
    /\ work' = [work EXCEPT ![t] = IF t \in ends THEN "finishing" ELSE "over"]
    /\ ends' = ends \ {t}
    /\ UNCHANGED <<cut, held, completed, call, runner>>

WorkCut(t) ==
    /\ work[t] = "running" /\ t \in cut
    /\ work' = [work EXCEPT ![t] = "over"]
    /\ UNCHANGED <<cut, ends, held, completed, call, runner>>

(* _finish: the record, the callback, then the waiters. *)
Completes(t) == completed' = [completed EXCEPT ![t] = IF @ < 2 THEN @ + 1 ELSE @]

WorkFinishes(t) ==
    /\ work[t] = "finishing"
    /\ work' = [work EXCEPT ![t] = "over"]
    /\ Completes(t)
    /\ UNCHANGED <<cut, ends, held, call, runner>>

EndFinishes(t) ==
    /\ held[t] = "finishing"
    /\ held' = [held EXCEPT ![t] = "over"]
    /\ Completes(t)
    /\ UNCHANGED <<work, cut, ends, call, runner>>

-----------------------------------------------------------------------------
(* cancel *)
Known(t) == work[t] # "none" /\ completed[t] = 0

Cancel(c, t) ==
    /\ call[c] = Idle /\ Known(t)
    /\ IF t \in ends
       THEN /\ ends' = ends \ {t}
            /\ held' = [held EXCEPT ![t] = "held"]
            /\ cut' = cut \cup {t}
            /\ call' = [call EXCEPT ![c] = <<"cuts", t>>]
       ELSE /\ call' = [call EXCEPT ![c] = <<"waits", t>>]
            /\ UNCHANGED <<cut, ends, held>>
    /\ UNCHANGED <<work, completed, runner>>

(* The work is over, whatever became of the caller meanwhile. *)
EndsHeld(c) ==
    /\ call[c][1] = "cuts" /\ work[call[c][2]] = "over"
    /\ held' = [held EXCEPT ![call[c][2]] = "finishing"]
    /\ call' = [call EXCEPT ![c] = <<"ends", call[c][2]>>]
    /\ UNCHANGED <<work, cut, ends, completed, runner>>

(* Its runs are over, the end a cancel holds among them. *)
WorkOver(t) == work[t] = "over"   \* mutant: the held end is not waited for
RunsOver(t) == work[t] = "over" /\ held[t] \in {"none", "over"}

Returns(c) ==
    /\ call[c][1] \in {"waits", "ends"} /\ RunsOver(call[c][2])
    /\ call' = [call EXCEPT ![c] = Idle]
    /\ UNCHANGED <<work, cut, ends, held, completed, runner>>

(* The caller is cancelled as it waits; the end goes on. *)
LeavesIt(c) ==
    /\ call[c][1] \in {"waits", "ends"} /\ c # Closer
    /\ call' = [call EXCEPT ![c] = Idle]
    /\ UNCHANGED <<work, cut, ends, held, completed, runner>>

-----------------------------------------------------------------------------
(* close: a pass over what still runs, until nothing does. *)
StillRuns(t) == Known(t) /\ (t \in ends \/ ~RunsOver(t))

CloseRunner ==
    /\ runner = "open"
    /\ runner' = "closing"
    /\ UNCHANGED <<work, cut, ends, held, completed, call>>

ClosePass ==
    runner = "closing" /\ \E t \in Delegated : StillRuns(t) /\ Cancel(Closer, t)

RunnerClosed ==
    /\ runner = "closing" /\ call[Closer] = Idle /\ ~\E t \in Delegated : StillRuns(t)
    /\ runner' = "closed"
    /\ UNCHANGED <<work, cut, ends, held, completed, call>>

RunnerObliged ==
    \/ ClosePass \/ RunnerClosed
    \/ \E t \in Delegated : WorkCut(t) \/ WorkFinishes(t) \/ EndFinishes(t)
    \/ \E c \in Cancelling : EndsHeld(c) \/ Returns(c)

RunnerNext ==
    \/ \E t \in Delegated : Submit(t) \/ WorkReturns(t)
    \/ \E c \in Callers : LeavesIt(c) \/ \E t \in Delegated : Cancel(c, t)
    \/ CloseRunner
    \/ RunnerObliged

(* A cancelled work ends, and so do the records and callbacks of its end.  *)
RunnerSpec == RunnerInit /\ [][RunnerNext]_runnerVars /\ WF_runnerVars(RunnerObliged)
-----------------------------------------------------------------------------
(* The close of the runner ends, every task then completed once: by its    *)
(* own run or by the cancel that took its end, never by both, and by one   *)
(* of them though cancels and the close meet.                              *)
EndsOnce ==
    runner = "closing" ~>
        runner = "closed" /\ \A t \in Delegated : work[t] # "none" => completed[t] = 1
=============================================================================
