------------------------------ MODULE TurnLink ------------------------------
(***************************************************************************)
(* One turn between the process of its room's owner and the executors in   *)
(* other processes (turns/redis.py, _redis_routes.py, _redis_links.py, the *)
(* ends of owner and executor in _owner_turn.py and _executor_turn.py):    *)
(* the request placed on one executor after another until one takes it,    *)
(* the frames and controls numbered at one end and admitted at the other,  *)
(* the end of the turn, its release, and the silence in which each side    *)
(* loses the other.                                                        *)
(*                                                                         *)
(* A step is what a process does between two awaits.  The entries of one   *)
(* read are handed on one by one.  An executor's end reads a control as it *)
(* is handed on; its owner's end has a queue, read by the owner's task.    *)
(***************************************************************************)
EXTENDS TurnOutbox

CONSTANTS
    NoExecutor, \* a value that is not an executor
    MaxFaults,  \* bound: pipelines refused, run twice or too late, idle writers
    MaxDowns    \* bound: processes that close or crash

ASSUME LinkAssumption ==
    /\ NoExecutor \notin Executors
    /\ MaxFaults \in Nat /\ MaxDowns \in Nat

VARIABLES
    up,       \* per process: "up", "closing", "closed", "crashed"
    \* The owner's end
    phase,    \* of the turn for its owner: "placing", "asking", "reading", "over"
    target,   \* the executor asked last
    linked,   \* whether the owner's link to it is in _owner_links
    excluded, \* the executors that refused the request
    answer,   \* what its question waits for: "none", "taken", "refused", "failed"
    cOpen,    \* whether its controls are open
    cSent,    \* the controls it numbered
    delivered,\* what its link was handed and nobody read: frames, or Gone
    fSeen,    \* the last frame its order admitted
    why,      \* how the turn went: "none", "done", "silence", "broken", "gap",
              \*   "unanswered", "unplaced", "left"
    \* The executors' ends
    handled,  \* the request at each: "none", or what it was answered
    run,      \* its turn: "none", "running", "ending", "gone"
    fOpen,    \* whether its frames are open
    fSent,    \* the frames it numbered
    cSeen,    \* the last control its order admitted
    cut,      \* why its turn is cut: "none", "closing", "frame_lost", "owner_lost"
    \* History and bounds
    takes,    \* how many times an executor took the turn
    ended,    \* the executors that sent the turn's end
    gaps,     \* the processes that met a gap in what they received
    refusals, \* the lines on which a batch with a message of the turn was refused
    late,     \* the executors whose end was not written in time
    faults, downs

ownerEnd == <<phase, target, linked, excluded, answer, cOpen, cSent, delivered, fSeen, why>>
executorEnd == <<handled, run, fOpen, fSent, cSeen, cut>>
history == <<takes, ended, gaps, refusals, late>>
vars == <<outbox, up, ownerEnd, executorEnd, history, faults, downs>>

Msg(kind, n) == [kind |-> kind, n |-> n]
(* Put on the link's queue when a control could not be written. *)
Gone == Msg("gone", 0)
FrameKinds == {"frame", "end"}
ToOwner(e) == <<e, Owner>>
ToExecutor(e) == <<Owner, e>>

TypeOK ==
    /\ OutboxTypeOK
    /\ up \in [Nodes -> {"up", "closing", "closed", "crashed"}]
    /\ phase \in {"placing", "asking", "reading", "over"}
    /\ target \in Executors \cup {NoExecutor}
    /\ linked \in BOOLEAN /\ cOpen \in BOOLEAN
    /\ excluded \in SUBSET Executors
    /\ answer \in {"none", "taken", "refused", "failed"}
    /\ cSent \in 0 .. MaxControls
    /\ delivered \in Seq(Messages \cup {Gone})
    /\ fSeen \in 0 .. MaxFrames + 1
    /\ why \in {"none", "done", "silence", "broken", "gap", "unanswered", "unplaced", "left"}
    /\ handled \in [Executors -> {"none", "taken", "refused"}]
    /\ run \in [Executors -> {"none", "running", "ending", "gone"}]
    /\ fOpen \in [Executors -> BOOLEAN]
    /\ fSent \in [Executors -> 0 .. MaxFrames + 1]
    /\ cSeen \in [Executors -> 0 .. MaxControls]
    /\ cut \in [Executors -> {"none", "closing", "frame_lost", "owner_lost"}]
    /\ takes \in Nat
    /\ ended \in SUBSET Executors
    /\ gaps \in SUBSET Nodes
    /\ refusals \in SUBSET Lines
    /\ late \in SUBSET Executors
    /\ faults \in 0 .. MaxFaults /\ downs \in 0 .. MaxDowns

Init ==
    /\ OutboxInit
    /\ up = [p \in Nodes |-> "up"]
    /\ phase = "placing" /\ target = NoExecutor /\ linked = FALSE
    /\ excluded = {} /\ answer = "none"
    /\ cOpen = FALSE /\ cSent = 0
    /\ delivered = <<>> /\ fSeen = 0 /\ why = "none"
    /\ handled = [e \in Executors |-> "none"]
    /\ run = [e \in Executors |-> "none"]
    /\ fOpen = [e \in Executors |-> FALSE]
    /\ fSent = [e \in Executors |-> 0]
    /\ cSeen = [e \in Executors |-> 0]
    /\ cut = [e \in Executors |-> "none"]
    /\ takes = 0 /\ ended = {} /\ gaps = {} /\ refusals = {} /\ late = {}
    /\ faults = 0 /\ downs = 0

OwnerUp == up[Owner] = "up"
Serves(p) == up[p] \in {"up", "closing"}

-----------------------------------------------------------------------------
(* The owner: submit and _hand, then OwnerTurn and its RedisTurnLink.      *)

OutboxButPost == <<again, flight, shut, inbox>>

(* The turn is over for its owner: what it held of it is gone. *)
Forget ==
    /\ phase' = "over"
    /\ linked' = FALSE /\ cOpen' = FALSE /\ cSent' = 0
    /\ answer' = "none" /\ delivered' = <<>>

(* A new link, and the request asked of the executor it was placed on. *)
Ask(e) ==
    /\ OwnerUp /\ phase = "placing"
    /\ e \notin excluded
    /\ phase' = "asking" /\ target' = e
    /\ linked' = TRUE /\ cOpen' = TRUE
    /\ Post(ToExecutor(e), Msg("request", 0))
    /\ UNCHANGED <<OutboxButPost, up, excluded, answer, cSent, delivered, fSeen, why,
                   executorEnd, history, faults, downs>>

(* No executor is left that takes the turn: those alive refused it or do   *)
(* not declare its channel.                                                *)
NonePlaced ==
    /\ OwnerUp /\ phase = "placing"
    /\ Forget /\ why' = "unplaced"
    /\ UNCHANGED <<outbox, up, target, excluded, fSeen, executorEnd, history, faults, downs>>

Taken ==
    /\ OwnerUp /\ phase = "asking" /\ answer = "taken"
    /\ phase' = "reading"
    /\ UNCHANGED <<outbox, up, target, linked, excluded, answer, cOpen, cSent, delivered,
                   fSeen, why, executorEnd, history, faults, downs>>

(* Refused: the turn goes to another executor, its link forgotten. *)
Refused ==
    /\ OwnerUp /\ phase = "asking" /\ answer = "refused"
    /\ phase' = "placing"
    /\ excluded' = excluded \cup {target}
    /\ linked' = FALSE /\ answer' = "none" /\ delivered' = <<>>
    /\ UNCHANGED <<outbox, up, target, cOpen, cSent, fSeen, why, executorEnd, history,
                   faults, downs>>

(* release: the link is forgotten; an executor whose end was not read is   *)
(* told the turn is released.  What the link was handed, its numbers and   *)
(* the answer to its question go with it.                                  *)
LetGo(reason, endRead) ==
    /\ Forget /\ why' = reason
    /\ IF endRead THEN UNCHANGED <<queue, writer>>
       ELSE Post(ToExecutor(target), Msg("released", 0))

UnansweredAskAgain ==   \* mutant: what is not answered is asked of another
    /\ OwnerUp /\ phase = "asking"
    /\ answer \in {"none", "failed"}
    /\ phase' = "placing"
    /\ excluded' = excluded \cup {target}
    /\ linked' = FALSE /\ answer' = "none" /\ delivered' = <<>>
    /\ UNCHANGED <<outbox, up, target, cOpen, cSent, fSeen, why, executorEnd, history,
                   faults, downs>>

(* The question failed: not written, or not answered within the bound. *)
Unanswered ==
    /\ OwnerUp /\ phase = "asking"
    /\ answer \in {"none", "failed"}
    /\ LetGo("unanswered", FALSE)
    /\ UNCHANGED <<OutboxButPost, up, target, excluded, fSeen, executorEnd, history, faults,
                   downs>>

SendControl ==
    /\ OwnerUp /\ phase = "reading"
    /\ cOpen /\ cSent < MaxControls
    /\ cSent' = cSent + 1
    /\ Post(ToExecutor(target), Msg("control", cSent + 1))
    /\ UNCHANGED <<OutboxButPost, up, phase, target, linked, excluded, answer, cOpen,
                   delivered, fSeen, why, executorEnd, history, faults, downs>>

(* _Inbound.next and MessageOrder.admit, by the owner's reading task. *)
ReadsOn(m) ==
    /\ m.kind \in FrameKinds /\ m.n <= fSeen + 1
    /\ m.kind = "end" => m.n <= fSeen

Skipped(m) == m.n <= fSeen

Read ==
    /\ OwnerUp /\ phase = "reading"
    /\ delivered # <<>>
    /\ LET m == Head(delivered)
       IN  \/ /\ ReadsOn(m)
              /\ fSeen' = IF Skipped(m) THEN fSeen ELSE m.n
              /\ delivered' = Tail(delivered)
              /\ UNCHANGED <<phase, why, linked, answer, cOpen, cSent, queue, writer, gaps>>
           \/ /\ m.kind = "end" /\ m.n = fSeen + 1
              /\ fSeen' = m.n
              /\ LetGo("done", TRUE)
              /\ UNCHANGED gaps
           \/ /\ m.kind \in FrameKinds /\ m.n > fSeen + 1
              /\ gaps' = gaps \cup {Owner}
              /\ LetGo("gap", FALSE)
              /\ UNCHANGED fSeen
           \/ /\ m = Gone
              /\ LetGo("broken", FALSE)
              /\ UNCHANGED <<fSeen, gaps>>
    /\ UNCHANGED <<OutboxButPost, up, target, excluded, executorEnd, takes, ended,
                   refusals, late, faults, downs>>

(* The owner gives the turn up before its end: a cancelled drain past its  *)
(* bound, the owner closing.                                               *)
GiveUp ==
    /\ OwnerUp /\ phase = "reading"
    /\ LetGo("left", FALSE)
    /\ UNCHANGED <<OutboxButPost, up, target, excluded, fSeen, executorEnd, history, faults,
                   downs>>

(* The silence limit: no frame comes, and the process of the executor no   *)
(* longer beats, or beats without the turn.                                *)
RunsTillItsEnd(e) == run[e] = "running"   \* mutant: forgotten before its end is written
StillRuns(e) == run[e] \in {"running", "ending"}
Beats(e) == up[e] \in {"up", "closing"} \/ (up[e] = "closed" /\ ~Drained(ToOwner(e)))

HearsBeats ==   \* mutant: the beat of the process is enough
    \/ \E i \in DOMAIN inbox[Owner] : inbox[Owner][i].kind \in FrameKinds
    \/ delivered # <<>>
    \/ Beats(target)

OwnerHears ==
    \/ \E i \in DOMAIN inbox[Owner] : inbox[Owner][i].kind \in FrameKinds
    \/ delivered # <<>>
    \/ Beats(target) /\ StillRuns(target)

Silence ==
    /\ OwnerUp /\ phase = "reading"
    /\ ~OwnerHears
    /\ LetGo("silence", FALSE)
    /\ UNCHANGED <<OutboxButPost, up, target, excluded, fSeen, executorEnd, history, faults,
                   downs>>

-----------------------------------------------------------------------------
(* The executors: _request, RedisExecutorLink and ExecutorTurn. *)

(* A turn that runs reads its controls and can be cut, once. *)
Reads(e) == run[e] = "running"
CutTurn(e, reason) ==
    cut' = [cut EXCEPT ![e] = IF Reads(e) /\ @ = "none" THEN reason ELSE @]

SendsMore(e) == cut[e] # "owner_lost"

SendFrame(e) ==
    /\ Serves(e) /\ run[e] = "running"
    /\ SendsMore(e) /\ fOpen[e] /\ fSent[e] < MaxFrames
    /\ fSent' = [fSent EXCEPT ![e] = @ + 1]
    /\ Post(ToOwner(e), Msg("frame", fSent[e] + 1))
    /\ UNCHANGED <<OutboxButPost, up, ownerEnd, handled, run, fOpen, cSeen, cut, history,
                   faults, downs>>

(* The turn's task ends: it sends the turn's end when it may, and its      *)
(* process runs the turn until that is written (turn_ended).  Its controls *)
(* are read no more.                                                       *)
EndGoesOut(e) == fOpen[e] /\ SendsMore(e)

FinishTurn(e) ==
    /\ Serves(e) /\ run[e] = "running"
    /\ fOpen' = [fOpen EXCEPT ![e] = FALSE]
    /\ IF EndGoesOut(e)
       THEN /\ fSent' = [fSent EXCEPT ![e] = @ + 1]
            /\ Post(ToOwner(e), Msg("end", fSent[e] + 1))
            /\ ended' = ended \cup {e}
            /\ run' = [run EXCEPT ![e] = "ending"]
       ELSE /\ run' = [run EXCEPT ![e] = "gone"]
            /\ UNCHANGED <<queue, writer, fSent, ended>>
    /\ cSeen' = [cSeen EXCEPT ![e] = 0]
    /\ cut' = [cut EXCEPT ![e] = "none"]
    /\ UNCHANGED <<OutboxButPost, up, ownerEnd, handled, takes, gaps, refusals, late, faults,
                   downs>>

(* end_bound: the write of the turn's end hangs, and the turn is let go. *)
EndUnwritten(e) ==
    /\ Serves(e) /\ run[e] = "ending"
    /\ faults < MaxFaults
    /\ faults' = faults + 1
    /\ run' = [run EXCEPT ![e] = "gone"]
    /\ late' = late \cup {e}
    /\ UNCHANGED <<outbox, up, ownerEnd, handled, fOpen, fSent, cSeen, cut, takes, ended,
                   gaps, refusals, downs>>

(* The owner no longer tells the executor it holds the turn. *)
OwnerHolds(e) == OwnerUp /\ target = e /\ phase \in {"asking", "reading"}

OwnerSilent(e) ==
    /\ Serves(e) /\ Reads(e)
    /\ cut[e] = "none" /\ ~OwnerHolds(e)
    /\ CutTurn(e, "owner_lost")
    /\ UNCHANGED <<outbox, up, ownerEnd, handled, run, fOpen, fSent, cSeen, history, faults,
                   downs>>

-----------------------------------------------------------------------------
(* What an inbox hands on (Routes.route). *)

HandlesOnceTaken(m) ==   \* mutant: the link is known once the answer is read
    \/ /\ m.kind \in FrameKinds
       /\ delivered' = IF linked /\ phase = "reading" THEN Append(delivered, m) ELSE delivered
       /\ UNCHANGED answer
    \/ /\ m.kind \in {"taken", "refused"}
       /\ answer' = IF phase = "asking" /\ answer = "none" /\ m.n = target
                    THEN m.kind ELSE answer
       /\ UNCHANGED delivered

(* An answer to the question asked last; frames for a link still there. *)
OwnerHandles(m) ==
    \/ /\ m.kind \in FrameKinds
       /\ delivered' = IF linked THEN Append(delivered, m) ELSE delivered
       /\ UNCHANGED answer
    \/ /\ m.kind \in {"taken", "refused"}
       /\ answer' = IF phase = "asking" /\ answer = "none" /\ m.n = target
                    THEN m.kind ELSE answer
       /\ UNCHANGED delivered

HandToOwner(m) ==
    /\ OwnerHandles(m)
    /\ UNCHANGED <<queue, writer, up, phase, target, linked, excluded, cOpen, cSent, fSeen,
                   why, executorEnd, history>>

(* A request is handled once: a second one is answered again. *)
AnyTime(e) == TRUE   \* mutant: a request written twice is handled twice
FirstTime(e) == handled[e] = "none"

Request(e) ==
    \/ /\ ~FirstTime(e)
       /\ Post(ToOwner(e), Msg(handled[e], e))
       /\ UNCHANGED <<handled, run, fOpen, takes>>
    \/ /\ FirstTime(e) /\ up[e] = "closing"
       /\ handled' = [handled EXCEPT ![e] = "refused"]
       /\ Post(ToOwner(e), Msg("refused", e))
       /\ UNCHANGED <<run, fOpen, takes>>
    \/ /\ FirstTime(e) /\ up[e] = "up"
       /\ handled' = [handled EXCEPT ![e] = "taken"]
       /\ run' = [run EXCEPT ![e] = "running"]
       /\ fOpen' = [fOpen EXCEPT ![e] = TRUE]
       /\ takes' = takes + 1
       /\ Post(ToOwner(e), Msg("taken", e))

Control(e, m) ==
    IF ~Reads(e) THEN UNCHANGED <<cSeen, cut, gaps>>
    ELSE /\ cSeen' = [cSeen EXCEPT ![e] = IF m.n = @ + 1 THEN m.n ELSE @]
         /\ IF m.n > cSeen[e] + 1
            THEN gaps' = gaps \cup {e} /\ CutTurn(e, "frame_lost")
            ELSE UNCHANGED <<gaps, cut>>

(* released: the executor's end stops, sending nothing more. *)
StopLink(e) ==
    /\ fOpen' = [fOpen EXCEPT ![e] = FALSE]
    /\ CutTurn(e, "owner_lost")

HandToExecutor(e, m) ==
    /\ \/ /\ m.kind = "request"
          /\ Request(e)
          /\ UNCHANGED <<fSent, cSeen, cut, gaps>>
       \/ /\ m.kind = "control"
          /\ Control(e, m)
          /\ UNCHANGED <<queue, writer, handled, run, fOpen, fSent, takes>>
       \/ /\ m.kind = "released"
          /\ StopLink(e)
          /\ UNCHANGED <<queue, writer, handled, run, fSent, cSeen, takes, gaps>>
    /\ UNCHANGED <<up, ownerEnd, ended, refusals, late>>

HandOn(p) ==
    /\ Serves(p) /\ p \notin shut
    /\ inbox[p] # <<>>
    /\ inbox' = [inbox EXCEPT ![p] = Tail(@)]
    /\ IF p = Owner THEN HandToOwner(Head(inbox[p])) ELSE HandToExecutor(p, Head(inbox[p]))
    /\ UNCHANGED <<again, flight, shut, faults, downs>>

-----------------------------------------------------------------------------
(* The writers, with what their senders are told. *)

Silently == <<up, phase, target, linked, excluded, cSent, fSeen, why, handled, fSent, cSeen,
              takes, ended, gaps, late, downs>>

(* The end of a turn is written: the turn is let go (_end_written). *)
TellWritten(l, ms) ==
    run' = [e \in Executors |->
               IF l = ToOwner(e) /\ (\E m \in ms : m.kind = "end") /\ run[e] = "ending"
               THEN "gone" ELSE run[e]]

Write(l, twice) ==
    /\ WriteBatch(l, twice)
    /\ twice # <<>> => faults < MaxFaults
    /\ faults' = IF twice = <<>> THEN faults ELSE faults + 1
    /\ TellWritten(l, Elements(flight[l]))
    /\ UNCHANGED <<Silently, answer, cOpen, delivered, fOpen, cut, refusals>>

(* The senders of refused messages: the question fails; a control or a     *)
(* frame breaks its link, and an end being written is let go.              *)
TurnKinds == {"frame", "end", "control"}

TellOwner(e, ms) ==
    /\ answer' = IF /\ phase = "asking" /\ target = e /\ answer = "none"
                    /\ \E m \in ms : m.kind = "request"
                 THEN "failed" ELSE answer
    /\ IF \E m \in ms : m.kind = "control"
       THEN /\ cOpen' = FALSE
            /\ delivered' = IF linked THEN Append(delivered, Gone) ELSE delivered
       ELSE UNCHANGED <<cOpen, delivered>>
    /\ UNCHANGED <<run, fOpen, cut>>

TellExecutor(e, ms) ==
    /\ IF \E m \in ms : m.kind \in FrameKinds
       THEN /\ fOpen' = [fOpen EXCEPT ![e] = FALSE]
            /\ CutTurn(e, "frame_lost")
            /\ run' = [run EXCEPT ![e] = IF @ = "ending" THEN "gone" ELSE @]
       ELSE UNCHANGED <<fOpen, cut, run>>
    /\ UNCHANGED <<answer, cOpen, delivered>>

Tell(l, ms) ==
    /\ IF l[1] = Owner THEN TellOwner(l[2], ms) ELSE TellExecutor(l[1], ms)
    /\ refusals' = IF \E m \in ms : m.kind \in TurnKinds THEN refusals \cup {l} ELSE refusals

Refuse(l, part) ==
    /\ faults < MaxFaults
    /\ RefuseBatch(l, part)
    /\ Tell(l, {m \in Elements(flight[l]) : Once(m)})
    /\ faults' = faults + 1
    /\ UNCHANGED Silently

Transport(l) ==
    \/ TakeBatch(l) /\ UNCHANGED <<up, ownerEnd, executorEnd, history, faults, downs>>
    \/ \E twice \in Prefixes(flight[l]) : Write(l, twice)
    \/ \E part \in Parts(flight[l]) : Refuse(l, part)

Retire(l) ==
    /\ \/ StopWriter(l) /\ UNCHANGED faults
       \/ /\ RetireWriter(l)
          /\ faults < MaxFaults
          /\ faults' = faults + 1
    /\ UNCHANGED <<up, ownerEnd, executorEnd, history, downs>>

-----------------------------------------------------------------------------
(* A process closes, or dies. *)

(* Routes.close: what comes is refused, the turn is cut and still ends. *)
Close(e) ==
    /\ up[e] = "up" /\ downs < MaxDowns
    /\ downs' = downs + 1
    /\ up' = [up EXCEPT ![e] = "closing"]
    /\ CutTurn(e, "closing")
    /\ UNCHANGED <<outbox, ownerEnd, handled, run, fOpen, fSent, cSeen, history, faults>>

(* turns_written and Inbox.close, then Outbox.close: the turn ended and    *)
(* was written, or the bound passed and it is stopped.                     *)
StopReading(e) ==
    /\ up[e] = "closing"
    /\ up' = [up EXCEPT ![e] = "closed"]
    /\ StopLink(e)
    /\ CloseOutbox(e)
    /\ UNCHANGED <<ownerEnd, handled, run, fSent, cSeen, history, faults, downs>>

(* The drain's bound passes before a writer is through. *)
CutLine(l, part) ==
    /\ CutWriter(l, part)
    /\ up[l[1]] = "closed"
    /\ faults < MaxFaults
    /\ faults' = faults + 1
    /\ Tell(l, Elements(queue[l]) \cup Elements(again[l]) \cup Elements(flight[l]))
    /\ UNCHANGED Silently

Crash(p) ==
    /\ Serves(p) /\ downs < MaxDowns
    /\ downs' = downs + 1
    /\ up' = [up EXCEPT ![p] = "crashed"]
    /\ LoseOutbox(p)
    /\ IF p = Owner
       THEN /\ Forget
            /\ UNCHANGED executorEnd
       ELSE /\ run' = [run EXCEPT ![p] = IF @ = "none" THEN @ ELSE "gone"]
            /\ fOpen' = [fOpen EXCEPT ![p] = FALSE]
            /\ cSeen' = [cSeen EXCEPT ![p] = 0]
            /\ cut' = [cut EXCEPT ![p] = "none"]
            /\ UNCHANGED <<handled, fSent, phase, linked, cOpen, cSent, answer, delivered>>
    /\ UNCHANGED <<target, excluded, fSeen, why, history, faults>>

-----------------------------------------------------------------------------
Owns ==
    \/ \E e \in Executors : Ask(e)
    \/ NonePlaced \/ Taken \/ Refused \/ Unanswered
    \/ Read \/ Silence

Runs(e) == FinishTurn(e) \/ OwnerSilent(e)

Leaves ==
    \/ \E e \in Executors : Close(e) \/ StopReading(e)
    \/ \E l \in Lines : \E part \in Parts(flight[l]) : CutLine(l, part)
    \/ \E p \in Nodes : Crash(p)

Next ==
    \/ Owns \/ SendControl \/ GiveUp
    \/ \E e \in Executors : SendFrame(e) \/ Runs(e) \/ EndUnwritten(e)
    \/ \E p \in Nodes : HandOn(p)
    \/ \E l \in Lines : Transport(l) \/ Retire(l)
    \/ Leaves

(* Ready tasks run and the writers write; a turn that is cut ends (its     *)
(* work is cancelled); a close goes on.  An executor need not end its turn *)
(* by itself, nor does anything have to fail.  A turn loops nowhere: one   *)
(* weak fairness of all of these is fair to each.                          *)
CutTurnEnds(e) == cut[e] # "none" /\ FinishTurn(e)

Obliged ==
    \/ Owns
    \/ \E e \in Executors : CutTurnEnds(e) \/ OwnerSilent(e) \/ StopReading(e)
    \/ \E p \in Nodes : HandOn(p)
    \/ \E l \in Lines : Transport(l) \/ (StopWriter(l) /\ Retire(l))

Spec == Init /\ [][Next]_vars /\ WF_vars(Obliged)
-----------------------------------------------------------------------------
(* The turn is taken once at most, though its request may be written       *)
(* twice, its answer lost for a while, and the executors asked in turn.    *)
TakenOnce == takes <= 1

(* Messages of a turn reach the other end without a gap, unless Redis      *)
(* refused one of them (or its process stopped before writing it).         *)
GapMeansRefusal ==
    /\ Owner \in gaps => ToOwner(target) \in refusals
    /\ \A e \in gaps \ {Owner} : ToExecutor(e) \in refusals

(* A turn is lost to silence only when its executor's process went, when   *)
(* a frame of it was refused, or its end was not written in time.          *)
SilenceMeansLoss ==
    why = "silence" =>
        \/ up[target] \in {"closed", "crashed"}
        \/ ToOwner(target) \in refusals
        \/ target \in late

(* A message posted is never left on a queue without a writer. *)
NothingStranded ==
    \A l \in Lines :
        /\ queue[l] # <<>> => writer[l] \in {"waiting", "sending", "resting"}
        /\ again[l] # <<>> => writer[l] = "resting"
        /\ flight[l] # <<>> => writer[l] = "sending"

-----------------------------------------------------------------------------
(* The link carries the turn as TurnPromise says. *)
Runner ==
    IF \E e \in Executors : handled[e] = "taken"
    THEN CHOOSE e \in Executors : handled[e] = "taken"
    ELSE NoExecutor

Fate ==
    IF phase # "over" THEN "open"
    ELSE IF why = "done" THEN "done" ELSE "failed"

Promise == INSTANCE TurnPromise WITH
    runner <- Runner,
    sent <- IF Runner = NoExecutor THEN 0 ELSE fSent[Runner],
    whole <- Runner \in ended,
    stopped <- Runner # NoExecutor /\ (run[Runner] = "gone" \/ ~Serves(Runner)),
    read <- fSeen,
    fate <- Fate

CarriesTurn == Promise!Spec
=============================================================================
