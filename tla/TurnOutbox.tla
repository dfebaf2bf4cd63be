----------------------------- MODULE TurnOutbox -----------------------------
(***************************************************************************)
(* What the processes of a turn write to each other's inboxes on the Redis *)
(* turn backend (turns/_redis_outbox.py) and read there                    *)
(* (turns/_redis_inbox.py).  A process has one writer task per             *)
(* destination: a line <<from, to>>.  What is posted on a line is written  *)
(* in batches, in the order it was posted, by pipelines outside a          *)
(* transaction.                                                            *)
(*                                                                         *)
(* A pipeline Redis refuses may have written any part of its batch; one    *)
(* whose connection drops may be run again by the client after a part of   *)
(* it was written.  An answer is written until it is; any other message    *)
(* once, and its sender is told when it is refused.                        *)
(***************************************************************************)
EXTENDS Integers, Sequences, FiniteSets

CONSTANTS
    Owner,       \* the process of the room's owner
    Executors,   \* the processes of the executors
    Batch,       \* how many messages a pipeline takes beside its first
    MaxFrames,   \* bound: frames of a turn before its end
    MaxControls  \* bound: controls its owner sends

ASSUME OutboxAssumption ==
    /\ Owner \notin Executors
    /\ Batch \in Nat \ {0} /\ MaxFrames \in Nat /\ MaxControls \in Nat

Nodes == {Owner} \cup Executors
Lines == ({Owner} \X Executors) \cup (Executors \X {Owner})

(* An inbox entry: its kind, and in a turn its number or, of an answer,    *)
(* which executor was asked.                                               *)
Messages ==
    [kind : {"request", "released"}, n : {0}]
    \cup [kind : {"taken", "refused"}, n : Executors]
    \cup [kind : {"frame", "end"}, n : 1 .. MaxFrames + 1]
    \cup [kind : {"control"}, n : 1 .. MaxControls]

VARIABLES
    queue,   \* per line, what was posted and not taken by its writer
    again,   \* per line, what Redis refused and is written again
    flight,  \* per line, the batch its pipeline writes
    writer,  \* per line: "none", "waiting", "sending", "resting", "stopped"
    shut,    \* the processes whose inbox and outbox closed
    inbox    \* per process, the entries it has not read

outbox == <<queue, again, flight, writer, shut, inbox>>

OutboxTypeOK ==
    /\ queue \in [Lines -> Seq(Messages)]
    /\ again \in [Lines -> Seq(Messages)]
    /\ flight \in [Lines -> Seq(Messages)]
    /\ writer \in [Lines -> {"none", "waiting", "sending", "resting", "stopped"}]
    /\ shut \in SUBSET Nodes
    /\ inbox \in [Nodes -> Seq(Messages)]

OutboxInit ==
    /\ queue = [l \in Lines |-> <<>>]
    /\ again = [l \in Lines |-> <<>>]
    /\ flight = [l \in Lines |-> <<>>]
    /\ writer = [l \in Lines |-> "none"]
    /\ shut = {}
    /\ inbox = [p \in Nodes |-> <<>>]

(* What may be left of a sequence when some of its elements are dropped. *)
Parts(s) ==
    UNION {{[i \in 1 .. k |-> s[f[i]]] :
                f \in {g \in [1 .. k -> DOMAIN s] :
                          \A i, j \in 1 .. k : i < j => g[i] < g[j]}} :
           k \in 0 .. Len(s)}

Prefixes(s) == {SubSeq(s, 1, k) : k \in 0 .. Len(s)}

Elements(s) == {s[i] : i \in DOMAIN s}

(* Entries reach an inbox in order; one nobody reads any more expires. *)
Enters(p, s) ==
    inbox' = [inbox EXCEPT ![p] = IF p \in shut THEN <<>> ELSE @ \o s]

-----------------------------------------------------------------------------
(* The messages written up to once: all but the answers (writes=None). *)
Once(m) == m.kind \notin {"taken", "refused"}

(* post: queued behind what was posted before, in one step; the first      *)
(* message of a line starts its writer.                                    *)
Post(l, m) ==
    IF l[1] \in shut
    THEN UNCHANGED <<queue, writer>>
    ELSE /\ queue' = [queue EXCEPT ![l] = Append(@, m)]
         /\ writer' = [writer EXCEPT ![l] = IF @ = "none" THEN "waiting" ELSE @]

(* A writer takes a batch: what is written again first, then what waits.   *)
Room(l) == IF writer[l] = "resting" THEN Batch ELSE Batch + 1

TakeBatch(l) ==
    /\ \/ writer[l] = "waiting" /\ queue[l] # <<>>
       \/ writer[l] = "resting"
    /\ LET k == IF Len(queue[l]) < Room(l) THEN Len(queue[l]) ELSE Room(l)
       IN  /\ flight' = [flight EXCEPT ![l] = again[l] \o SubSeq(queue[l], 1, k)]
           /\ queue' = [queue EXCEPT ![l] = SubSeq(@, k + 1, Len(@))]
    /\ again' = [again EXCEPT ![l] = <<>>]
    /\ writer' = [writer EXCEPT ![l] = "sending"]
    /\ UNCHANGED <<shut, inbox>>

(* Redis took the batch; before it, "twice" may be what an earlier run of  *)
(* the same pipeline wrote before its connection dropped.                  *)
WriteBatch(l, twice) ==
    /\ writer[l] = "sending"
    /\ twice \in Prefixes(flight[l])
    /\ Enters(l[2], twice \o flight[l])
    /\ flight' = [flight EXCEPT ![l] = <<>>]
    /\ writer' = [writer EXCEPT ![l] = "waiting"]
    /\ UNCHANGED <<queue, again, shut>>

(* What of a refused batch is written again: its answers, in order. *)
WrittenAgain(s) ==
    {t \in Parts(s) :
        /\ \A i \in DOMAIN t : ~Once(t[i])
        /\ Len(t) = Cardinality({i \in DOMAIN s : ~Once(s[i])})}

(* Redis refused the batch, having written a part of it. *)
RefuseBatch(l, part) ==
    /\ writer[l] = "sending"
    /\ part \in Parts(flight[l])
    /\ Enters(l[2], part)
    /\ again' \in {[again EXCEPT ![l] = t] : t \in WrittenAgain(flight[l])}
    /\ flight' = [flight EXCEPT ![l] = <<>>]
    /\ writer' = [writer EXCEPT ![l] = IF again'[l] # <<>> THEN "resting" ELSE "waiting"]
    /\ UNCHANGED <<queue, shut>>

(* An idle writer goes; the next message starts another. *)
IdleAnyway(l) == TRUE   \* mutant: what was posted meanwhile is not looked for
Idle(l) == queue[l] = <<>>

RetireWriter(l) ==
    /\ writer[l] = "waiting" /\ l[1] \notin shut
    /\ Idle(l)
    /\ writer' = [writer EXCEPT ![l] = "none"]
    /\ UNCHANGED <<queue, again, flight, shut, inbox>>

(* close: nothing is taken from now; a writer stops behind its last        *)
(* message, or is cut past the drain's bound.                              *)
CloseOutbox(p) ==
    /\ shut' = shut \cup {p}
    /\ inbox' = [inbox EXCEPT ![p] = <<>>]
    /\ UNCHANGED <<queue, again, flight, writer>>

StopWriter(l) ==
    /\ l[1] \in shut
    /\ writer[l] = "waiting" /\ queue[l] = <<>>
    /\ writer' = [writer EXCEPT ![l] = "stopped"]
    /\ UNCHANGED <<queue, again, flight, shut, inbox>>

CutWriter(l, part) ==
    /\ l[1] \in shut
    /\ writer[l] \in {"waiting", "sending", "resting"}
    /\ part \in Parts(flight[l])
    /\ Enters(l[2], part)
    /\ queue' = [queue EXCEPT ![l] = <<>>]
    /\ again' = [again EXCEPT ![l] = <<>>]
    /\ flight' = [flight EXCEPT ![l] = <<>>]
    /\ writer' = [writer EXCEPT ![l] = "stopped"]
    /\ UNCHANGED shut

(* The process of an outbox died: what it had not written is gone. *)
LoseOutbox(p) ==
    LET kept(q) == [l \in Lines |-> IF l[1] = p THEN <<>> ELSE q[l]]
    IN  /\ queue' = kept(queue) /\ again' = kept(again) /\ flight' = kept(flight)
        /\ writer' = [l \in Lines |-> IF l[1] = p THEN "stopped" ELSE writer[l]]
        /\ shut' = shut \cup {p}
        /\ inbox' = [inbox EXCEPT ![p] = <<>>]

(* A line whose process will write nothing more. *)
Drained(l) == writer[l] \in {"none", "stopped"} /\ queue[l] = <<>>
=============================================================================
