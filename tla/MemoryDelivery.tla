--------------------------- MODULE MemoryDelivery ---------------------------
(***************************************************************************)
(* The in-process delivery backend (delivery/memory.py) and the worker     *)
(* loop that drains it (delivery/worker.py): a bounded queue, the items in *)
(* flight and those that wait out a retry delay.  close() stops the worker *)
(* at any await and puts them back.  The dead letters are those the oldest *)
(* of which made way included.                                             *)
(***************************************************************************)
EXTENDS Integers, Sequences, FiniteSets

CONSTANTS
    Items,      \* the delivery items
    QueueSize,  \* max_queue_size
    Retries,    \* max_retries of the items
    Chunk,      \* the worker's batch_size
    MaxCloses   \* bound: how often the backend is closed

ASSUME MemoryAssumption ==
    /\ QueueSize \in Nat \ {0} /\ Chunk \in Nat \ {0}
    /\ Retries \in Nat /\ MaxCloses \in Nat

VARIABLES
    known,    \* the items enqueued
    queued,  \* the queue
    flight,   \* _in_flight: what is left of the worker's batch, in order
    waiting,  \* _delayed: the items whose retry delay runs
    retried,  \* retry_count
    settled,  \* how often each item was acked or dead-lettered, at most 2
    worker,   \* "off", "polls", or "runs" the first of its batch
    closes    \* how often it was closed

memoryVars == <<known, queued, flight, waiting, retried, settled, worker, closes>>

MemoryTypeOK ==
    /\ known \in SUBSET Items
    /\ queued \in Seq(Items) /\ Len(queued) <= QueueSize
    /\ flight \in Seq(Items) /\ Len(flight) <= Chunk
    /\ waiting \in Seq(Items)
    /\ retried \in [Items -> 0 .. Retries + 1]
    /\ settled \in [Items -> 0 .. 2]
    /\ worker \in {"off", "polls", "runs"}
    /\ closes \in 0 .. MaxCloses

MemoryInit ==
    /\ known = {} /\ queued = <<>> /\ flight = <<>> /\ waiting = <<>>
    /\ retried = [i \in Items |-> 0]
    /\ settled = [i \in Items |-> 0]
    /\ worker = "off" /\ closes = 0

-----------------------------------------------------------------------------
Room == QueueSize - Len(queued)
First(n, items) == SubSeq(items, 1, IF n < Len(items) THEN n ELSE Len(items))
Rest(n, items) == SubSeq(items, n + 1, Len(items))

Settle(gone) ==
    settled' = [i \in Items |-> IF i \in gone /\ settled[i] < 2 THEN settled[i] + 1
                                ELSE settled[i]]

(* enqueue: it waits for room in the queue. *)
Enqueue(i) ==
    /\ i \notin known /\ Room > 0
    /\ known' = known \cup {i}
    /\ queued' = Append(queued, i)
    /\ UNCHANGED <<flight, waiting, retried, settled, worker, closes>>

StartWorker ==
    /\ worker = "off"
    /\ worker' = "polls"
    /\ UNCHANGED <<known, queued, flight, waiting, retried, settled, closes>>

(* dequeue: a batch once the last one is over. *)
Dequeue ==
    /\ worker = "polls" /\ flight = <<>> /\ queued # <<>>
    /\ flight' = First(Chunk, queued)
    /\ queued' = Rest(Chunk, queued)
    /\ UNCHANGED <<known, waiting, retried, settled, worker, closes>>

Execute ==
    /\ worker = "polls" /\ flight # <<>>
    /\ worker' = "runs"
    /\ UNCHANGED <<known, queued, flight, waiting, retried, settled, closes>>

(* What was executed leaves the flight. *)
Executed ==
    /\ worker = "runs"
    /\ worker' = "polls"
    /\ flight' = Tail(flight)

(* ack, or dead_letter for an error not to be retried. *)
Ack ==
    /\ Executed
    /\ Settle({Head(flight)})
    /\ UNCHANGED <<known, queued, waiting, retried, closes>>

(* nack: a retry after a delay, a dead letter past the last one. *)
Nack ==
    /\ Executed
    /\ retried' = [retried EXCEPT ![Head(flight)] = @ + 1]
    /\ IF retried[Head(flight)] < Retries
       THEN waiting' = Append(waiting, Head(flight)) /\ UNCHANGED settled
       ELSE Settle({Head(flight)}) /\ UNCHANGED waiting
    /\ UNCHANGED <<known, queued, closes>>

(* _requeue: the delay of an item is over. *)
Requeue ==
    \E n \in DOMAIN waiting :
        /\ waiting' = SubSeq(waiting, 1, n - 1) \o Rest(n, waiting)
        /\ IF Room > 0
           THEN queued' = Append(queued, waiting[n]) /\ UNCHANGED settled
           ELSE Settle({waiting[n]}) /\ UNCHANGED queued
        /\ UNCHANGED <<known, flight, retried, worker, closes>>

(* close: what is in flight and what waits is put back, what the queue has *)
(* no room for dead-lettered.                                              *)
PutBackFlight == flight   \* mutant: the retries that wait are let go
PutBack == flight \o waiting

CloseBackend ==
    /\ worker # "off" /\ closes < MaxCloses
    /\ worker' = "off"
    /\ queued' = queued \o First(Room, PutBack)
    /\ LET over == Rest(Room, PutBack) IN Settle({over[n] : n \in DOMAIN over})
    /\ flight' = <<>> /\ waiting' = <<>>
    /\ closes' = closes + 1
    /\ UNCHANGED <<known, retried>>

MemoryObliged == Dequeue \/ Execute \/ Ack \/ Requeue

MemoryNext ==
    \/ \E i \in Items : Enqueue(i)
    \/ StartWorker \/ Nack \/ CloseBackend
    \/ MemoryObliged

(* A worker that is not stopped polls and executes, executions end, the    *)
(* delays pass; it need not be started.                                    *)
MemorySpec == MemoryInit /\ [][MemoryNext]_memoryVars /\ WF_memoryVars(MemoryObliged)
-----------------------------------------------------------------------------
(* Once a worker stays, every item enqueued is acked or dead-lettered, and *)
(* none of them twice, whatever closes met it in flight or in a delay.     *)
SettlesOnce ==
    <>[](worker # "off") => <>[](\A i \in known : settled[i] = 1)
=============================================================================
