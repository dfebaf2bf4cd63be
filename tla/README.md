# A specification of RoomKit's concurrent core

RoomKit is an asyncio framework for conversations: messages arrive on *channels*, are committed
as *events* of a *room*, and each event is delivered to the room's other channels, the agents
among them, whose answers come back through the same pipeline. This directory holds TLA+ modules
for the parts of it where several tasks, processes or clocks meet: who delivers what, in which
order, and what happens when a process dies or a call fails.

Source paths below are relative to `src/roomkit/` in the repository.

## The system

| Part | State it keeps | Operations | What must hold |
|---|---|---|---|
| Inbound pipeline (`core/mixins/inbound*.py`) | the event on its way, the room's `latest_index` | gates, hooks, idempotency, commit under the room lock | one index per event, in order, without a hole; a retried message is committed once |
| Delivery lanes (`core/lanes.py`, `core/mixins/lane_execution.py`, `helpers.py`) | per process and room: queues of committed plans, the owed cursor, the gap clock; in the store: `delivered_index` | enqueue, note an index without a delivery, place an unstored event, poll, claimed round, skip a hole | deliveries of a room run one at a time, in index order, across processes; nothing is passed silently; the room never wedges |
| Event router and circuit breaker (`core/event_router.py`, `circuit_breaker.py`) | per channel: failure count, opening time, probe slot | admit, record a success or a failure, recover | opened at the threshold only; one probe at a time; a channel is offered a delivery again |
| Delivery backends (`delivery/`) | pending stream, claims, delayed set, dead letters; in a worker its batch | enqueue, dequeue, ack, nack, dead-letter, renew, reclaim | at least one attempt, settled once, retries spent by failures only |
| Room turns (`core/_room_turns.py`) | per channel and room: the line of turns | join, reach, leave, steer | one turn at a time, in the order asked; the line always moves |
| Room locks and admission (`core/locks.py`, `admission.py`) | locks, reference counts, leases, tickets | lock (reentrant), evict, take and release a ticket | one holder per room; checks commit in arrival order; no wait on oneself |
| Turn backends (`turns/`) | per turn: two links, numbering, queues; per process: inbox, outbox, beats | submit, accept, frame, control, end, release | messages in order without a gap; a turn ends once, or both ends learn it is lost |
| Task delegation (`tasks/`) | the running tasks and who ends each | submit, cancel, close | a task ends once and its waiters are told |
| Kit close (`core/_closing.py`) | the calls under way, the cascades | admit, wait, commit, cut, read back | a cut call tells what became of its event, and takes back the cut and nothing else |
| Room timers (`core/_room_timers.py`, `_timer_transitions.py`) | the room's status and instants | due transitions, compare-and-set | a transition is applied once, at its instant, never over a newer activity |
| Stores (`store/`) | rooms, events, cursors | compare-and-set writes | (assumed by the models above) |
| Channels, providers, media, agents' tools and memories | adapters, buffers, sessions | transport and model calls | (inputs of the models above) |

How they meet. An inbound call holds the room lock while it commits, and hands the committed plan
to the room's lane in its own process before it lets the lock go. The lane's task runs the plan
through `EventRouter.broadcast`, which asks each target channel's breaker, waits for its rate
limit, and calls the channel. Lanes of several processes share nothing but the store's cursor and
a lock, the delivery claim. A proactive message goes through a delivery backend instead: it is
enqueued, claimed by a worker in some process, executed as a send, and settled.

Before it commits, a call takes an admission ticket if it runs a check off the lock, and waits for
the room's lock in that order; the room's due timers are applied first thing under the lock; hooks
run there and may make further calls, nested under the section that waits for them. The kit's close
cuts the calls that wait, then those that run, but never a write that was decided. When a
delivered event asks an agent for an answer, the delivery joins the line of that agent's turns in
the room; the turn may run in another process, an *executor*, to which the room's owner hands it
over Redis. Tasks an agent delegates run in the background under a runner of their own.

What is hard in it: several processes delivering one room from cursors read before an await; a
crash between a commit and its delivery; a store call that fails after it was applied; a clock that
stands in for the death of a process; a settlement whose answer was lost; a lease that runs out
under a live worker; an outcome that arrives after the state it belongs to has gone; a batch of
messages written in part and perhaps again; two ends of a turn that each decide alone that the other
is lost; a cancellation that meets a commit; a lock evicted from its table while somebody is about to take it;
a room written back from a copy read before an await.

## The modules

    CircuitBreaker                     the breaker and the deliveries through it
      CircuitBreakerProofs
    OrderedDelivery                    abstract: indexes delivered once, in order
    DeliveryLane                       the lanes of one room in several processes
      LaneRefinement                   DeliveryLane implements OrderedDelivery
      DeliveryLaneProofs               one delivery at a time, order, losses, the refinement
    DurableQueue                       abstract: attempted, then settled once
    RedisDelivery                      the Redis backend and its worker loops, with the
      RedisDeliveryProofs              refinement of DurableQueue
    MemoryDelivery                     the in-process backend, its worker and close
    TurnPromise                        abstract: a turn run once, read without a gap
    TurnOutbox                         the writers' batches and what Redis keeps of them
    TurnLink                           a turn between its owner and the executors, over
      TurnLinkProofs                   TurnOutbox; implements TurnPromise; the proofs of both
    RoomTurns                          the line of a channel's turns in a room
      RoomTurnsProofs
    RoomDoor                           a call's way through admission, lock, commit, close
      RoomDoorProofs
    RoomLocks                          the table of locks, sections, lent leases, nested calls
      RoomLocksProofs                  with lemmas about lines, which the other proofs use
    RoomTimers                         due transitions against calls and greetings
    TaskRunner                         delegated tasks, cancels, close
    KitProofs                          timers, tasks, the in-process backend, and their sum MCKit

The `MC` modules instantiate them for TLC. One step of
a specification is what the code does between two awaits (asyncio runs it alone), or one call to
the store or to the Redis server, which is atomic there. `MCKit` runs six of them at once: they share
no state, so a behaviour of `MCKit` is a behaviour of one part, chosen at the start, with the others
at rest. It is a sum and not a product, so no part makes another's instance smaller.

### CircuitBreaker

`failureCount`, `opened` and `probeSent` are `_failure_count`, `_opened_at` read against the
clock, and `_half_open_probe_sent`; `announced` is what `on_state_change` was last told. Each
member of `Sends` is a delivery of some room bound to the channel: `Begin` is `allow_request` in
the router's target task, `TokenGranted` the rate limiter's await, and the delivery ends
`Delivered`, `Failed`, or `EndsUnrecorded` (no recipient, or cancelled while it waits). The count is kept at
the threshold once there, which the code's comparison cannot tell from a higher one. `holder` and
`vanished` are history: whose the probe slot is, and that a probe ended unrecorded.

### DeliveryLane

An entry is an indexed event, or an *unstored* one (kept out of the store by the persistence
policy, without an index), which runs behind the event it follows, its *anchor*. `at` says where
each entry is, from its commit to its aftermath; `lane` where each process's lane task is.

| Action | Code |
|---|---|
| `Commit`, `Enqueue` | `_commit_to_lane`: the store's index, then the lane, under the room lock |
| `NoteCommitted`, `NoteFails` | `_note_committed_index`: an index with nothing to deliver moves the cursor, or joins the lane as a cursor entry |
| `PlaceUnstored` | the index-less entry and its `after_index` |
| `Poll`, `Idle` | `_run` and the check off the claim in `_process_ready` |
| `TakeClaim` | acquiring the delivery claim |
| `WriteOwed`, `WriteOwedFails` | `_write_owed_cursor`, one index at a time |
| `Begin`, `RunEnds`, `TakeNoted` | `_claimed_round`'s loop and `_execute_owned` |
| `AdvanceCursor`, `AdvanceFails` | `_advance_cursor`: the compare-and-set, or one more index owed |
| `MeetHole`, `ReadHole`, `Skip`, `Announce` | the hole: read again, skipped under `force_skip`, `delivery_skipped` |
| `RoundOver`, `RoundFails`, `Finish`, `EndRound` | the end of the round, its failure, `_finish` in order, the gap clock |
| `GapTimeout`, `Crash` | time, and the death of a process |

A write that fails is modelled twice, applied and not: the caller cannot tell. `owed` is the
lane's memory of writes to make again. `dropped` and `moved` are the two `progressed` of the code: what the check off the claim
dropped, and what the claimed round did, which alone keeps that round from skipping; the gap clock
restarts after either. `skipped` and `unheard` are history: the indexes
`delivery_skipped` named, and the ones a lane skipped and failed before it said so.

### RedisDelivery

A copy is an entry's payload: the item with its `retry_count`. `stream`, `owner`, `idle`,
`delayed` and `deadLetter` are the server's; `mine`, `doing` and `result` are a worker's batch and
the item it is on. `Promote`, `Claim` and `Read` are the three parts of `dequeue`; `Takes` lets
the server's answer be lost after the claim was made. `Settle` runs the `TRANSITION` script, whose
fence is the pending entry's owner, and `SettleUnheard` the same with its answer lost, to be tried
again. `LeaseExpires` makes an entry reclaimable: at once when no worker tracks it, as a counted
*stall* when its worker is alive. The order of the stream, due times and the trimming of the
dead letters are left out: no property depends on them, and leaving the order open allows more.

### MemoryDelivery

`queued`, `flight` (what is left of the worker's batch) and `waiting` (in a retry delay) are the backend's,
`settled` counts an item's acks and dead letters. `Enqueue`, `Dequeue`, `Ack`, `Nack` and `Requeue` (a delay that ends) are its
methods, `Execute` the worker's; `CloseBackend` stops the worker at whichever await it is and puts back the flight and
the delays, as far as the queue has room; `StartWorker` starts again. It does *not* implement
`DurableQueue`: an item of a batch that was not executed yet can be dead-lettered by a close on a full
queue, without an attempt. What it keeps is `SettlesOnce`.

### TurnOutbox and TurnLink

A line `<<from, to>>` is a process's writer task for one destination (`turns/_redis_outbox.py`) with
the inbox stream it writes to. `Post` puts a message on the writer's queue, `TakeBatch` drains up to
`Batch` of them, `WriteBatch` is the pipeline; with `twice` the client ran it again after a part of it was written.
`RefuseBatch` writes any part and fails: an answer stays to be written again ahead of newer ones, the
sender of any other message is told. `RetireWriter` is the idle writer's end, `CloseOutbox`, `StopWriter` and `CutWriter` the close
with its drain and its deadline, `LoseOutbox` a crash.

`TurnLink` is one turn over these lines.

| Action | Code |
|---|---|
| `Ask`, `Taken`, `Refused`, `Unanswered`, `UnansweredAskAgain`, `NonePlaced` | the owner's placement: an executor at a time, its answer, its silence (`turns/_redis_routes.py`) |
| `Read`, `GiveUp`, `Silence`, `SendControl` | the owner's end of the turn (`_owner_turn.py`): the next frame, leaving, losing the executor |
| `Request`, `Control`, `StopLink` | an executor handles what its inbox hands on (`_redis_links.py`, `_executor_turn.py`) |
| `SendFrame`, `FinishTurn`, `EndUnwritten`, `OwnerSilent` | an executor's frames, the end and the bound on writing it, losing the owner |
| `HandOn` | the reader takes an inbox's entries one by one (`_redis_inbox.py`) |
| `Transport`, `Retire`, `CutLine` | the writers, and what the sender of a refused message is told |
| `Close`, `StopReading`, `Crash` | an executor's process closes in order, or stops |

Frames and controls carry their number; the receiver admits the next one, ignores one it has, and is
through with the turn at a gap. `takes`, `ended`, `gaps`, `refusals` and `late` are history. The content of a turn (text,
tool calls) is left out; the beats enter as what they tell a side.

`TurnPromise` is what a caller of the backend may rely on: one executor begins the turn, the
owner reads what was sent in order and without a gap and calls the turn done only after it read its end,
and once one side is through, so is the other before long.

### RoomTurns

`turnLine` is `RoomTurns._lines`' line of one channel and room, `stage` where each turn is. `Ask` is the lane's
delivery asking the channel: it joins the line or is offered to the running turn (`steering`, until
`SteerEnds`: handed over, or in line after all). `Read` is the reader of the delivery's streams
coming to this one, `Begin` the place reached, `Streams`, `Stop` and `CloseTurn` the
turn's run, its stop and the write of what it said. `Fails`, `ReaderCancelled` and `Drop` are the ways out
before and during it. A turn's tool may send a message that asks for a turn of the same line.

### RoomDoor

`pc` is where each call is. `Start` enters the kit (`core/_closing.py`), `TakeTicket` the admission
order when the call runs a check off the lock, `Arrive` and `Acquire` wait for and take the room's lock.
`Refuse` is a gate that says no; `Decide` hands the commit to a task of its own, `WriteEnds` is that
task's end, `Return` and `Finish` the way out. Cancellations are asked and raised apart:
`CallerCancels`, `DeadlinePasses`, `CutWaiting` and `CutRunning` ask, `Raise` is the cancellation delivered at
the next await, `TimesOut` the deadline's own, which becomes a refusal, announced (`Announced`) before the call lets the lock
or its ticket go. `ReadBack` is a cut call looking up whether its event is stored; a look-up that fails or is late tells
that it is not, and is kept in `unread`. `result` is what the call reports. The close looks at its work again as any of
it ends, and cancels a call it finds reading back a second time (`ReadingBack`, kept in `recut`): nobody takes that
request back.

### RoomLocks

`Call` looks the room's lock up in the table, counting a reference, evicting unused locks past
`MaxLocks`, `TakeLock` acquires it. A section runs hooks (`HookRuns`, `HookOver`); a task a hook spawned
calls into the room with the lent lease (`Nest`, `NestedCommits`, `NestedOver`), and the section
waits for it (`Settled`, `LeaveSection`, also when cancelled: `HeldOnCancel`). `SectionDeadline` is the
deadline that does not wait. `overrun` names the sections left so: a nested call that was already
committing goes on with the lock released, and `OneSection` exempts exactly these.

### RoomTimers

`row` is the stored room (status, `last_activity_at`, `paused_at`), `section` the section under the lock and what it
read, `heard` (history) when the room was last active. `Enter`
takes the lock for an *errand* (a message, a check, pause, resume, reopen, close, archive, setting
the timers), `Compute`, `WriteDue` and `Reread` are `apply_due_timers` with its compare-and-set
and its retries, `Report` the transition's report, `LeaveRoom` the errand's own write. `Greet` commits without
the lock, `Tick` is time.

### TaskRunner

`Submit`, `WorkReturns`, `WorkCut`, `WorkFinishes` and `EndFinishes` are a delegated task and its end,
`Cancel`, `EndsHeld`, `Returns` and `LeavesIt` a caller of `cancel`, `CloseRunner`, `ClosePass` and
`RunnerClosed` the close, which cancels what runs until nothing does. `ends` is `_cancelled_ends`: whoever takes the entry
ends the task.

## What TLC checks

| Run | Instance | Distinct states | What it shows |
|---|---|---|---|
| `breaker` | 3 deliveries, threshold 2 | 1 936 | `TrippedAtThreshold`, `ProbeSlotHeld`, `AnnouncedState`; a channel is offered a delivery again unless a probe vanished (`AdmitsAgain`) |
| `breaker_wedge` | same | counterexample | `ProbeGoesThrough` fails: a probe that records nothing wedges the channel |
| `lane` | 2 processes, 3 indexes, 1 unstored, 1 crash | 495 173 | `OneDelivery`, `InOrder`, `AnchorRespected`, `SkipsNoneOfItsOwn` |
| `lane_faults` | 2 processes, 2 indexes, 1 unstored, 1 crash, 1 fault, 1 more of a write made again | 310 438, with fairness | `NoSilentLoss`, `OwesItsOwn`, the inductive invariant `LaneInv`, the refinement of OrderedDelivery, and `NeverWedges` |
| `lane_skip` | 3 processes, 3 indexes, no failure | counterexample | a live owner's plan is skipped |
| `lane_owed` | 2 processes, 2 indexes, 1 fault | counterexample | a delivered index is announced as skipped |
| `redis_queue` | 2 items, 2 workers, 1 retry, batches of 2, two of: 1 crash, 1 lost answer, 1 stall | 185 390, with fairness | `OneCopy`, `RetriesEarned`, `ExclusiveLease`, and the backend implements DurableQueue, liveness included |
| `redis_attempts` | 1 item, 2 crashes | counterexample | reclaimed executions are not counted as attempts |
| `turn_link` | 2 executors, batches of 2, 1 frame and the end, 2 controls, 1 fault, 1 close or crash | 269 832, with fairness | `TakenOnce`, `GapMeansRefusal`, `SilenceMeansLoss`, `NothingStranded`, and the refinement of TurnPromise, liveness included |
| `kit` | the six parts of MCKit, below | 316 641, with fairness | one section and one order of admission per room (`ExclusiveDoor`, `AdmissionOrder`, `OneSection`, `RefsAreUsers`), what calls tell of their event and whose cancellation they keep (`CutTellsTruth`, `CancelsSettled`) and all leave (`DoorDrains`); the turns of a line (`OneTurn`, `StartsAsAsked`, `TurnsEnd`); tasks and items settled once (`EndsOnce`, `SettlesOnce`); timers on time (`TimersOnTime`) |
| `door_recut` | 2 calls nobody cancels, a close | counterexample | a call that reads its commit back is cancelled a second time, and ends cancelled |
| `timers_retime` | 1 room, thresholds 1, clock to 3 | counterexample | setting a room's timers undoes a greeting's activity |

The bounds and why they are enough to be interesting. Three deliveries let one be the probe while
two stragglers of the closed breaker record late outcomes. Two lanes are what order across
processes needs; three indexes let a lane hold an entry on each side of the other's; a crash in
either makes the hole, and the fault falls on any cursor write, applied or not. `lane_skip` needs a
third process, the one whose clock ran while the other two took turns. In the queue, two workers
are the holder and the thief of a lease, `MaxRetries` 1 gives a copy that may be retried and one
that may not, and batches of two let one item wait while another executes; a behaviour meets two at most of the
three disturbances, in any order (`MaxTroubles`), and one of the two items comes first. Processes are
interchangeable: symmetry is used where no liveness is checked. The proofs hold for all
values, so the bounds matter most for what is only model-checked. Deadlock is not checked in the lanes,
the queue, the link and the kit, which rest when all their bounded inputs are settled.

In `turn_link`, two executors are the one that refuses or is lost and the one asked next, or asked by
mistake while the first one's answer is late; a frame and an end fill a batch, so that a part of it can be
written; two controls make a gap at the executor's end, one fault the refusal, one close or crash the
loss. In `kit`: three calls are one inside, one that waits and one that overtakes or is cut, `MaxAsks` is
the number of calls cancelled by their caller or deadline beside the close; three tasks, two rooms and a table of one lock
(`MaxLocks`) make an eviction, five locks are as many as three tasks can make; four turns of two deliveries
(two streams each) are a running turn, one steered into it and two behind; the clock to 4 passes a pause and a close with thresholds of 1 and leaves
room for a late write, with `Attempts` the code's number of tries; three delegated tasks and two
cancellers race with each other and with the close; four items against a queue of two (`QueueSize`) make it full with
items in flight and in delays, read in chunks of two (`Chunk`), with one retry and one close. The errand that sets the timers is left
out of `kit` and is `timers_retime`'s. In place of symmetry sets, which TLC cannot combine with liveness, `CallsInOrder`,
`TurnsInOrder` and `InOrder` let interchangeable calls, turns and executors come in one order: naming them anew
gives the others.

### Fairness

- *Breaker.* The clock runs (`RecoveryTimeout`); the limiter's wait is finite; an admitted delivery
  returns, raises or is cancelled. No delivery has to begin.
- *Lanes.* A ready task runs (`LaneStep`, and what holds the room lock lets it go); the
  claim's queue lets each waiter in (strong fairness of `TakeClaim`: the lock is free again and
  again); `GapTimeout` is fair but enabled only while something really takes that long: a
  delivery or its aftermath under way, or a hole nobody is about to fill. Without
  that guard a poll a millisecond away could count as five seconds. Crashes and faults are never
  fair, and bounded.
- *Redis.* Each pass of the workers' loop promotes, claims and reads, so none of the three is starved by
  the others (strong fairness of each, over all the workers); a worker executes and settles what
  it holds; an entry no worker tracks becomes idle by time. Nothing makes a live worker's lease
  expire.

- *TurnLink.* `Obliged`: the owner asks and reads on, a turn that is cut ends, silence is noticed, inboxes are read, writers write and
  retire. An executor need not speak or finish of its own will, and nothing fails or closes out of fairness.
- *RoomDoor, RoomTurns, TaskRunner, MemoryDelivery.* `DoorObliged`, `TurnsObliged`,
  `RunnerObliged`, `MemoryObliged`: ready tasks run, store calls, streams and bounded graces end. No
  call is made, cancelled or cut out of fairness, and no hook or delegated work need end by itself.
  In each of these nothing obliged goes round in a loop for ever, so weak fairness of the disjunction
  is fair to each of its actions. *RoomTimers* and *RoomLocks* have no fairness: what is said of them is safety.

### Where the code differs from what it says

Each is a run of its own, and each is recorded with the lines it quotes in `PROJECT.json`.

- `breaker_wedge`: `docs/c7/resilience.md` says that after 60 seconds one probe goes through. A
  probe whose target had no recipient, or that was cancelled, records nothing, and the one probe slot stays
  taken until `reset()`.
- `lane_skip`: `core/lanes.py` says that a slow delivery is never skipped. A lane's gap clock
  restarts after its own progress only, so it also runs out behind the deliveries of others, and
  the lane then skips a live owner that merely waits for the claim.
- `lane_owed`: `core/lanes.py` says that a cursor write that fails leads to no index skipped as
  lost. The owed write is in the memory of one lane, and is made again at that lane's next round only.
- `redis_attempts`: `delivery/base.py` says that `max_retries` 3 is four attempts at most. An
  attempt interrupted by its worker's end counts for none.
- `door_recut`: `core/_closing.py` says that a cut call never ends with a `CancelledError` its caller did not ask for.
  A call cut in its commit takes the cut back and awaits the read of its event; when other work of the kit ends meanwhile, the
  close lists it as running still and, as no cancellation of it is under way, cancels it once more. It ends cancelled, with the
  request left on its task, and tells nothing of its event. The store's read has to suspend for it.
- `timers_retime`: a test says that changing a live room's thresholds must not reset the idle clock, and
  `store/base.py` that a greeting's commit must not be overwritten. `set_room_timers` writes back the whole room it read: the
  activity of a greeting committed off the lock in between is undone. The timers' own writes
  compare first, and `TimersOnTime` holds without that errand.

## What is proved

With TLAPS, for every number of processes, entries, items, workers, retries, crashes, faults and
stalls. The only assumptions are the `ASSUME`s of the modules: the counts are natural numbers,
the "nobody" values differ from the members of their sets, and, for what counts members or makes a
sequence of a set, that calls, turns, tasks and rooms are finitely many at any time, with at least as many
locks as rooms to be made.

- *Breaker* (`BreakerTypeCorrect`, `BreakerSafe`, `BreakerSlotHeld`, `BreakerAnnounces`). `TrippedAtThreshold`
  is inductive together with the types and `SlotOnlyWhileTripped`: the slot is taken only while
  the breaker is tripped, so the probe's outcome, good or bad, frees it. `AnnouncedState` is inductive with the types
  alone: every transition tells the listeners, and no late outcome makes one; a `reset()` closes the breaker untold, after
  which it may be closed with "open" the last they heard, never the other way round.
- *Lanes* (`LaneCore`, from which `LaneTypeCorrect` and `LaneDeliversOne`). `OneDelivery` is not
  inductive: two entries of two lanes could be about to run together. `CoreInv` adds why they are not:
  a lane in its tenure is the claim's holder and conversely (`ClaimHeld`); what runs is
  its lane's next entry (`RunsItsNext`), as what waits for its write is (`WritesItsNext`); what a
  round recorded came from the lane's own queue (`RecordsItsOwn`); and an index has a stage
  exactly when it was committed (`Timeline`). Each action has a lemma `<Action>Keeps`, and the
  actions that drop stale entries share `DropsEffect`.
- *Lanes, order and loss* (`LaneInvariant`, from which `LaneNoSilentLoss`, `LaneOwesItsOwn`,
  `LaneBeginsInOrder`, `LaneRespectsAnchors` and `LaneSkipsNoneOfItsOwn`). Over `CoreInv`,
  `LaneInv` says where the cursor stands. A lane in its round read a cursor behind which nothing
  is pending, but what it is about to announce as skipped (`KnowsCursor`), or it owes writes, all
  of them for its own deliveries (`OwesItsOwn`). So what it begins, at that reading plus one,
  lies past every delivery that began (`BegunInOrder`, `OnlyBeginBegins`). A skip's target is the
  least of what its lane waits for, and the lane holds nothing behind it (`SkipsOthers`,
  `TargetPassesOthers`); nothing is ahead of the last commit, so a commit disturbs no reading
  (`Bounded`). Actions that move no cursor and begin nothing share one lemma, `OrderKept`; the
  three writes that move the cursor have `CursorMoved` and `SkipMoves`. That a queue has a least
  entry is `LeastNatural`, from the library's well-foundedness of the naturals.
- *Lanes, refinement* (`LaneImplements`: `Spec => DeliversInOrder`). A step commits the next index,
  or takes a set of pending indexes out of the queues, and begins one of them at most
  (`StepImplements`); `StageSteps` says what a step may do to an index.
- *Queue* (`QueueInvariant`, from which `QueueTypeCorrect`, `QueueOneCopy`, `QueueRetriesEarned`
  and `QueueExclusiveLease`). `OneCopy` is not inductive: an owner on an entry that is no longer
  in the stream would let the fence pass and a second copy be made. `PendingQueued` excludes that;
  `SettlesItsOwn` ties a worker's outcome to an attempt that had it; `Leased` says that an
  unexpired copy in a worker's memory is pending for it, or its item moved on to a later copy.
- *Refinement* (`QueueImplements`: `Spec => Promise!Spec`). Each step of the backend is an
  enqueue, an attempt, a settlement, or leaves the promise's state alone; the invariant provides
  that an item is settled after its first attempt and never again.

- *Turn link* (`LinkTypeCorrect`, `TurnTakenOnce`, `NothingLeftStranded`). `TakenOnce` is not inductive: a
  request written twice, or one whose answer is late, could be taken by two. `LinkInv` says why not: an
  executor that handled the request, or may still get it, is the target or refused (`AskedInTurn`), since the
  owner asks another only after a refusal, and a refusal under way was made; an executor answers a request once
  and the turn was taken as often as one handled it so (`TakesCounted`); the numbers of the frames stay
  bounded because the end closes them (`EndIsLast`); and nobody was let go before the turn was over. All of it is said of every message wherever it is (`Carried`): posted,
  in a batch, to be written again, or in the inbox. The first part of
  `TurnLinkProofs` says once what each action of the writers may do to an inbox; each action of `TurnLink` has a lemma.
- *Turn link, refinement* (`LinkImplements`: `Spec => Promise!Safe`). Who took the turn is the promise's executor
  (`RunnerIs`). That the owner reads only what this one sent needs `FlowInv`: a frame under way to the owner was
  numbered by the executor that took the turn, and an end is its last (`FramesSent`); only that one
  runs it, and it sends nothing after its end (`RunsTaken`). A step carries the promise (`Carries`) when it
  begins, sends, stops, reads, fails or settles the turn, or leaves the promise's state alone. What
  the transport and the crashes may do to what is under way takes messages away and adds none (`TransportCarries`, `CrashCarries`).
- *Turn link, order* (`GapsAreRefusals`: `Spec => []GapMeansRefusal`). The numbers a reader has cannot be said to be in
  order along its line, since a batch written twice repeats them; what holds is that each one comes behind the one
  before it (`Steady`), read in the inbox, then the batch, then the queue (`Along`), by a reader that has what it admitted (for the owner, also
  what its link was handed: `Has`). `OrderInv` says so of the line of the executor that took the turn and of its
  owner's line to it, as long as nothing on them was refused (`FrameOrder`, `ControlOrder`), that only that executor sends
  frames and is sent controls (`OfTheTurn`), and that the owner knows the link before a frame of it comes (`TakenAsTold`).
  `KeepsTake`, `KeepsWrite` and `KeepsFree` say of sequences what a batch taken, written or
  emptied does to that order; `LineMoves` carries it to the writers' actions.
- *Turn link, silence* (`SilenceIsLoss`: `Spec => []SilenceMeansLoss`). An owner that gave the turn up for silence had no
  sound executor: `SoundGoOn` says that an executor which took the turn, whose process is there and of
  whose frames none was refused or late, runs it uncut, writes its end, or is gone with the end where the owner will read
  it (`EndAtHand`). It rests on the two invariants above: an owner that is not through did not read the end (`FlowInv`),
  and nothing of a sound executor was lost on the way (`OrderInv`). What was lost stays
  lost (`StepLasts`), so a turn that is not sound when the owner gives up is not sound later.
- *Turns of a room* (`TurnsTypeCorrect`, `TurnsOneAtATime`, `TurnsInOrderOfAsks`). `TurnsInv`: the line holds
  each turn once, those that are in it and no other (`LineKept`), in the order asked (`AskedOnce`, `LineAsAsked`), what
  started has been first since (`OneTurn` follows: two turns cannot both be first), and a message
  was handed to a running turn past none that waited before it (`SteeredPastNone`).
- *Door* (`DoorTypeCorrect`, `DoorIsExclusive`, `DoorKeepsAdmissionOrder`, `DoorTellsTruth`, `DoorSettlesCancels`). `DoorInv` has
  four parts. What a call's stage says of its commit and its result (`StagesKept`), from which what a
  call tells of its event is so, but for a read-back that failed. A task's count of requests is the sum of those not settled, the close's,
  the caller's and the deadline's, and of the close's second ones, which stay (`CancelsKept`): a call that ended leaves its
  caller's cancellation and a second cut counted, and no other. One call is inside and each waits in line once (`LockKept`).
  And whoever checks waits for every ticket taken before its own and still held, while nobody with a later
  ticket is at the lock (`AdmissionKept`); this is what makes the order of commits that of arrivals.
- *Locks* (`LocksTypeCorrect`, `LocksKeepOneSection`, `LocksCountUsers`). `OneSection` speaks of rooms and the code locks by
  object, so an eviction could give a room a second lock. `LocksInv` says why not: a room's count is the number of
  its users (`RefsKept`), a room that is evicted has none, and a user's lock is still the table's (`CallsKept`). The evicted
  table is built by a recursive function; `KeptExists` and `KeptIsKept` say what it is for every table, by the
  least number at which it would be otherwise.
- *Tasks* (`RunnerTypeCorrect`, `RunnerCompletesOnce`, `RunnerClosesEmpty`). `RunnerInv`: a task's end is with one of its work,
  a cancel, or the close, whoever took the entry of `_cancelled_ends` (`HoldKept`), so it is completed once; and a
  closed runner has completed all it was given. This is the safety of `EndsOnce`.
- *In-process backend* (`MemoryTypeCorrect`, `MemoryKeepsItems`). An item enqueued is in one of the queue, the flight and the
  delays, once (`Apart`), or was settled once (`ItemsKept`), through every close on a full queue: the
  safety of `SettlesOnce`. A stopped worker leaves nothing in flight (`WorkerKept`).
- *Kit* (`KitTypeCorrect`). A step of the sum is a step of one part, so it inherits every part's invariant.
- *Timers* (`TimersTypeCorrect`, `TimersPunctual`). `TimersInv`: what a section is about to write was due by the room
  it read, which its compare-and-set then compares (`AttemptSound`); the instants the timers run from are not behind the
  room's last activity (`ClocksKept`); and a close that was due when a section began is computed, written and seen by it (`OwedSeen`).
  `TimersPunctual` assumes that no errand sets the timers: `timers_retime` is why.

What stays with TLC is liveness, which this prover does not reach: `AdmitsAgain`, `NeverWedges`, `DoorDrains`, `TurnsEnd`, that
what `EndsOnce` and `SettlesOnce` say will end or be settled once is so in the end, and the fairness
of the promises in `KeepsPromise` and `CarriesTurn`. Every invariant and every action property that a passing run checks
has a theorem. The six runs that expect a counterexample state what the documentation says, and are not theorems.

## What is not modelled

In the parts that are:

- lanes: their idle retirement, their seal and cut at close, and the
  cancellation of a cascade (a cancelled entry still consumes its index, which `RunEnds` covers);
  greetings, which commit off the room lock; a re-entry pass of an answer, which is a commit like
  any other; the release of the claim failing. A read that fails before the claim is treated as a
  failed round;
- turns of a room: each line stands alone. A turn of one line whose tool waits for a turn of another line, which waits for
  one of the first in turn, is not seen: `TurnsEnd` is about one line;
- turns between processes: a channel's verbs, calls into the room and the work after a turn, which travel
  on the same lines; the in-memory backend, which has one process;
- door and close: the close's waits between its passes, which another room's work may end at any time; calls the room's own work adopts, which take no ticket and no run; cuts a nested call swallows; the work a
  close is called from, which it spares; cascades and background runs. What the gates, identity, routing and
  idempotency decide is an outcome;
- locks: hooks of nested calls, the PostgreSQL advisory lock, the key spaces;
- timers: the events, records and hooks of a transition, the sweep over all rooms, and calls that write the room's
  other fields. A call that rewrites a whole room from an older copy is what `timers_retime` is about, for one such call;
- tasks: how the outcome of a delegated task is computed and handed back.

The rest, as `PROJECT.json` lists it, is not modelled: media pipelines, providers and channels are data and
timing without a protocol between actors of ours; stores are SQL behind the compare-and-set
writes the models take as atomic; the rate limiter is arithmetic on a real clock; realtime events
are best effort by contract; orchestration decides from a room read under its lock; the delivery strategies choose
an instant from how idle a session is.

## Plan

What would add most, in order of importance:

1. The lanes' idle retirement, seal and cut (`core/lanes.py`), as actions of `DeliveryLane`, with the
   close of `RoomDoor`: no committed plan is left behind by a lane that retires while one is enqueued.
2. Adopted and nested calls across `RoomDoor` and `RoomLocks`: a composition in which a section's
   nested calls meet the close.
3. The writes of a room's other fields against greetings and timers, beyond `set_room_timers`.
