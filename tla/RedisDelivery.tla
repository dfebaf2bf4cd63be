--------------------------- MODULE RedisDelivery ---------------------------
(***************************************************************************)
(* The Redis Streams delivery backend (delivery/redis.py, its scripts in   *)
(* delivery/_redis_scripts.py) and the worker loops that drain it          *)
(* (delivery/worker.py): the stream and its consumer group, the delayed    *)
(* set and the dead letters on the server; in each worker the batch it     *)
(* claimed, executed one item at a time and settled by a script fenced by  *)
(* the ownership of the entry.                                             *)
(*                                                                         *)
(* A step is one call to the server, or what a worker does between two     *)
(* awaits.  The order of the stream is left open.                          *)
(***************************************************************************)
EXTENDS Integers, FiniteSets

CONSTANTS
    Items,       \* the delivery items
    Workers,     \* the worker loops, one per process
    NoWorker,    \* a value that is not a worker
    NoCopy,      \* a value that is not a copy of an item
    MaxRetries,  \* max_retries of the items
    BatchSize,   \* how many entries a dequeue takes
    MaxCrashes,  \* bound: how many workers stop (a crash, or close())
    MaxFaults,   \* bound: how many answers of the server are lost
    MaxStalls    \* bound: how many leases a live worker lets expire

ASSUME WorkersAssumption == NoWorker \notin Workers
ASSUME QueueBounds ==
    /\ MaxRetries \in Nat /\ BatchSize \in Nat \ {0}
    /\ MaxCrashes \in Nat /\ MaxFaults \in Nat /\ MaxStalls \in Nat

(* A copy is an entry's payload: the item with its retry_count. *)
Copies == Items \X (0 .. MaxRetries)

ASSUME CopiesAssumption == NoCopy \notin Copies

VARIABLES
    known,      \* the items that were enqueued
    stream,     \* the entries of the pending stream
    owner,      \* the consumer each entry is pending for (XPENDING), if any
    idle,       \* the pending entries idle for claim_idle_seconds
    delayed,    \* the delayed set
    deadLetter, \* the items on the dead-letter stream
    acked,      \* history: the items consumed by an ack
    mine,       \* each worker's _items and _entry_ids
    doing,      \* the entry each worker executes, then settles
    result,     \* its outcome: "none", "running", "sent", "failed", "refused"
    started,    \* history: how many executions of each item began, capped
    failed,     \* history: how many of them failed, capped
    refused,    \* history: the items with a failure not to be retried
    crashes, faults, stalls

server == <<stream, owner, idle, delayed, deadLetter, acked>>
worker == <<mine, doing, result>>
history == <<started, failed, refused>>
bounds == <<crashes, faults, stalls>>
vars == <<known, server, worker, history, bounds>>

Results == {"none", "running", "sent", "failed", "refused"}

TypeOK ==
    /\ known \in SUBSET Items
    /\ stream \in SUBSET Copies
    /\ owner \in [Copies -> Workers \cup {NoWorker}]
    /\ idle \in SUBSET Copies
    /\ delayed \in SUBSET Copies
    /\ deadLetter \in SUBSET Items
    /\ acked \in SUBSET Items
    /\ mine \in [Workers -> SUBSET Copies]
    /\ doing \in [Workers -> Copies \cup {NoCopy}]
    /\ result \in [Workers -> Results]
    /\ started \in [Items -> 0 .. MaxRetries + 2]
    /\ failed \in [Items -> 0 .. MaxRetries + 1]
    /\ refused \in SUBSET Items
    /\ crashes \in 0 .. MaxCrashes
    /\ faults \in 0 .. MaxFaults
    /\ stalls \in 0 .. MaxStalls

Init ==
    /\ known = {}
    /\ stream = {} /\ delayed = {} /\ idle = {}
    /\ owner = [c \in Copies |-> NoWorker]
    /\ deadLetter = {} /\ acked = {}
    /\ mine = [w \in Workers |-> {}]
    /\ doing = [w \in Workers |-> NoCopy]
    /\ result = [w \in Workers |-> "none"]
    /\ started = [i \in Items |-> 0] /\ failed = [i \in Items |-> 0]
    /\ refused = {}
    /\ crashes = 0 /\ faults = 0 /\ stalls = 0

Capped(n, max) == IF n < max THEN n ELSE max

Enqueue(i) ==
    /\ i \notin known
    /\ known' = known \cup {i}
    /\ stream' = stream \cup {<<i, 0>>}
    /\ UNCHANGED <<owner, idle, delayed, deadLetter, acked, worker, history, bounds>>

-----------------------------------------------------------------------------
(* dequeue: PROMOTE, then XAUTOCLAIM, then XREADGROUP.                     *)

Dequeues(w) == mine[w] = {}

Batches(S) == {B \in SUBSET S : B # {} /\ Cardinality(B) <= BatchSize}

(* PROMOTE: retries whose delay passed are queued again. *)
Promote(w) ==
    /\ Dequeues(w)
    /\ \E B \in Batches(delayed) :
         /\ stream' = stream \cup B
         /\ delayed' = delayed \ B
    /\ UNCHANGED <<known, owner, idle, deadLetter, acked, worker, history, bounds>>

(* The entries become w's on the server; in w too, unless the answer is    *)
(* lost on its way.                                                        *)
Takes(w, B) ==
    /\ owner' = [c \in Copies |-> IF c \in B THEN w ELSE owner[c]]
    /\ idle' = idle \ B
    /\ \/ mine' = [mine EXCEPT ![w] = B] /\ UNCHANGED faults
       \/ faults < MaxFaults /\ faults' = faults + 1 /\ UNCHANGED mine
    /\ UNCHANGED <<known, stream, delayed, deadLetter, acked, doing, result, history,
                   crashes, stalls>>

(* XAUTOCLAIM takes entries that were idle long enough, whoever's. *)
ClaimableAny == {c \in stream : owner[c] # NoWorker}  \* mutant: idle or not
ClaimableNever == {}                                  \* mutant: no reclaim
Claimable == idle
Claim(w) == Dequeues(w) /\ \E B \in Batches(Claimable) : Takes(w, B)

(* XREADGROUP takes entries the group never gave out. *)
Read(w) ==
    /\ Dequeues(w)
    /\ \E B \in Batches({c \in stream : owner[c] = NoWorker}) : Takes(w, B)

-----------------------------------------------------------------------------
(* run_worker_loop: each item of the batch is executed, then settled.      *)

Execute(w) ==
    /\ result[w] = "none"
    /\ \E c \in mine[w] :
         /\ doing' = [doing EXCEPT ![w] = c]
         /\ started' = [started EXCEPT ![c[1]] = Capped(@ + 1, MaxRetries + 2)]
    /\ result' = [result EXCEPT ![w] = "running"]
    /\ UNCHANGED <<known, server, mine, failed, refused, bounds>>

(* execute_delivery's outcome: consumed, to be retried, or not to be. *)
Ends(w) ==
    /\ result[w] = "running"
    /\ \E r \in {"sent", "failed", "refused"} :
         /\ result' = [result EXCEPT ![w] = r]
         /\ failed' = IF r = "failed"
                      THEN [failed EXCEPT ![doing[w][1]] = Capped(@ + 1, MaxRetries + 1)]
                      ELSE failed
         /\ refused' = IF r = "refused" THEN refused \cup {doing[w][1]} ELSE refused
    /\ UNCHANGED <<known, server, mine, doing, started, bounds>>

(* nack dead-letters an item that has no retry left. *)
ExhaustedEarly(c) == c[2] + 1 >= MaxRetries      \* mutant: one retry too few
ExhaustedLate(c) == c[2] > MaxRetries            \* mutant: one too many
Exhausted(c) == c[2] + 1 > MaxRetries

(* TRANSITION's fence: the entry is still pending for this consumer. *)
OwnsAnyway(w, c) == TRUE                         \* mutant: no fence
Owns(w, c) == owner[c] = w

(* The script, in one step: the replacement is added, the entry dropped. *)
Transition(w, c) ==
    LET item == c[1] IN
    IF ~Owns(w, c) THEN UNCHANGED server
    ELSE /\ stream' = stream \ {c}
         /\ owner' = [owner EXCEPT ![c] = NoWorker]
         /\ idle' = idle \ {c}
         /\ acked' = IF result[w] = "sent" THEN acked \cup {item} ELSE acked
         /\ delayed' = IF result[w] = "failed" /\ ~Exhausted(c)
                       THEN delayed \cup {<<item, c[2] + 1>>} ELSE delayed
         /\ deadLetter' = IF result[w] = "refused" \/ (result[w] = "failed" /\ Exhausted(c))
                          THEN deadLetter \cup {item} ELSE deadLetter

(* _settle_item: the entry is forgotten once the server has answered, and  *)
(* the same transition is tried again until it has.                        *)
Settle(w) ==
    /\ result[w] \in {"sent", "failed", "refused"}
    /\ Transition(w, doing[w])
    /\ mine' = [mine EXCEPT ![w] = @ \ {doing[w]}]
    /\ doing' = [doing EXCEPT ![w] = NoCopy]
    /\ result' = [result EXCEPT ![w] = "none"]
    /\ UNCHANGED <<known, history, bounds>>

SettleUnheard(w) ==
    /\ result[w] \in {"sent", "failed", "refused"}
    /\ faults < MaxFaults
    /\ faults' = faults + 1
    /\ Transition(w, doing[w])
    /\ UNCHANGED <<known, worker, history, crashes, stalls>>

-----------------------------------------------------------------------------
(* Leases.                                                                 *)

(* claim_idle_seconds pass without a renewal: at once for an entry no      *)
(* worker tracks, and when its renewals do not get through for one that is *)
(* tracked.                                                                *)
LeaseExpires(c) ==
    /\ owner[c] # NoWorker /\ c \notin idle
    /\ idle' = idle \cup {c}
    /\ IF c \in mine[owner[c]]
       THEN stalls < MaxStalls /\ stalls' = stalls + 1
       ELSE UNCHANGED stalls
    /\ UNCHANGED <<known, stream, owner, delayed, deadLetter, acked, worker, history,
                   crashes, faults>>

(* RENEW, with TRANSITION's fence. *)
Renew(w, c) ==
    /\ c \in mine[w] /\ owner[c] = w /\ c \in idle
    /\ idle' = idle \ {c}
    /\ UNCHANGED <<known, stream, owner, delayed, deadLetter, acked, worker, history, bounds>>

(* The worker stops: its batch stays pending on the server. *)
Crash(w) ==
    /\ crashes < MaxCrashes
    /\ crashes' = crashes + 1
    /\ mine' = [mine EXCEPT ![w] = {}]
    /\ doing' = [doing EXCEPT ![w] = NoCopy]
    /\ result' = [result EXCEPT ![w] = "none"]
    /\ UNCHANGED <<known, server, history, faults, stalls>>

Next ==
    \/ \E i \in Items : Enqueue(i)
    \/ \E w \in Workers :
         \/ Promote(w) \/ Claim(w) \/ Read(w)
         \/ Execute(w) \/ Ends(w) \/ Settle(w) \/ SettleUnheard(w)
         \/ Crash(w)
         \/ \E c \in Copies : Renew(w, c)
    \/ \E c \in Copies : LeaseExpires(c)

(* A worker's passes each promote, claim and read; an execution ends; time *)
(* makes an untracked entry idle.                                          *)
Fairness ==
    /\ SF_vars(\E w \in Workers : Promote(w))
    /\ SF_vars(\E w \in Workers : Claim(w))
    /\ SF_vars(\E w \in Workers : Read(w))
    /\ \A w \in Workers :
         WF_vars(Execute(w)) /\ WF_vars(Ends(w)) /\ WF_vars(Settle(w))
    /\ \A c \in Copies : WF_vars(LeaseExpires(c) /\ UNCHANGED stalls)

Spec == Init /\ [][Next]_vars
FairSpec == Spec /\ Fairness

-----------------------------------------------------------------------------
(* Where an enqueued item stands. *)
Live(i) == {c \in stream \cup delayed : c[1] = i}

(* An item is in one place, in one copy: whatever answers are lost, leases *)
(* expire or workers settle late, none is lost, queued twice, or comes     *)
(* back once it was consumed or dead-lettered.                             *)
OneCopy ==
    \A i \in known :
      /\ \A c, d \in Live(i) : c = d
      /\ stream \cap delayed \cap Live(i) = {}
      /\ Live(i) # {} <=> i \notin acked \cup deadLetter
      /\ i \notin acked \cap deadLetter

(* Retries are spent on failed attempts alone: a settlement made twice, by *)
(* a retry or by two workers, spends none, and an item is dead-lettered    *)
(* after its last retry failed, or was refused.                            *)
RetriesEarned ==
    /\ \A c \in stream \cup delayed : c[2] <= failed[c[1]]
    /\ \A i \in deadLetter : failed[i] > MaxRetries \/ i \in refused

(* Two workers hold an item at once only after a live worker's lease       *)
(* expired: neither a crash nor a lost answer shares it.                   *)
ExclusiveLease ==
    stalls = 0 => \A v, w \in Workers : v # w => mine[v] \cap mine[w] = {}

(* The inductive form of the three, in named parts.  An entry is pending   *)
(* only while it is in the stream.                                         *)
PendingQueued ==
    /\ \A c \in Copies : owner[c] # NoWorker => c \in stream
    /\ \A c \in idle : owner[c] # NoWorker

(* Nothing is queued, settled or held of an item not enqueued yet. *)
KnownOnly ==
    /\ \A c \in stream \cup delayed : c[1] \in known
    /\ acked \subseteq known /\ deadLetter \subseteq known
    /\ \A w \in Workers : \A c \in mine[w] : c[1] \in known

(* A worker settles what it holds, and by an outcome it had. *)
SettlesItsOwn ==
    \A w \in Workers :
      /\ result[w] # "none" => doing[w] \in mine[w] /\ started[doing[w][1]] > 0
      /\ \A c \in mine[w] : c[2] <= failed[c[1]]
      /\ result[w] = "failed" => doing[w][2] < failed[doing[w][1]]
      /\ result[w] = "refused" => doing[w][1] \in refused

(* No item is settled for good unattempted. *)
AttemptedFirst == \A i \in acked \cup deadLetter : started[i] > 0

(* The copy was settled: its item is consumed, dead, or a later copy. *)
Gone(c) == \A d \in stream \cup delayed : d[1] = c[1] => d[2] > c[2]

(* No lease of a live worker expired: an item it holds is pending for it,  *)
(* or was settled already.                                                 *)
Leased ==
    stalls = 0 => \A w \in Workers : \A c \in mine[w] :
                    (owner[c] = w /\ c \notin idle) \/ Gone(c)

QueueInv ==
    /\ TypeOK /\ PendingQueued /\ KnownOnly /\ OneCopy
    /\ RetriesEarned /\ SettlesItsOwn /\ AttemptedFirst
    /\ Leased /\ ExclusiveLease

(* The persistent queue's promise, liveness included: each item enqueued   *)
(* is attempted and settled for good, through crashes, lost answers and    *)
(* expired leases.                                                         *)
Status(i) ==
    CASE i \in acked -> "consumed"
      [] i \in deadLetter -> "dead"
      [] Live(i) # {} -> "queued"
      [] OTHER -> "absent"

Promise == INSTANCE DurableQueue WITH
             status <- [i \in Items |-> Status(i)],
             attempted <- {i \in Items : started[i] > 0}

KeepsPromise == Promise!FairSpec

(* delivery/base.py, of max_retries: "3 means four attempts at most".      *)
AttemptsBounded == \A i \in Items : started[i] <= MaxRetries + 1
=============================================================================
