------------------------ MODULE RedisDeliveryProofs ------------------------
(***************************************************************************)
(* Proofs about RedisDelivery: its types, that an item is in one place and *)
(* in one copy, that retries are spent on failed attempts alone, and that  *)
(* a lease which did not expire is exclusive, for all sets of items and    *)
(* workers and all bounds.                                                 *)
(*                                                                         *)
(* QueueInv is inductive.  OneCopy alone is not: that a settlement which   *)
(* passes the fence replaces a queued copy needs PendingQueued, and that   *)
(* an item enqueued is nowhere yet needs KnownOnly.  RetriesEarned needs   *)
(* what a worker knows of the failure it settles (SettlesItsOwn), and      *)
(* ExclusiveLease that what a worker holds is pending for it or settled    *)
(* for good (Leased).  There is one lemma per action, one step per part.   *)
(* From it, that every step is one of DurableQueue's or a stutter.         *)
(***************************************************************************)
EXTENDS RedisDelivery, TLAPS

(* Initially nothing is enqueued, held or settled. *)
LEMMA InitQueue == Init => QueueInv
<1> SUFFICES ASSUME Init PROVE QueueInv
  OBVIOUS
<1>1. TypeOK
  BY QueueBounds DEF Init, TypeOK, Results
<1>2. PendingQueued
  BY DEF Init, PendingQueued
<1>3. KnownOnly
  BY DEF Init, KnownOnly
<1>4. OneCopy
  BY DEF Init, OneCopy
<1>5. RetriesEarned
  BY DEF Init, RetriesEarned
<1>6. SettlesItsOwn
  BY DEF Init, SettlesItsOwn
<1>7. AttemptedFirst
  BY DEF Init, AttemptedFirst
<1>8. Leased
  BY DEF Init, Leased
<1>9. ExclusiveLease
  BY DEF Init, ExclusiveLease
<1> QED BY <1>1, <1>2, <1>3, <1>4, <1>5, <1>6, <1>7, <1>8, <1>9 DEF QueueInv

-----------------------------------------------------------------------------
(* OneCopy across an enqueue: no copy of the item existed. *)
LEMMA EnqueueOneCopy == ASSUME QueueInv, NEW i \in Items, Enqueue(i) PROVE OneCopy'
<1> SUFFICES ASSUME NEW j \in known' PROVE
      /\ \A c, d \in Live(j)' : c = d
      /\ stream' \cap delayed' \cap Live(j)' = {}
      /\ Live(j)' # {} <=> j \notin (acked \cup deadLetter)'
      /\ j \notin (acked \cap deadLetter)'
  BY DEF OneCopy
<1>1. CASE j = i
  <2>1. Live(i) = {} /\ i \notin acked \cup deadLetter
    BY DEF QueueInv, KnownOnly, Enqueue, Live
  <2>2. Live(i)' = {<<i, 0>>}
    BY <2>1 DEF Live, Enqueue
  <2>3. <<i, 0>> \notin delayed
    BY <2>1 DEF Live
  <2> QED BY <1>1, <2>1, <2>2, <2>3 DEF Enqueue
<1>2. CASE j # i
  <2>1. j \in known /\ Live(j)' = Live(j)
    BY <1>2 DEF Live, Enqueue
  <2>2. stream' \cap Live(j) = stream \cap Live(j)
    BY <1>2 DEF Live, Enqueue
  <2> QED BY <2>1, <2>2 DEF QueueInv, OneCopy, Enqueue
<1> QED BY <1>1, <1>2


(* The settlement of an owned entry replaces the one copy of its item. *)
LEMMA SettledLive ==
  ASSUME QueueInv, NEW w \in Workers, NEW c \in Copies, Owns(w, c), Transition(w, c),
         result[w] \in {"sent", "failed", "refused"}
  PROVE  /\ Live(c[1]) = {c}
         /\ Live(c[1])' = IF result[w] = "failed" /\ ~Exhausted(c) THEN {<<c[1], c[2] + 1>>} ELSE {}
         /\ \A j \in Items \ {c[1]} : Live(j)' = Live(j)
<1>1. c \in stream /\ c \in Live(c[1]) /\ c[1] \in known
  BY WorkersAssumption DEF QueueInv, PendingQueued, KnownOnly, Owns, Live
<1>2. Live(c[1]) = {c}
  BY <1>1 DEF QueueInv, OneCopy
<1>3. c \notin delayed
  BY <1>1 DEF QueueInv, OneCopy
<1>4. c[2] + 1 # c[2] /\ <<c[1], c[2] + 1>> # c
  BY QueueBounds DEF Copies
<1>5. Live(c[1])' = IF result[w] = "failed" /\ ~Exhausted(c) THEN {<<c[1], c[2] + 1>>} ELSE {}
  BY <1>2, <1>3, <1>4 DEF Live, Transition
<1>6. \A j \in Items \ {c[1]} : Live(j)' = Live(j)
  BY <1>1, <1>4 DEF Live, Transition
<1> QED BY <1>2, <1>5, <1>6

LEMMA TransitionOneCopy ==
  ASSUME QueueInv, NEW w \in Workers, NEW c \in Copies, Transition(w, c),
         result[w] \in {"sent", "failed", "refused"}, UNCHANGED known
  PROVE  OneCopy'
<1>1. CASE ~Owns(w, c)
  BY <1>1 DEF QueueInv, OneCopy, Transition, server, Live
<1>2. CASE Owns(w, c)
  <2>1. /\ Live(c[1]) = {c}
        /\ Live(c[1])' = IF result[w] = "failed" /\ ~Exhausted(c)
                         THEN {<<c[1], c[2] + 1>>} ELSE {}
        /\ \A j \in Items \ {c[1]} : Live(j)' = Live(j)
    BY <1>2, SettledLive
  <2>2. c \in stream /\ c[1] \in known /\ c[1] \in Items
    BY <1>2, WorkersAssumption DEF QueueInv, PendingQueued, KnownOnly, Owns, Copies
  <2>3. c[1] \notin acked \cup deadLetter
    BY <2>1, <2>2 DEF QueueInv, OneCopy
  <2> SUFFICES ASSUME NEW j \in known PROVE
        /\ \A d, e \in Live(j)' : d = e
        /\ stream' \cap delayed' \cap Live(j)' = {}
        /\ Live(j)' # {} <=> j \notin (acked \cup deadLetter)'
        /\ j \notin (acked \cap deadLetter)'
    BY DEF OneCopy
  <2>4. CASE j = c[1]
    <3>1. \A d, e \in Live(j)' : d = e
      BY <2>1, <2>4
    <3>2. stream' \cap delayed' \cap Live(j)' = {}
      <4>1. c \notin stream'
        BY <1>2 DEF Transition
      <4>2. stream' \cap Live(j) = {} /\ stream' \subseteq stream
        BY <1>2, <2>1, <2>4, <4>1 DEF Transition
      <4> QED BY <2>4, <4>2 DEF Live
    <3>3. /\ Live(j)' # {} <=> j \notin (acked \cup deadLetter)'
          /\ j \notin (acked \cap deadLetter)'
      BY <1>2, <2>1, <2>3, <2>4 DEF Transition
    <3> QED BY <3>1, <3>2, <3>3
  <2>5. CASE j # c[1]
    <3>1. j \in Items /\ Live(j)' = Live(j)
      BY <2>1, <2>5 DEF QueueInv, TypeOK
    <3>2. stream' \subseteq stream /\ delayed' \cap Live(j) \subseteq delayed
      BY <1>2, <2>5 DEF Transition, Live
    <3>3. /\ j \in acked' <=> j \in acked
          /\ j \in deadLetter' <=> j \in deadLetter
      BY <1>2, <2>5 DEF Transition
    <3> QED BY <3>1, <3>2, <3>3 DEF QueueInv, OneCopy
  <2> QED BY <2>4, <2>5
<1> QED BY <1>1, <1>2

-----------------------------------------------------------------------------
(* A new item is queued: nothing else of it exists. *)
LEMMA EnqueueQueue == ASSUME QueueInv, NEW i \in Items, Enqueue(i) PROVE QueueInv'
<1>1. TypeOK'
  BY QueueBounds DEF QueueInv, TypeOK, Enqueue, Copies, worker, history,
     bounds
<1>2. PendingQueued'
  BY DEF QueueInv, PendingQueued, Enqueue
<1>3. KnownOnly'
  BY DEF QueueInv, KnownOnly, Enqueue, worker
<1>4. OneCopy'
  BY EnqueueOneCopy
<1>5. RetriesEarned'
  BY DEF QueueInv, TypeOK, RetriesEarned, Enqueue, history
<1>6. SettlesItsOwn'
  BY DEF QueueInv, SettlesItsOwn, Enqueue, worker, history
<1>7. AttemptedFirst'
  BY DEF QueueInv, AttemptedFirst, Enqueue, history
<1>8. Leased'
  BY DEF QueueInv, KnownOnly, Leased, Gone, Enqueue, worker, bounds
<1>9. ExclusiveLease'
  BY DEF QueueInv, ExclusiveLease, Enqueue, worker, bounds
<1> QED BY <1>1, <1>2, <1>3, <1>4, <1>5, <1>6, <1>7, <1>8, <1>9 DEF QueueInv

(* A retry that is due moves from the delayed set to the stream. *)
LEMMA PromoteQueue == ASSUME QueueInv, NEW w \in Workers, Promote(w) PROVE QueueInv'
<1>1. TypeOK'
  BY DEF QueueInv, TypeOK, Promote, Batches, worker, history, bounds
<1>2. PendingQueued'
  BY DEF QueueInv, PendingQueued, Promote
<1>3. KnownOnly'
  BY DEF QueueInv, KnownOnly, Promote, Batches, worker
<1>4. OneCopy'
  BY DEF QueueInv, OneCopy, Live, Promote, Batches
<1>5. RetriesEarned'
  BY DEF QueueInv, RetriesEarned, Promote, Batches, history
<1>6. SettlesItsOwn'
  BY DEF QueueInv, SettlesItsOwn, Promote, worker, history
<1>7. AttemptedFirst'
  BY DEF QueueInv, AttemptedFirst, Promote, history
<1>8. Leased'
  BY DEF QueueInv, Leased, Gone, Promote, Batches, worker, bounds
<1>9. ExclusiveLease'
  BY DEF QueueInv, ExclusiveLease, Promote, worker, bounds
<1> QED BY <1>1, <1>2, <1>3, <1>4, <1>5, <1>6, <1>7, <1>8, <1>9 DEF QueueInv

(* A claim or a read gives entries to a worker, which holds nothing. *)
LEMMA TakesQueue ==
  ASSUME QueueInv, NEW w \in Workers, NEW B \in SUBSET stream,
         \A c \in B : c \in idle \/ owner[c] = NoWorker,
         mine[w] = {}, Takes(w, B)
  PROVE  QueueInv'
<1>1. TypeOK'
  BY QueueBounds DEF QueueInv, TypeOK, Takes, history
<1>2. PendingQueued'
  BY DEF QueueInv, TypeOK, PendingQueued, Takes
<1>3. KnownOnly'
  BY DEF QueueInv, TypeOK, KnownOnly, Takes
<1>4. OneCopy'
  BY DEF QueueInv, OneCopy, Live, Takes
<1>5. RetriesEarned'
  BY DEF QueueInv, RetriesEarned, Takes, history
<1>6. SettlesItsOwn'
  BY DEF QueueInv, TypeOK, RetriesEarned, SettlesItsOwn, Takes, history
<1>7. AttemptedFirst'
  BY DEF QueueInv, AttemptedFirst, Takes, history
<1>8. Leased'
  BY WorkersAssumption DEF QueueInv, TypeOK, Leased, Gone, Takes
<1>9. ExclusiveLease'
  BY WorkersAssumption, CopiesAssumption DEF QueueInv, TypeOK, Leased,
     ExclusiveLease, Gone, Takes, Copies
<1> QED BY <1>1, <1>2, <1>3, <1>4, <1>5, <1>6, <1>7, <1>8, <1>9 DEF QueueInv

(* A worker begins the execution of an entry of its batch. *)
LEMMA ExecuteQueue == ASSUME QueueInv, NEW w \in Workers, Execute(w) PROVE QueueInv'
<1>1. TypeOK'
  BY QueueBounds DEF QueueInv, TypeOK, Execute, Capped, Results, Copies,
     server, bounds
<1>2. PendingQueued'
  BY DEF QueueInv, PendingQueued, Execute, server
<1>3. KnownOnly'
  BY DEF QueueInv, KnownOnly, Execute, server
<1>4. OneCopy'
  BY DEF QueueInv, OneCopy, Live, Execute, server
<1>5. RetriesEarned'
  BY DEF QueueInv, RetriesEarned, Execute, server
<1>6. SettlesItsOwn'
  BY QueueBounds DEF QueueInv, TypeOK, SettlesItsOwn, Execute, Capped,
     Copies
<1>7. AttemptedFirst'
  BY QueueBounds DEF QueueInv, TypeOK, AttemptedFirst, Execute, Capped,
     server
<1>8. Leased'
  BY DEF QueueInv, Leased, Gone, Execute, server, bounds
<1>9. ExclusiveLease'
  BY DEF QueueInv, ExclusiveLease, Execute, bounds
<1> QED BY <1>1, <1>2, <1>3, <1>4, <1>5, <1>6, <1>7, <1>8, <1>9 DEF QueueInv

(* An execution ends: the failure it may be counts for the copy. *)
LEMMA EndsQueue == ASSUME QueueInv, NEW w \in Workers, Ends(w) PROVE QueueInv'
<1>1. TypeOK'
  BY QueueBounds DEF QueueInv, TypeOK, SettlesItsOwn, Ends, Capped, Results,
     Copies, server, bounds
<1>2. PendingQueued'
  BY DEF QueueInv, PendingQueued, Ends, server
<1>3. KnownOnly'
  BY DEF QueueInv, KnownOnly, Ends, server
<1>4. OneCopy'
  BY DEF QueueInv, OneCopy, Live, Ends, server
<1>5. RetriesEarned'
  BY QueueBounds DEF QueueInv, TypeOK, RetriesEarned, Ends, Capped, Copies,
     server
<1>6. SettlesItsOwn'
  BY QueueBounds DEF QueueInv, TypeOK, SettlesItsOwn, Ends, Capped, Copies
<1>7. AttemptedFirst'
  BY DEF QueueInv, AttemptedFirst, Ends, server
<1>8. Leased'
  BY DEF QueueInv, Leased, Gone, Ends, server, bounds
<1>9. ExclusiveLease'
  BY DEF QueueInv, ExclusiveLease, Ends, bounds
<1> QED BY <1>1, <1>2, <1>3, <1>4, <1>5, <1>6, <1>7, <1>8, <1>9 DEF QueueInv

(* A settlement whose answer arrives: the entry is forgotten. *)
LEMMA SettleQueue == ASSUME QueueInv, NEW w \in Workers, Settle(w) PROVE QueueInv'
<1>1. TypeOK'
  BY QueueBounds DEF QueueInv, TypeOK, SettlesItsOwn, Settle, Transition,
     Exhausted, Results, Copies, server, history, bounds
<1>2. PendingQueued'
  BY DEF QueueInv, TypeOK, PendingQueued, Settle, Transition, server
<1>3. KnownOnly'
  BY DEF QueueInv, KnownOnly, SettlesItsOwn, Settle, Transition, server
<1>4. OneCopy'
  <2>1. doing[w] \in Copies
    BY DEF QueueInv, TypeOK, SettlesItsOwn, Settle
  <2> QED BY <2>1, TransitionOneCopy DEF Settle
<1>5. RetriesEarned'
  BY QueueBounds DEF QueueInv, TypeOK, RetriesEarned, SettlesItsOwn, Settle,
     Transition, Exhausted, Copies, server, history
<1>6. SettlesItsOwn'
  BY DEF QueueInv, TypeOK, SettlesItsOwn, Settle, history
<1>7. AttemptedFirst'
  BY DEF QueueInv, SettlesItsOwn, AttemptedFirst, Settle, Transition,
     server, history
<1>8. Leased'
  BY WorkersAssumption DEF QueueInv, TypeOK, PendingQueued, SettlesItsOwn,
     Leased, Gone, Settle, Transition, Owns, Copies, server, bounds
<1>9. ExclusiveLease'
  BY DEF QueueInv, ExclusiveLease, Settle, bounds
<1> QED BY <1>1, <1>2, <1>3, <1>4, <1>5, <1>6, <1>7, <1>8, <1>9 DEF QueueInv

(* A settlement whose answer is lost: the worker will settle again. *)
LEMMA SettleUnheardQueue == ASSUME QueueInv, NEW w \in Workers, SettleUnheard(w) PROVE QueueInv'
<1>1. TypeOK'
  BY QueueBounds DEF QueueInv, TypeOK, SettlesItsOwn, SettleUnheard,
     Transition, Exhausted, Copies, server, worker, history
<1>2. PendingQueued'
  BY DEF QueueInv, TypeOK, PendingQueued, SettleUnheard, Transition, server
<1>3. KnownOnly'
  BY DEF QueueInv, KnownOnly, SettlesItsOwn, SettleUnheard, Transition,
     server, worker
<1>4. OneCopy'
  <2>1. doing[w] \in Copies
    BY DEF QueueInv, TypeOK, SettlesItsOwn, SettleUnheard
  <2> QED BY <2>1, TransitionOneCopy DEF SettleUnheard
<1>5. RetriesEarned'
  BY QueueBounds DEF QueueInv, TypeOK, RetriesEarned, SettlesItsOwn,
     SettleUnheard, Transition, Exhausted, Copies, server, history
<1>6. SettlesItsOwn'
  BY DEF QueueInv, SettlesItsOwn, SettleUnheard, worker, history
<1>7. AttemptedFirst'
  BY DEF QueueInv, SettlesItsOwn, AttemptedFirst, SettleUnheard, Transition,
     server, history
<1>8. Leased'
  BY WorkersAssumption DEF QueueInv, TypeOK, PendingQueued, KnownOnly,
     OneCopy, SettlesItsOwn, Leased, Live, Gone, SettleUnheard, Transition,
     Owns, Copies, server, worker
<1>9. ExclusiveLease'
  BY DEF QueueInv, ExclusiveLease, SettleUnheard, worker
<1> QED BY <1>1, <1>2, <1>3, <1>4, <1>5, <1>6, <1>7, <1>8, <1>9 DEF QueueInv

(* An entry is idle long enough to be claimed. *)
LEMMA LeaseExpiresQueue == ASSUME QueueInv, NEW c \in Copies, LeaseExpires(c) PROVE QueueInv'
<1>1. TypeOK'
  BY QueueBounds DEF QueueInv, TypeOK, LeaseExpires, worker, history
<1>2. PendingQueued'
  BY DEF QueueInv, PendingQueued, LeaseExpires
<1>3. KnownOnly'
  BY DEF QueueInv, KnownOnly, LeaseExpires, worker
<1>4. OneCopy'
  BY DEF QueueInv, OneCopy, Live, LeaseExpires
<1>5. RetriesEarned'
  BY DEF QueueInv, RetriesEarned, LeaseExpires, history
<1>6. SettlesItsOwn'
  BY DEF QueueInv, SettlesItsOwn, LeaseExpires, worker, history
<1>7. AttemptedFirst'
  BY DEF QueueInv, AttemptedFirst, LeaseExpires, history
<1>8. Leased'
  BY DEF QueueInv, TypeOK, Leased, Gone, LeaseExpires, worker
<1>9. ExclusiveLease'
  BY DEF QueueInv, TypeOK, ExclusiveLease, LeaseExpires, worker
<1> QED BY <1>1, <1>2, <1>3, <1>4, <1>5, <1>6, <1>7, <1>8, <1>9 DEF QueueInv

(* A worker renews what is pending for it. *)
LEMMA RenewQueue == ASSUME QueueInv, NEW w \in Workers, NEW c \in Copies, Renew(w, c) PROVE QueueInv'
<1>1. TypeOK'
  BY DEF QueueInv, TypeOK, Renew, worker, history, bounds
<1>2. PendingQueued'
  BY DEF QueueInv, PendingQueued, Renew
<1>3. KnownOnly'
  BY DEF QueueInv, KnownOnly, Renew, worker
<1>4. OneCopy'
  BY DEF QueueInv, OneCopy, Live, Renew
<1>5. RetriesEarned'
  BY DEF QueueInv, RetriesEarned, Renew, history
<1>6. SettlesItsOwn'
  BY DEF QueueInv, SettlesItsOwn, Renew, worker, history
<1>7. AttemptedFirst'
  BY DEF QueueInv, AttemptedFirst, Renew, history
<1>8. Leased'
  BY DEF QueueInv, Leased, Gone, Renew, worker, bounds
<1>9. ExclusiveLease'
  BY DEF QueueInv, ExclusiveLease, Renew, worker, bounds
<1> QED BY <1>1, <1>2, <1>3, <1>4, <1>5, <1>6, <1>7, <1>8, <1>9 DEF QueueInv

(* A worker stops: what it held stays pending. *)
LEMMA CrashQueue == ASSUME QueueInv, NEW w \in Workers, Crash(w) PROVE QueueInv'
<1>1. TypeOK'
  BY QueueBounds DEF QueueInv, TypeOK, Crash, Results, server, history
<1>2. PendingQueued'
  BY DEF QueueInv, PendingQueued, Crash, server
<1>3. KnownOnly'
  BY DEF QueueInv, KnownOnly, Crash, server
<1>4. OneCopy'
  BY DEF QueueInv, OneCopy, Live, Crash, server
<1>5. RetriesEarned'
  BY DEF QueueInv, RetriesEarned, Crash, server, history
<1>6. SettlesItsOwn'
  BY DEF QueueInv, TypeOK, SettlesItsOwn, Crash, history
<1>7. AttemptedFirst'
  BY DEF QueueInv, AttemptedFirst, Crash, server, history
<1>8. Leased'
  BY DEF QueueInv, Leased, Gone, Crash, server
<1>9. ExclusiveLease'
  BY DEF QueueInv, ExclusiveLease, Crash
<1> QED BY <1>1, <1>2, <1>3, <1>4, <1>5, <1>6, <1>7, <1>8, <1>9 DEF QueueInv

-----------------------------------------------------------------------------
(* Every step of the queue and its workers preserves the invariant. *)
LEMMA NextQueue == QueueInv /\ [Next]_vars => QueueInv'
<1> SUFFICES ASSUME QueueInv, [Next]_vars PROVE QueueInv'
  OBVIOUS
<1>1. ASSUME NEW i \in Items, Enqueue(i) PROVE QueueInv'
  BY <1>1, EnqueueQueue
<1>2. ASSUME NEW w \in Workers, Promote(w) PROVE QueueInv'
  BY <1>2, PromoteQueue
<1>3. ASSUME NEW w \in Workers, Claim(w) PROVE QueueInv'
  <2>1. PICK B \in Batches(Claimable) : Takes(w, B)
    BY <1>3 DEF Claim
  <2>2. idle \subseteq stream
    BY DEF QueueInv, TypeOK, PendingQueued
  <2>3. B \in SUBSET stream /\ \A c \in B : c \in idle
    BY <2>2 DEF Batches, Claimable
  <2> QED BY <1>3, <2>1, <2>3, TakesQueue DEF Claim, Dequeues
<1>4. ASSUME NEW w \in Workers, Read(w) PROVE QueueInv'
  <2>1. PICK B \in Batches({c \in stream : owner[c] = NoWorker}) : Takes(w, B)
    BY <1>4 DEF Read
  <2>2. B \in SUBSET stream /\ \A c \in B : owner[c] = NoWorker
    BY DEF Batches
  <2> QED BY <1>4, <2>1, <2>2, TakesQueue DEF Read, Dequeues
<1>5. ASSUME NEW w \in Workers, Execute(w) PROVE QueueInv'
  BY <1>5, ExecuteQueue
<1>6. ASSUME NEW w \in Workers, Ends(w) PROVE QueueInv'
  BY <1>6, EndsQueue
<1>7. ASSUME NEW w \in Workers, Settle(w) PROVE QueueInv'
  BY <1>7, SettleQueue
<1>8. ASSUME NEW w \in Workers, SettleUnheard(w) PROVE QueueInv'
  BY <1>8, SettleUnheardQueue
<1>9. ASSUME NEW w \in Workers, Crash(w) PROVE QueueInv'
  BY <1>9, CrashQueue
<1>10. ASSUME NEW w \in Workers, NEW c \in Copies, Renew(w, c) PROVE QueueInv'
  BY <1>10, RenewQueue
<1>11. ASSUME NEW c \in Copies, LeaseExpires(c) PROVE QueueInv'
  BY <1>11, LeaseExpiresQueue
<1>12. CASE UNCHANGED vars
  BY <1>12 DEF QueueInv, TypeOK, PendingQueued, KnownOnly, OneCopy, RetriesEarned,
               SettlesItsOwn, AttemptedFirst, Leased, ExclusiveLease, Live, Gone, vars, server,
               worker, history, bounds
<1> QED
  BY <1>1, <1>2, <1>3, <1>4, <1>5, <1>6, <1>7, <1>8, <1>9, <1>10, <1>11, <1>12 DEF Next

(* The inductive invariant: what the queue keeps of its items through lost *)
(* answers, expired leases, late settlements and stopped workers.          *)
THEOREM QueueInvariant == Spec => []QueueInv
  BY InitQueue, NextQueue, PTL DEF Spec

(* The queue's state and its workers' keep their types. *)
THEOREM QueueTypeCorrect == Spec => []TypeOK
<1>1. QueueInv => TypeOK
  BY DEF QueueInv
<1> QED BY <1>1, QueueInvariant, PTL

(* The fence of TRANSITION and the atomicity of the scripts are enough: an *)
(* enqueued item is queued in one copy, or consumed, or dead-lettered.     *)
THEOREM QueueOneCopy == Spec => []OneCopy
<1>1. QueueInv => OneCopy
  BY DEF QueueInv
<1> QED BY <1>1, QueueInvariant, PTL

(* A settlement made twice, by its worker or by the one that took the      *)
(* entry over, spends no retry, and only a spent or refused item is dead.  *)
THEOREM QueueRetriesEarned == Spec => []RetriesEarned
<1>1. QueueInv => RetriesEarned
  BY DEF QueueInv
<1> QED BY <1>1, QueueInvariant, PTL

(* While no live worker's lease expired, two workers never hold an item.   *)
THEOREM QueueExclusiveLease == Spec => []ExclusiveLease
<1>1. QueueInv => ExclusiveLease
  BY DEF QueueInv
<1> QED BY <1>1, QueueInvariant, PTL
-----------------------------------------------------------------------------
(* The refinement: what a step does to the abstract queue. *)

(* A step that queues and settles nothing, and begins no first attempt.    *)
LEMMA QueueStutters ==
  ASSUME UNCHANGED <<acked, deadLetter>>,
         \A i \in Items : Live(i)' = {} <=> Live(i) = {},
         \A i \in Items : started'[i] > 0 <=> started[i] > 0
  PROVE  UNCHANGED Promise!queue
<1>1. \A i \in Items : Status(i)' = Status(i)
  BY DEF Status
<1>2. [i \in Items |-> Status(i)]' = [i \in Items |-> Status(i)]
  BY <1>1
<1>3. {i \in Items : started[i] > 0}' = {i \in Items : started[i] > 0}
  OBVIOUS
<1> QED BY <1>2, <1>3 DEF Promise!queue

(* An item enqueued is enqueued in the abstract queue. *)
LEMMA EnqueueRefines ==
  ASSUME QueueInv, NEW i \in Items, Enqueue(i) PROVE Promise!Enqueue(i)
<1>1. Live(i) = {} /\ i \notin acked \cup deadLetter
  BY DEF QueueInv, KnownOnly, Enqueue, Live
<1>2. <<i, 0>> \in Live(i)'
  BY DEF Live, Enqueue
<1>3. Status(i) = "absent" /\ Status(i)' = "queued"
  BY <1>1, <1>2 DEF Status, Enqueue
<1>4. \A j \in Items \ {i} : Live(j)' = Live(j)
  BY DEF Live, Enqueue
<1>5. \A j \in Items \ {i} : Status(j)' = Status(j)
  BY <1>4 DEF Status, Enqueue
<1>6. UNCHANGED started
  BY DEF Enqueue, history
<1> QED BY <1>3, <1>5, <1>6 DEF Promise!Enqueue

(* The first execution of an item is its attempt. *)
LEMMA ExecuteRefines ==
  ASSUME QueueInv, NEW w \in Workers, Execute(w)
  PROVE  Promise!Next \/ UNCHANGED Promise!queue
<1>1. PICK c \in mine[w] : started' = [started EXCEPT ![c[1]] = Capped(@ + 1, MaxRetries + 2)]
  BY DEF Execute
<1>2. c[1] \in Items /\ c[1] \in known /\ started[c[1]] \in Nat
  BY DEF QueueInv, TypeOK, KnownOnly, Copies
<1>3. \A i \in Items : i # c[1] => started'[i] = started[i]
  BY <1>1 DEF QueueInv, TypeOK
<1>4. started'[c[1]] > 0
  BY <1>1, <1>2, QueueBounds DEF QueueInv, TypeOK, Capped
<1>5. UNCHANGED <<acked, deadLetter>> /\ \A i \in Items : Live(i)' = Live(i)
  BY DEF Execute, server, Live
<1>6. \A i \in Items : Status(i)' = Status(i)
  BY <1>5 DEF Status
<1>7. CASE started[c[1]] > 0
  BY <1>3, <1>4, <1>5, <1>7, QueueStutters
<1>8. CASE ~(started[c[1]] > 0)
  <2>1. Status(c[1]) = "queued"
    BY <1>2, <1>8 DEF QueueInv, AttemptedFirst, OneCopy, Status
  <2>2. {i \in Items : started[i] > 0}' = {i \in Items : started[i] > 0} \cup {c[1]}
    BY <1>2, <1>3, <1>4
  <2>3. Promise!Attempt(c[1])
    BY <1>2, <1>6, <1>8, <2>1, <2>2 DEF Promise!Attempt
  <2> QED BY <1>2, <2>3 DEF Promise!Next
<1> QED BY <1>7, <1>8

(* The settlement, heard of or not: of the queued item, or of none. *)
LEMMA TransitionRefines ==
  ASSUME QueueInv, NEW w \in Workers, Transition(w, doing[w]),
         result[w] \in {"sent", "failed", "refused"}, UNCHANGED started
  PROVE  Promise!Next \/ UNCHANGED Promise!queue
<1>1. PICK c \in Copies : c = doing[w] /\ c[1] \in Items /\ started[c[1]] > 0
  BY DEF QueueInv, TypeOK, SettlesItsOwn, Copies
<1>2. CASE ~Owns(w, c)
  BY <1>1, <1>2, QueueStutters DEF Transition, server, Live
<1>3. CASE Owns(w, c)
  <2>1. /\ Live(c[1]) = {c}
        /\ Live(c[1])' = IF result[w] = "failed" /\ ~Exhausted(c)
                         THEN {<<c[1], c[2] + 1>>} ELSE {}
        /\ \A j \in Items \ {c[1]} : Live(j)' = Live(j)
    BY <1>1, <1>3, SettledLive
  <2>2. c \in stream /\ c[1] \in known
    BY <1>1, <1>3, WorkersAssumption DEF QueueInv, PendingQueued, KnownOnly, Owns
  <2>3. c[1] \notin acked \cup deadLetter
    BY <2>1, <2>2 DEF QueueInv, OneCopy
  <2>4. CASE result[w] = "failed" /\ ~Exhausted(c)
    <3>1. UNCHANGED <<acked, deadLetter>>
      BY <1>1, <1>3, <2>4 DEF Transition
    <3>2. \A i \in Items : Live(i)' = {} <=> Live(i) = {}
      BY <2>1, <2>4
    <3> QED BY <3>1, <3>2, QueueStutters
  <2>5. CASE ~(result[w] = "failed" /\ ~Exhausted(c))
    <3>1. \/ acked' = acked \cup {c[1]} /\ deadLetter' = deadLetter
          \/ deadLetter' = deadLetter \cup {c[1]} /\ acked' = acked
      BY <1>1, <1>3, <2>5 DEF Transition
    <3>2. Status(c[1]) = "queued" /\ Status(c[1])' \in {"consumed", "dead"}
      <4>1. Live(c[1]) # {} /\ Live(c[1])' = {}
        BY <2>1, <2>5
      <4>2. Status(c[1]) = "queued"
        BY <2>3, <4>1 DEF Status
      <4>3. CASE c[1] \in acked' /\ c[1] \notin deadLetter'
        BY <4>1, <4>2, <4>3 DEF Status
      <4>4. CASE c[1] \in deadLetter' /\ c[1] \notin acked'
        BY <4>1, <4>2, <4>4 DEF Status
      <4> QED BY <2>3, <3>1, <4>3, <4>4
    <3>3. \A j \in Items \ {c[1]} : Status(j)' = Status(j)
      BY <2>1, <3>1 DEF Status
    <3>4. Promise!Settle(c[1])
      BY <1>1, <3>2, <3>3 DEF Promise!Settle
    <3> QED BY <1>1, <3>4 DEF Promise!Next
  <2> QED BY <2>4, <2>5
<1> QED BY <1>2, <1>3

(* Every step is a step of the abstract queue, or none. *)
LEMMA StepRefines == QueueInv /\ [Next]_vars => [Promise!Next]_Promise!queue
<1> SUFFICES ASSUME QueueInv, [Next]_vars PROVE Promise!Next \/ UNCHANGED Promise!queue
  OBVIOUS
<1>1. ASSUME NEW i \in Items, Enqueue(i) PROVE Promise!Next
  BY <1>1, EnqueueRefines DEF Promise!Next
<1>2. ASSUME NEW w \in Workers, Promote(w) PROVE UNCHANGED Promise!queue
  BY <1>2, QueueStutters DEF Promote, Batches, Live, history
<1>3. ASSUME NEW w \in Workers, Claim(w) \/ Read(w) PROVE UNCHANGED Promise!queue
  BY <1>3, QueueStutters DEF Claim, Read, Takes, Live, history
<1>4. ASSUME NEW w \in Workers, Execute(w) PROVE Promise!Next \/ UNCHANGED Promise!queue
  BY <1>4, ExecuteRefines
<1>5. ASSUME NEW w \in Workers, Ends(w) \/ Crash(w) PROVE UNCHANGED Promise!queue
  BY <1>5, QueueStutters DEF Ends, Crash, Live, server, history
<1>6. ASSUME NEW w \in Workers, Settle(w) \/ SettleUnheard(w)
      PROVE  Promise!Next \/ UNCHANGED Promise!queue
  BY <1>6, TransitionRefines DEF Settle, SettleUnheard, history
<1>7. ASSUME NEW w \in Workers, NEW c \in Copies, Renew(w, c)
      PROVE  UNCHANGED Promise!queue
  BY <1>7, QueueStutters DEF Renew, Live, history
<1>8. ASSUME NEW c \in Copies, LeaseExpires(c) PROVE UNCHANGED Promise!queue
  BY <1>8, QueueStutters DEF LeaseExpires, Live, history
<1>9. CASE UNCHANGED vars
  BY <1>9, QueueStutters DEF vars, server, history, Live
<1> QED BY <1>1, <1>2, <1>3, <1>4, <1>5, <1>6, <1>7, <1>8, <1>9 DEF Next

(* Initially both queues are empty. *)
LEMMA InitRefines == Init => Promise!Init
  BY DEF Init, Promise!Init, Status, Live

(* The backend implements the abstract queue, its liveness apart: an item  *)
(* is enqueued once, attempted before it is settled, and settled once,     *)
(* consumed or dead-lettered.                                              *)
THEOREM QueueImplements == Spec => Promise!Spec
  BY QueueInvariant, InitRefines, StepRefines, PTL DEF Spec, Promise!Spec
=============================================================================
