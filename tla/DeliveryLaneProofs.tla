------------------------- MODULE DeliveryLaneProofs -------------------------
(***************************************************************************)
(* Theorems about DeliveryLane, for every set of processes and every       *)
(* bound, in two layers.  CoreInv is inductive, so the types hold and one  *)
(* delivery runs at a time, whatever crashes, fails or is skipped; with it *)
(* LaneInv is inductive, the properties about order and loss follow, and   *)
(* the lanes implement OrderedDelivery.                                    *)
(*                                                                         *)
(* The first argument: the lane that holds the claim is the one in its tenure    *)
(* (ClaimHeld); an entry runs only in the lane of its owner, while that    *)
(* lane is in its tenure (RunsItsNext), so a lane about to begin finds     *)
(* nothing running.  What a lane drops, commits or finishes meanwhile      *)
(* changes no running entry; the effect lemmas say so action by action.    *)
(***************************************************************************)
EXTENDS DeliveryLane, LaneRefinement, WellFoundedInduction, TLAPS

USE BoundsAssumption, ProcsAssumption DEF Cursors, store, entries, round

-----------------------------------------------------------------------------
(* What the operators and the actions do to the entries.                   *)

(* _drop_stale keeps the entries typed. *)
LEMMA DropType ==
  ASSUME TypeOK, NEW p, NEW d
  PROVE  AfterDrop(p, d) \in [Entries -> Stages]
BY DEF AfterDrop, TypeOK, EntriesOK, Stages

(* _drop_stale touches what its lane holds in its queue, behind the cursor, alone. *)
LEMMA DropEffect ==
  ASSUME TypeOK, NEW p, NEW d
  PROVE  \A e \in Entries :
           \/ AfterDrop(p, d)[e] = at[e]
           \/ /\ AfterDrop(p, d)[e] \in {"stale", "filled"}
              /\ e \in Indexes /\ owner[e] = p /\ at[e] \in Queued /\ e <= d
BY DEF AfterDrop, Stale, MyIndexed, TypeOK, EntriesOK, Stages

(* A skip passes indexes. *)
LEMMA PassedType ==
  ASSUME TypeOK, NEW p \in Procs
  PROVE  Passed(p) \subseteq Indexes
BY DEF TypeOK, LanesOK, Passed, Indexes

(* A commit changes nothing that was placed before. *)
LEMMA CommitEffect ==
  ASSUME CoreInv, NEW p \in Procs, NEW s \in {"committed", "noting"}, Commit(p, s)
  PROVE  \A e \in Entries : at[e] # "none" => at'[e] = at[e] /\ owner'[e] = owner[e]
<1>1. latest + 1 \in Indexes /\ at[latest + 1] = "none"
  BY DEF Commit, CoreInv, TypeOK, StoreOK, Timeline
<1> QED
  BY <1>1 DEF Commit, CoreInv, TypeOK, EntriesOK

(* Nor does an unstored event. *)
LEMMA PlaceEffect ==
  ASSUME CoreInv, NEW p \in Procs, PlaceUnstored(p)
  PROVE  \A e \in Entries : at[e] # "none" => at'[e] = at[e] /\ owner'[e] = owner[e]
<1>1. MaxIndex + unstored \in Unstored /\ at[MaxIndex + unstored] = "none"
  BY DEF PlaceUnstored, CoreInv, TypeOK, StoreOK, Timeline, Unstored
<1> QED
  BY <1>1 DEF PlaceUnstored, CoreInv, TypeOK, EntriesOK

(* Noting an index changes that index alone. *)
LEMMA NoteEffect ==
  ASSUME CoreInv, NEW p \in Procs, NoteCommitted(p) \/ NoteFails(p)
  PROVE  \A e \in Entries : at[e] # "noting" => at'[e] = at[e] /\ owner'[e] = owner[e]
<1>1. at[latest] = "noting" /\ owner' = owner
  BY DEF NoteCommitted, NoteFails
<1>2. \E s \in {"filled", "noted", "lost"} : at' = [at EXCEPT ![latest] = s]
  BY DEF NoteCommitted, NoteFails
<1> QED
  BY <1>1, <1>2 DEF CoreInv, TypeOK, EntriesOK

(* A lane off the claim drops stale entries and begins none. *)
LEMMA PollEffect ==
  ASSUME CoreInv, NEW p \in Procs, Poll(p)
  PROVE  /\ \A e \in Entries : \/ at'[e] = at[e]
                               \/ at[e] \in Queued /\ at'[e] \in {"stale", "filled"}
         /\ \A q \in Procs : lane'[q] = lane[q] \/ (lane[q] = "rest" /\ lane'[q] = "want")
         /\ owner' = owner /\ delivered' = delivered /\ executed' = executed
<1>1. at' = AfterDrop(p, Higher(cursor, owed[p]))
  BY DEF Poll
<1>2. \A e \in Entries : \/ at'[e] = at[e]
                         \/ at[e] \in Queued /\ at'[e] \in {"stale", "filled"}
  BY <1>1, DropEffect DEF CoreInv
<1> QED
  BY <1>2 DEF Poll, CoreInv, TypeOK, LanesOK

(* A lane begins an entry of its own queue, beside what it drops. *)
LEMMA BeginEffect ==
  ASSUME CoreInv, NEW p \in Procs, NEW e \in Entries, Begin(p, e)
  PROVE  /\ at[e] \in Queued /\ at'[e] = "running" /\ owner[e] = p
         /\ \A f \in Entries : f # e =>
              at'[f] = at[f] \/ (at[f] \in Queued /\ at'[f] \in {"stale", "filled"})
         /\ \A q \in Procs : q # p => lane'[q] = lane[q]
         /\ lane[p] = "round" /\ lane'[p] = "running"
         /\ owner' = owner /\ delivered' = delivered
<1>1. AfterDrop(p, delivered[p]) \in [Entries -> Stages]
  BY DropType DEF CoreInv
<1>2. at' = [AfterDrop(p, delivered[p]) EXCEPT ![e] = "running"]
  BY DEF Begin
<1>3. \A f \in Entries : f # e =>
        at'[f] = at[f] \/ (at[f] \in Queued /\ at'[f] \in {"stale", "filled"})
  BY <1>1, <1>2, DropEffect DEF CoreInv
<1>4. at[e] \in Queued /\ owner[e] = p
  BY DEF Begin, Runs, Due, MyIndexed, MyUnstored, Entries
<1> QED
  BY <1>1, <1>2, <1>3, <1>4 DEF Begin, CoreInv, TypeOK, LanesOK

(* A cursor entry is filled, beside what is dropped. *)
LEMMA TakeNotedEffect ==
  ASSUME CoreInv, NEW p \in Procs, TakeNoted(p)
  PROVE  LET i == delivered[p] + 1 IN
         /\ i \in Indexes /\ at[i] = "noted" /\ at'[i] = "filled" /\ owner[i] = p
         /\ \A f \in Entries :
              at'[f] = at[f] \/ (at[f] \in Queued /\ at'[f] \in {"stale", "filled"})
         /\ \A q \in Procs : q # p => lane'[q] = lane[q]
         /\ owner' = owner /\ delivered' = delivered /\ executed' = executed
<1> DEFINE i == delivered[p] + 1
<1>1. AfterDrop(p, delivered[p]) \in [Entries -> Stages]
  BY DropType DEF CoreInv
<1>2. at' = [AfterDrop(p, delivered[p]) EXCEPT ![i] = "filled"]
  BY DEF TakeNoted
<1>3. i \in Indexes /\ at[i] = "noted" /\ owner[i] = p
  BY DEF TakeNoted, MyIndexed
<1>4. i \in Entries
  BY <1>3 DEF Entries
<1> HIDE DEF i
<1>5. at'[i] = "filled"
  BY <1>1, <1>2, <1>4
<1>6. \A f \in Entries :
        at'[f] = at[f] \/ (at[f] \in Queued /\ at'[f] \in {"stale", "filled"})
  BY <1>1, <1>2, <1>3, <1>4, DropEffect DEF CoreInv, Queued
<1> QED
  BY <1>3, <1>5, <1>6 DEF TakeNoted, CoreInv, TypeOK, LanesOK, i

(* A round that meets a hole or ends only drops. *)
LEMMA DropsEffect ==
  ASSUME CoreInv, NEW p \in Procs, RoundOver(p) \/ MeetHole(p)
  PROVE  /\ \A e \in Entries :
              at'[e] = at[e] \/ (at[e] \in Queued /\ at'[e] \in {"stale", "filled"})
         /\ \A q \in Procs : q # p => lane'[q] = lane[q] /\ delivered'[q] = delivered[q]
         /\ lane'[p] \in {"reading", "finishing"}
         /\ owner' = owner /\ executed' = executed
<1>1. at' = AfterDrop(p, delivered[p])
  BY DEF RoundOver, MeetHole
<1>2. \A e \in Entries :
        at'[e] = at[e] \/ (at[e] \in Queued /\ at'[e] \in {"stale", "filled"})
  BY <1>1, DropEffect DEF CoreInv
<1>3. lane' = [lane EXCEPT ![p] = "finishing"] \/ lane' = [lane EXCEPT ![p] = "reading"]
  BY DEF RoundOver, MeetHole, Release
<1>4. delivered' = delivered \/ delivered' = [delivered EXCEPT ![p] = -1]
  BY DEF RoundOver, MeetHole, Release
<1> QED
  BY <1>2, <1>3, <1>4 DEF RoundOver, MeetHole, CoreInv, TypeOK, LanesOK

(* The aftermath finishes an entry its lane ran. *)
LEMMA FinishEffect ==
  ASSUME CoreInv, NEW p \in Procs, Finish(p)
  PROVE  /\ Head(executed[p]) \in Entries
         /\ at[Head(executed[p])] \in {"running", "ran", "finished"}
         /\ owner[Head(executed[p])] = p
         /\ \A e \in Entries : at'[e] = at[e] \/ (e = Head(executed[p]) /\ at'[e] = "finished")
<1>1. executed[p] \in Seq(Entries) /\ executed[p] # <<>>
  BY DEF Finish, CoreInv, TypeOK, LanesOK
<1>2. 1 \in 1 .. Len(executed[p]) /\ Head(executed[p]) = executed[p][1] /\ executed[p][1] \in Entries
  BY <1>1
<1> QED
  BY <1>2 DEF Finish, CoreInv, TypeOK, EntriesOK, RecordsItsOwn

(* An action that neither commits nor places keeps Timeline. *)
LEMMA TimelineKept ==
  ASSUME CoreInv, UNCHANGED <<latest, unstored, roomLock, owner>>,
         \A e \in Entries : \/ at'[e] = at[e]
                            \/ /\ at[e] \notin {"none", "committed", "noting"}
                               /\ at'[e] \notin {"none", "committed", "noting", "noted"}
  PROVE  Timeline'
<1> USE DEF CoreInv, Timeline
<1>1. /\ Indexes \subseteq Entries /\ Unstored \subseteq Entries
      /\ latest # -1 => latest \in Indexes
  BY DEF Entries, TypeOK, StoreOK, Indexes
<1>2. \A i \in Indexes : at'[i] = "none" <=> i > latest'
  BY <1>1
<1>3. \A e \in Entries : at'[e] # "none" => owner'[e] \in Procs
  BY <1>1
<1>4. \A u \in Unstored : at'[u] \notin {"committed", "noting", "noted"}
  BY <1>1
<1>5. \A u \in Unstored : at'[u] = "none" <=> u >= MaxIndex + unstored'
  BY <1>1
<1>6. \A i \in Indexes :
        at'[i] \in {"committed", "noting"} => i = latest' /\ roomLock' = owner'[i]
  BY <1>1
<1>7. roomLock' # NoProc => latest' # -1 /\ at'[latest'] \in {"committed", "noting"}
  BY <1>1
<1> QED
  BY <1>2, <1>3, <1>4, <1>5, <1>6, <1>7

(* And one that undoes no execution keeps RecordsItsOwn. *)
LEMMA RecordsKept ==
  ASSUME CoreInv, UNCHANGED executed,
         \A e \in Entries : at[e] \in {"running", "ran", "finished"} =>
           at'[e] \in {"running", "ran", "finished"} /\ owner'[e] = owner[e]
  PROVE  RecordsItsOwn'
<1>1. \A q \in Procs : executed'[q] = executed[q] /\ executed[q] \in Seq(Entries)
  BY DEF CoreInv, TypeOK, LanesOK
<1>2. \A q \in Procs : \A k \in 1 .. Len(executed[q]) : executed[q][k] \in Entries
  BY <1>1
<1> QED
  BY <1>1, <1>2 DEF CoreInv, RecordsItsOwn

(* And one after which no other lane writes keeps WritesItsNext. *)
LEMMA WritesKept ==
  ASSUME CoreInv,
         \A q \in Procs : lane'[q] = "writing" => lane[q] = "writing" /\ delivered'[q] = delivered[q],
         \A i \in Indexes : at[i] \in {"ran", "filled"} => at'[i] = at[i] /\ owner'[i] = owner[i]
  PROVE  WritesItsNext'
BY DEF CoreInv, WritesItsNext

-----------------------------------------------------------------------------
(* Each action keeps the invariant.                                        *)

(* Commit keeps the core invariant. *)
LEMMA CommitKeeps ==
  ASSUME CoreInv, NEW p \in Procs, NEW s \in {"committed", "noting"}, Commit(p, s)
  PROVE  CoreInv'
<1>1. TypeOK'
  <2>1. StoreOK'
    BY DEF CoreInv, TypeOK, Commit, StoreOK, Indexes
  <2>2. EntriesOK'
    BY DEF CoreInv, TypeOK, Commit, EntriesOK, StoreOK, Entries, Unstored,
       Indexes, Stages
  <2>3. LanesOK'
    BY DEF CoreInv, TypeOK, Commit, LanesOK
  <2>4. HistoryOK'
    BY DEF CoreInv, TypeOK, Commit, HistoryOK
  <2> QED
    BY <2>1, <2>2, <2>3, <2>4 DEF TypeOK
<1>2. ClaimHeld'
  BY DEF CoreInv, TypeOK, ClaimHeld, Commit
<1>3. Timeline'
  BY DEF CoreInv, TypeOK, Timeline, Commit, EntriesOK, StoreOK, Entries,
     Indexes, Unstored
<1>4. RunsItsNext'
  BY DEF CoreInv, TypeOK, RunsItsNext, Commit, EntriesOK
<1>5. WritesItsNext'
  <2>1. lane' = lane /\ delivered' = delivered
    BY DEF Commit
  <2> QED
    BY <2>1, CommitEffect, WritesKept DEF Entries
<1>6. RecordsItsOwn'
  <2>1. executed' = executed
    BY DEF Commit
  <2> QED
    BY <2>1, CommitEffect, RecordsKept
<1>7. OneDelivery'
  BY DEF CoreInv, TypeOK, OneDelivery, Commit
<1> QED
  BY <1>1, <1>2, <1>3, <1>4, <1>5, <1>6, <1>7 DEF CoreInv

(* Enqueue keeps the core invariant. *)
LEMMA EnqueueKeeps ==
  ASSUME CoreInv, NEW p \in Procs, Enqueue(p)
  PROVE  CoreInv'
<1>1. TypeOK'
  <2>1. StoreOK'
    BY DEF CoreInv, TypeOK, Enqueue, StoreOK
  <2>2. EntriesOK'
    BY DEF CoreInv, TypeOK, Enqueue, EntriesOK, StoreOK, Entries, Unstored,
       Indexes, Stages
  <2>3. LanesOK'
    BY DEF CoreInv, TypeOK, Enqueue, LanesOK
  <2>4. HistoryOK'
    BY DEF CoreInv, TypeOK, Enqueue, HistoryOK
  <2> QED
    BY <2>1, <2>2, <2>3, <2>4 DEF TypeOK
<1>2. ClaimHeld'
  BY DEF CoreInv, TypeOK, ClaimHeld, Enqueue
<1>3. Timeline'
  BY DEF CoreInv, TypeOK, Timeline, Enqueue, EntriesOK, StoreOK, Entries
<1>4. RunsItsNext'
  BY DEF CoreInv, TypeOK, RunsItsNext, Enqueue
<1>5. WritesItsNext'
  BY DEF CoreInv, TypeOK, WritesItsNext, Enqueue
<1>6. RecordsItsOwn'
  BY DEF CoreInv, TypeOK, RecordsItsOwn, Enqueue
<1>7. OneDelivery'
  BY DEF CoreInv, TypeOK, OneDelivery, Enqueue
<1> QED
  BY <1>1, <1>2, <1>3, <1>4, <1>5, <1>6, <1>7 DEF CoreInv

(* NoteCommitted keeps the core invariant. *)
LEMMA NoteCommittedKeeps ==
  ASSUME CoreInv, NEW p \in Procs, NoteCommitted(p)
  PROVE  CoreInv'
<1>1. TypeOK'
  <2>1. StoreOK'
    BY DEF CoreInv, TypeOK, NoteCommitted, CanAdvance, StoreOK
  <2>2. EntriesOK'
    BY DEF CoreInv, TypeOK, NoteCommitted, CanAdvance, EntriesOK, StoreOK,
       Entries, Unstored, Indexes, Stages
  <2>3. LanesOK'
    BY DEF CoreInv, TypeOK, NoteCommitted, CanAdvance, LanesOK
  <2>4. HistoryOK'
    BY DEF CoreInv, TypeOK, NoteCommitted, CanAdvance, HistoryOK
  <2> QED
    BY <2>1, <2>2, <2>3, <2>4 DEF TypeOK
<1>2. ClaimHeld'
  BY DEF CoreInv, TypeOK, ClaimHeld, NoteCommitted, CanAdvance
<1>3. Timeline'
  BY DEF CoreInv, TypeOK, Timeline, NoteCommitted, CanAdvance, EntriesOK,
     StoreOK, Entries
<1>4. RunsItsNext'
  BY DEF CoreInv, TypeOK, RunsItsNext, NoteCommitted, CanAdvance, EntriesOK
<1>5. WritesItsNext'
  BY DEF CoreInv, TypeOK, WritesItsNext, NoteCommitted, CanAdvance, EntriesOK,
     LanesOK, Entries, Queued
<1>6. RecordsItsOwn'
  <2>1. executed' = executed
    BY DEF NoteCommitted
  <2> QED
    BY <2>1, NoteEffect, RecordsKept
<1>7. OneDelivery'
  BY DEF CoreInv, TypeOK, OneDelivery, NoteCommitted, CanAdvance, EntriesOK
<1> QED
  BY <1>1, <1>2, <1>3, <1>4, <1>5, <1>6, <1>7 DEF CoreInv

(* NoteFails keeps the core invariant. *)
LEMMA NoteFailsKeeps ==
  ASSUME CoreInv, NEW p \in Procs, NoteFails(p)
  PROVE  CoreInv'
<1>1. TypeOK'
  <2>1. StoreOK'
    BY DEF CoreInv, TypeOK, NoteFails, CanAdvance, StoreOK
  <2>2. EntriesOK'
    BY DEF CoreInv, TypeOK, NoteFails, CanAdvance, EntriesOK, StoreOK, Entries,
       Unstored, Indexes, Stages
  <2>3. LanesOK'
    BY DEF CoreInv, TypeOK, NoteFails, CanAdvance, LanesOK
  <2>4. HistoryOK'
    BY DEF CoreInv, TypeOK, NoteFails, CanAdvance, HistoryOK
  <2> QED
    BY <2>1, <2>2, <2>3, <2>4 DEF TypeOK
<1>2. ClaimHeld'
  BY DEF CoreInv, TypeOK, ClaimHeld, NoteFails, CanAdvance
<1>3. Timeline'
  BY DEF CoreInv, TypeOK, Timeline, NoteFails, CanAdvance, EntriesOK, StoreOK,
     Entries
<1>4. RunsItsNext'
  BY DEF CoreInv, TypeOK, RunsItsNext, NoteFails, CanAdvance, EntriesOK
<1>5. WritesItsNext'
  BY DEF CoreInv, TypeOK, WritesItsNext, NoteFails, CanAdvance, EntriesOK,
     LanesOK, Entries, Queued
<1>6. RecordsItsOwn'
  <2>1. executed' = executed
    BY DEF NoteFails
  <2> QED
    BY <2>1, NoteEffect, RecordsKept
<1>7. OneDelivery'
  BY DEF CoreInv, TypeOK, OneDelivery, NoteFails, CanAdvance, EntriesOK
<1> QED
  BY <1>1, <1>2, <1>3, <1>4, <1>5, <1>6, <1>7 DEF CoreInv

(* PlaceUnstored keeps the core invariant. *)
LEMMA PlaceUnstoredKeeps ==
  ASSUME CoreInv, NEW p \in Procs, PlaceUnstored(p)
  PROVE  CoreInv'
<1>1. TypeOK'
  <2>1. StoreOK'
    BY DEF CoreInv, TypeOK, PlaceUnstored, StoreOK
  <2>2. EntriesOK'
    BY DEF CoreInv, TypeOK, PlaceUnstored, EntriesOK, StoreOK, Entries,
       Unstored, Indexes, Stages
  <2>3. LanesOK'
    BY DEF CoreInv, TypeOK, PlaceUnstored, LanesOK
  <2>4. HistoryOK'
    BY DEF CoreInv, TypeOK, PlaceUnstored, HistoryOK
  <2> QED
    BY <2>1, <2>2, <2>3, <2>4 DEF TypeOK
<1>2. ClaimHeld'
  BY DEF CoreInv, TypeOK, ClaimHeld, PlaceUnstored
<1>3. Timeline'
  BY DEF CoreInv, TypeOK, Timeline, PlaceUnstored, EntriesOK, StoreOK, Entries,
     Indexes, Unstored
<1>4. RunsItsNext'
  BY DEF CoreInv, TypeOK, RunsItsNext, PlaceUnstored, EntriesOK
<1>5. WritesItsNext'
  <2>1. lane' = lane /\ delivered' = delivered
    BY DEF PlaceUnstored
  <2> QED
    BY <2>1, PlaceEffect, WritesKept DEF Entries
<1>6. RecordsItsOwn'
  <2>1. executed' = executed
    BY DEF PlaceUnstored
  <2> QED
    BY <2>1, PlaceEffect, RecordsKept
<1>7. OneDelivery'
  BY DEF CoreInv, TypeOK, OneDelivery, PlaceUnstored
<1> QED
  BY <1>1, <1>2, <1>3, <1>4, <1>5, <1>6, <1>7 DEF CoreInv

(* Poll keeps the core invariant. *)
LEMMA PollKeeps ==
  ASSUME CoreInv, NEW p \in Procs, Poll(p)
  PROVE  CoreInv'
<1>1. TypeOK'
  <2>1. StoreOK'
    BY DropType, DropEffect DEF CoreInv, TypeOK, Poll, Higher, GapClock, StoreOK
  <2>2. EntriesOK'
    BY DropType, DropEffect DEF CoreInv, TypeOK, Poll, Higher, GapClock,
       EntriesOK
  <2>3. LanesOK'
    <3>1. lane' \in [Procs -> LaneStages]
      BY DEF CoreInv, TypeOK, LanesOK, Poll, LaneStages
    <3>2. forced' \in SUBSET Procs /\ dropped' \in SUBSET Procs
      BY DEF CoreInv, TypeOK, LanesOK, Poll
    <3>3. clock' \in [Procs -> {"off", "running", "expired"}]
      BY DEF CoreInv, TypeOK, LanesOK, Poll, GapClock
    <3> QED
      BY <3>1, <3>2, <3>3 DEF CoreInv, TypeOK, LanesOK, Poll
  <2>4. HistoryOK'
    BY DropType, DropEffect DEF CoreInv, TypeOK, Poll, Higher, GapClock,
       HistoryOK
  <2> QED
    BY <2>1, <2>2, <2>3, <2>4 DEF TypeOK
<1>2. ClaimHeld'
  <2>1. claim' = claim
    BY DEF Poll
  <2> QED
    BY <2>1, PollEffect DEF CoreInv, ClaimHeld, Tenure
<1>3. Timeline'
  <2>1. UNCHANGED <<latest, unstored, roomLock, owner>>
    BY DEF Poll
  <2> QED
    BY <2>1, PollEffect, TimelineKept DEF Queued
<1>4. RunsItsNext'
  BY PollEffect DEF CoreInv, RunsItsNext, Queued, Timeline
<1>5. WritesItsNext'
  BY PollEffect DEF CoreInv, WritesItsNext, Queued, Entries
<1>6. RecordsItsOwn'
  BY PollEffect, RecordsKept DEF Queued
<1>7. OneDelivery'
  BY DropType, DropEffect DEF CoreInv, TypeOK, OneDelivery, Poll, Higher,
     GapClock
<1> QED
  BY <1>1, <1>2, <1>3, <1>4, <1>5, <1>6, <1>7 DEF CoreInv

(* Idle keeps the core invariant. *)
LEMMA IdleKeeps ==
  ASSUME CoreInv, NEW p \in Procs, Idle(p)
  PROVE  CoreInv'
<1>1. TypeOK'
  <2>1. StoreOK'
    BY DEF CoreInv, TypeOK, Idle, StoreOK
  <2>2. EntriesOK'
    BY DEF CoreInv, TypeOK, Idle, EntriesOK
  <2>3. LanesOK'
    BY DEF CoreInv, TypeOK, Idle, LanesOK
  <2>4. HistoryOK'
    BY DEF CoreInv, TypeOK, Idle, HistoryOK
  <2> QED
    BY <2>1, <2>2, <2>3, <2>4 DEF TypeOK
<1>2. ClaimHeld'
  BY DEF CoreInv, TypeOK, ClaimHeld, Idle
<1>3. Timeline'
  BY DEF CoreInv, TypeOK, Timeline, Idle
<1>4. RunsItsNext'
  BY DEF CoreInv, TypeOK, RunsItsNext, Idle
<1>5. WritesItsNext'
  BY DEF CoreInv, TypeOK, WritesItsNext, Idle
<1>6. RecordsItsOwn'
  BY DEF CoreInv, TypeOK, RecordsItsOwn, Idle
<1>7. OneDelivery'
  BY DEF CoreInv, TypeOK, OneDelivery, Idle
<1> QED
  BY <1>1, <1>2, <1>3, <1>4, <1>5, <1>6, <1>7 DEF CoreInv

(* TakeClaim keeps the core invariant. *)
LEMMA TakeClaimKeeps ==
  ASSUME CoreInv, NEW p \in Procs, TakeClaim(p)
  PROVE  CoreInv'
<1>1. TypeOK'
  <2>1. StoreOK'
    BY DEF CoreInv, TypeOK, TakeClaim, StoreOK
  <2>2. EntriesOK'
    BY DEF CoreInv, TypeOK, TakeClaim, EntriesOK
  <2>3. LanesOK'
    BY DEF CoreInv, TypeOK, TakeClaim, LanesOK, LaneStages
  <2>4. HistoryOK'
    BY DEF CoreInv, TypeOK, TakeClaim, HistoryOK
  <2> QED
    BY <2>1, <2>2, <2>3, <2>4 DEF TypeOK
<1>2. ClaimHeld'
  BY DEF CoreInv, TypeOK, ClaimHeld, TakeClaim, StoreOK, LanesOK, Tenure
<1>3. Timeline'
  BY DEF CoreInv, TypeOK, Timeline, TakeClaim
<1>4. RunsItsNext'
  BY DEF CoreInv, TypeOK, RunsItsNext, TakeClaim
<1>5. WritesItsNext'
  BY DEF CoreInv, TypeOK, WritesItsNext, TakeClaim
<1>6. RecordsItsOwn'
  BY DEF CoreInv, TypeOK, RecordsItsOwn, TakeClaim
<1>7. OneDelivery'
  BY DEF CoreInv, TypeOK, OneDelivery, TakeClaim
<1> QED
  BY <1>1, <1>2, <1>3, <1>4, <1>5, <1>6, <1>7 DEF CoreInv

(* WriteOwed keeps the core invariant. *)
LEMMA WriteOwedKeeps ==
  ASSUME CoreInv, NEW p \in Procs, WriteOwed(p)
  PROVE  CoreInv'
<1>1. TypeOK'
  <2>1. StoreOK'
    BY DEF CoreInv, TypeOK, WriteOwed, Owing, StoreOK, LanesOK
  <2>2. EntriesOK'
    BY DEF CoreInv, TypeOK, WriteOwed, Owing, EntriesOK
  <2>3. LanesOK'
    <3>1. CASE Owing(p)
      BY <3>1 DEF CoreInv, TypeOK, LanesOK, WriteOwed
    <3>2. CASE ~Owing(p)
      <4>1. lane' = [lane EXCEPT ![p] = "round"] /\ delivered' = [delivered EXCEPT ![p] = cursor]
            /\ owed' = [owed EXCEPT ![p] = -1]
        BY <3>2 DEF WriteOwed
      <4>2. moved' \in SUBSET Procs
        BY <3>2 DEF CoreInv, TypeOK, LanesOK, WriteOwed
      <4>3. cursor \in Cursors /\ -1 \in Cursors
        BY DEF CoreInv, TypeOK, StoreOK
      <4>4. UNCHANGED <<target, forced, dropped, clock, executed>>
        BY DEF WriteOwed
      <4> HIDE DEF Cursors
      <4> QED
        BY <4>1, <4>2, <4>3, <4>4 DEF CoreInv, TypeOK, LanesOK, LaneStages
    <3> QED
      BY <3>1, <3>2
  <2>4. HistoryOK'
    BY DEF CoreInv, TypeOK, WriteOwed, Owing, HistoryOK
  <2> QED
    BY <2>1, <2>2, <2>3, <2>4 DEF TypeOK
<1>2. ClaimHeld'
  BY DEF CoreInv, TypeOK, ClaimHeld, WriteOwed, Owing, StoreOK, LanesOK, Tenure
<1>3. Timeline'
  BY DEF CoreInv, TypeOK, Timeline, WriteOwed, Owing
<1>4. RunsItsNext'
  BY DEF CoreInv, TypeOK, RunsItsNext, WriteOwed, Owing, EntriesOK, LanesOK,
     Entries, Timeline
<1>5. WritesItsNext'
  BY DEF CoreInv, TypeOK, WritesItsNext, WriteOwed, Owing, LanesOK
<1>6. RecordsItsOwn'
  BY DEF CoreInv, TypeOK, RecordsItsOwn, WriteOwed, Owing
<1>7. OneDelivery'
  BY DEF CoreInv, TypeOK, OneDelivery, WriteOwed, Owing
<1> QED
  BY <1>1, <1>2, <1>3, <1>4, <1>5, <1>6, <1>7 DEF CoreInv

(* WriteOwedFails keeps the core invariant. *)
LEMMA WriteOwedFailsKeeps ==
  ASSUME CoreInv, NEW p \in Procs, WriteOwedFails(p)
  PROVE  CoreInv'
<1>1. TypeOK'
  <2>1. StoreOK'
    BY DEF CoreInv, TypeOK, WriteOwedFails, Owing, StoreOK, LanesOK
  <2>2. EntriesOK'
    BY DEF CoreInv, TypeOK, WriteOwedFails, Owing, EntriesOK
  <2>3. LanesOK'
    BY DEF CoreInv, TypeOK, WriteOwedFails, Owing, LanesOK, LaneStages
  <2>4. HistoryOK'
    BY DEF CoreInv, TypeOK, WriteOwedFails, Owing, HistoryOK
  <2> QED
    BY <2>1, <2>2, <2>3, <2>4 DEF TypeOK
<1>2. ClaimHeld'
  BY DEF CoreInv, TypeOK, ClaimHeld, WriteOwedFails, Owing, StoreOK, LanesOK,
     Tenure
<1>3. Timeline'
  BY DEF CoreInv, TypeOK, Timeline, WriteOwedFails, Owing
<1>4. RunsItsNext'
  BY DEF CoreInv, TypeOK, RunsItsNext, WriteOwedFails, Owing
<1>5. WritesItsNext'
  BY DEF CoreInv, TypeOK, WritesItsNext, WriteOwedFails, Owing
<1>6. RecordsItsOwn'
  BY DEF CoreInv, TypeOK, RecordsItsOwn, WriteOwedFails, Owing
<1>7. OneDelivery'
  BY DEF CoreInv, TypeOK, OneDelivery, WriteOwedFails, Owing
<1> QED
  BY <1>1, <1>2, <1>3, <1>4, <1>5, <1>6, <1>7 DEF CoreInv

(* Begin keeps the core invariant. *)
LEMMA BeginKeeps ==
  ASSUME CoreInv, NEW p \in Procs, NEW e \in Entries, Begin(p, e)
  PROVE  CoreInv'
<1>1. TypeOK'
  <2>1. StoreOK'
    BY DropType, DropEffect DEF CoreInv, TypeOK, Begin, Runs, MovedByDrop,
       StoreOK
  <2>2. EntriesOK'
    BY DropType, DropEffect DEF CoreInv, TypeOK, Begin, Runs, MovedByDrop,
       EntriesOK, StoreOK, Entries, Unstored, Indexes, Stages
  <2>3. LanesOK'
    BY DropType, DropEffect DEF CoreInv, TypeOK, Begin, Runs, MovedByDrop,
       LanesOK, LaneStages
  <2>4. HistoryOK'
    BY DropType, DropEffect DEF CoreInv, TypeOK, Begin, Runs, MovedByDrop,
       HistoryOK
  <2> QED
    BY <2>1, <2>2, <2>3, <2>4 DEF TypeOK
<1>2. ClaimHeld'
  BY DropType, DropEffect DEF CoreInv, TypeOK, ClaimHeld, Begin, Runs,
     MovedByDrop, StoreOK, LanesOK, Tenure
<1>3. Timeline'
  <2>1. UNCHANGED <<latest, unstored, roomLock, owner>>
    BY DEF Begin
  <2> QED
    BY <2>1, BeginEffect, TimelineKept DEF Queued
<1>4. RunsItsNext'
  <2>1. AfterDrop(p, delivered[p]) \in [Entries -> Stages]
    BY DropType DEF CoreInv
  <2>2. \A f \in Entries : f # e /\ at'[f] = "running" => at[f] = "running"
    BY <2>1, DropEffect DEF Begin, CoreInv
  <2>3. /\ owner'[e] = p
        /\ e \in Indexes => e = delivered[p] + 1
    BY DEF Begin, Runs, Due, MyIndexed, MyUnstored, Entries, Indexes, Unstored
  <2>4. lane' = [lane EXCEPT ![p] = "running"] /\ UNCHANGED <<owner, delivered>> /\ lane[p] = "round"
    BY DEF Begin
  <2>5. lane \in [Procs -> LaneStages]
    BY DEF CoreInv, TypeOK, LanesOK
  <2>6. \A f \in Entries : at[f] = "running" => owner[f] \in Procs
    BY DEF CoreInv, Timeline
  <2> QED
    BY <2>2, <2>3, <2>4, <2>5, <2>6 DEF CoreInv, RunsItsNext
<1>5. WritesItsNext'
  BY BeginEffect DEF CoreInv, WritesItsNext, Queued, Entries
<1>6. RecordsItsOwn'
  <2>1. \A f \in Entries : at[f] \in {"running", "ran", "finished"} => at'[f] = at[f]
    BY BeginEffect DEF Queued
  <2>2. \A q \in Procs : executed[q] \in Seq(Entries)
    BY DEF CoreInv, TypeOK, LanesOK
  <2>3. executed' = [executed EXCEPT ![p] = Append(@, e)] /\ executed \in [Procs -> Seq(Entries)]
    BY DEF Begin, CoreInv, TypeOK, LanesOK
  <2>4. ASSUME NEW q \in Procs, NEW k \in 1 .. Len(executed'[q])
        PROVE  \/ q = p /\ executed'[q][k] = e
               \/ k \in 1 .. Len(executed[q]) /\ executed'[q][k] = executed[q][k]
                  /\ executed[q][k] \in Entries
    BY <2>2, <2>3, <2>4
  <2> QED
    BY <2>1, <2>4, BeginEffect DEF CoreInv, RecordsItsOwn
<1>7. OneDelivery'
  <2>1. \A f \in Entries : at[f] # "running"
    <3> SUFFICES ASSUME NEW f \in Entries, at[f] = "running" PROVE FALSE
      OBVIOUS
    <3>1. owner[f] \in Procs /\ lane[owner[f]] = "running"
      BY DEF CoreInv, Timeline, RunsItsNext
    <3>2. claim = owner[f]
      BY <3>1 DEF CoreInv, ClaimHeld, Tenure
    <3>3. claim = p
      BY DEF Begin, CoreInv, ClaimHeld, Tenure
    <3> QED
      BY <3>1, <3>2, <3>3 DEF Begin
  <2>2. AfterDrop(p, delivered[p]) \in [Entries -> Stages]
    BY DropType DEF CoreInv
  <2>3. \A f \in Entries : AfterDrop(p, delivered[p])[f] # "running"
    BY <2>1, DropEffect DEF CoreInv
  <2>4. \A f \in Entries : at'[f] = "running" => f = e
    BY <2>2, <2>3 DEF Begin
  <2> QED
    BY <2>4 DEF OneDelivery
<1> QED
  BY <1>1, <1>2, <1>3, <1>4, <1>5, <1>6, <1>7 DEF CoreInv

(* RunEnds keeps the core invariant. *)
LEMMA RunEndsKeeps ==
  ASSUME CoreInv, NEW p \in Procs, NEW e \in Entries, RunEnds(p, e)
  PROVE  CoreInv'
<1>1. TypeOK'
  <2>1. StoreOK'
    BY DEF CoreInv, TypeOK, RunEnds, StoreOK
  <2>2. EntriesOK'
    BY DEF CoreInv, TypeOK, RunEnds, EntriesOK, StoreOK, Entries, Unstored,
       Indexes, Stages
  <2>3. LanesOK'
    BY DEF CoreInv, TypeOK, RunEnds, LanesOK, LaneStages
  <2>4. HistoryOK'
    BY DEF CoreInv, TypeOK, RunEnds, HistoryOK
  <2> QED
    BY <2>1, <2>2, <2>3, <2>4 DEF TypeOK
<1>2. ClaimHeld'
  BY DEF CoreInv, TypeOK, ClaimHeld, RunEnds, StoreOK, LanesOK, Tenure
<1>3. Timeline'
  BY DEF CoreInv, TypeOK, Timeline, RunEnds
<1>4. RunsItsNext'
  <2>1. \A f \in Entries : at'[f] = "running" => at[f] = "running" /\ f # e
    BY DEF RunEnds, CoreInv, TypeOK, EntriesOK
  <2>2. \A f \in Entries : at'[f] # "running"
    BY <2>1 DEF RunEnds, CoreInv, OneDelivery
  <2> QED
    BY <2>2 DEF RunsItsNext
<1>5. WritesItsNext'
  <2>1. \A i \in Indexes : at[i] \in {"ran", "filled"} => at'[i] = at[i] /\ owner'[i] = owner[i]
    BY DEF RunEnds, CoreInv, TypeOK, EntriesOK, Entries
  <2>2. /\ \A q \in Procs : q # p => lane'[q] = lane[q]
        /\ lane'[p] = "writing" => e \in Indexes
        /\ delivered' = delivered /\ at'[e] = "ran" /\ owner'[e] = p
    BY DEF RunEnds, CoreInv, TypeOK, EntriesOK, LanesOK
  <2>3. e \in Indexes => e = delivered[p] + 1
    BY DEF CoreInv, RunsItsNext, RunEnds
  <2> QED
    BY <2>1, <2>2, <2>3 DEF CoreInv, WritesItsNext
<1>6. RecordsItsOwn'
  BY DEF CoreInv, TypeOK, RecordsItsOwn, RunEnds
<1>7. OneDelivery'
  BY DEF CoreInv, TypeOK, OneDelivery, RunEnds
<1> QED
  BY <1>1, <1>2, <1>3, <1>4, <1>5, <1>6, <1>7 DEF CoreInv

(* TakeNoted keeps the core invariant. *)
LEMMA TakeNotedKeeps ==
  ASSUME CoreInv, NEW p \in Procs, TakeNoted(p)
  PROVE  CoreInv'
<1>1. TypeOK'
  <2>1. StoreOK'
    BY DropType, DropEffect DEF CoreInv, TypeOK, TakeNoted, StoreOK
  <2>2. EntriesOK'
    <3>1. at' = [AfterDrop(p, delivered[p]) EXCEPT ![delivered[p] + 1] = "filled"]
          /\ UNCHANGED <<owner, after>>
      BY DEF TakeNoted
    <3>2. AfterDrop(p, delivered[p]) \in [Entries -> Stages]
      BY DropType DEF CoreInv
    <3> QED
      BY <3>1, <3>2 DEF CoreInv, TypeOK, EntriesOK, Stages
  <2>3. LanesOK'
    BY DropType, DropEffect DEF CoreInv, TypeOK, TakeNoted, LanesOK, LaneStages
  <2>4. HistoryOK'
    BY DropType, DropEffect DEF CoreInv, TypeOK, TakeNoted, HistoryOK
  <2> QED
    BY <2>1, <2>2, <2>3, <2>4 DEF TypeOK
<1>2. ClaimHeld'
  BY DropType, DropEffect DEF CoreInv, TypeOK, ClaimHeld, TakeNoted, StoreOK,
     LanesOK, Tenure
<1>3. Timeline'
  <2>1. UNCHANGED <<latest, unstored, roomLock, owner>>
    BY DEF TakeNoted
  <2> QED
    BY <2>1, TakeNotedEffect, TimelineKept DEF Queued
<1>4. RunsItsNext'
  BY DropType, DropEffect DEF CoreInv, TypeOK, RunsItsNext, TakeNoted
<1>5. WritesItsNext'
  BY TakeNotedEffect DEF CoreInv, WritesItsNext, Queued, Entries
<1>6. RecordsItsOwn'
  BY TakeNotedEffect, RecordsKept DEF Queued
<1>7. OneDelivery'
  BY DropType, DropEffect DEF CoreInv, TypeOK, OneDelivery, TakeNoted
<1> QED
  BY <1>1, <1>2, <1>3, <1>4, <1>5, <1>6, <1>7 DEF CoreInv

(* AdvanceCursor keeps the core invariant. *)
LEMMA AdvanceCursorKeeps ==
  ASSUME CoreInv, NEW p \in Procs, AdvanceCursor(p)
  PROVE  CoreInv'
<1>1. TypeOK'
  <2>1. StoreOK'
    BY DEF CoreInv, TypeOK, AdvanceCursor, CanAdvance, StoreOK, LanesOK,
       Indexes, WritesItsNext
  <2>2. EntriesOK'
    BY DEF CoreInv, TypeOK, AdvanceCursor, CanAdvance, EntriesOK
  <2>3. LanesOK'
    <3>1. delivered[p] + 1 \in Indexes /\ delivered[p] + 1 \in Cursors
      BY DEF CoreInv, TypeOK, LanesOK, WritesItsNext, AdvanceCursor, Indexes
    <3>2. lane' \in [Procs -> LaneStages]
      BY DEF CoreInv, TypeOK, LanesOK, AdvanceCursor, LaneStages
    <3>3. delivered' = [delivered EXCEPT ![p] = delivered[p] + 1]
      BY DEF AdvanceCursor
    <3>4. owed' = owed \/ owed' = [owed EXCEPT ![p] = delivered[p] + 1]
      BY DEF AdvanceCursor
    <3> HIDE DEF Cursors
    <3>5. delivered' \in [Procs -> Cursors] /\ owed' \in [Procs -> Cursors]
      BY <3>1, <3>3, <3>4 DEF CoreInv, TypeOK, LanesOK
    <3> QED
      BY <3>2, <3>5 DEF CoreInv, TypeOK, LanesOK, AdvanceCursor
  <2>4. HistoryOK'
    BY DEF CoreInv, TypeOK, AdvanceCursor, CanAdvance, HistoryOK
  <2> QED
    BY <2>1, <2>2, <2>3, <2>4 DEF TypeOK
<1>2. ClaimHeld'
  BY DEF CoreInv, TypeOK, ClaimHeld, AdvanceCursor, CanAdvance, StoreOK,
     LanesOK, Tenure
<1>3. Timeline'
  BY DEF CoreInv, TypeOK, Timeline, AdvanceCursor, CanAdvance
<1>4. RunsItsNext'
  BY DEF CoreInv, TypeOK, RunsItsNext, AdvanceCursor, CanAdvance
<1>5. WritesItsNext'
  BY DEF CoreInv, TypeOK, WritesItsNext, AdvanceCursor, CanAdvance, LanesOK
<1>6. RecordsItsOwn'
  BY DEF CoreInv, TypeOK, RecordsItsOwn, AdvanceCursor, CanAdvance
<1>7. OneDelivery'
  BY DEF CoreInv, TypeOK, OneDelivery, AdvanceCursor, CanAdvance
<1> QED
  BY <1>1, <1>2, <1>3, <1>4, <1>5, <1>6, <1>7 DEF CoreInv

(* AdvanceFails keeps the core invariant. *)
LEMMA AdvanceFailsKeeps ==
  ASSUME CoreInv, NEW p \in Procs, AdvanceFails(p)
  PROVE  CoreInv'
<1>1. TypeOK'
  <2>1. StoreOK'
    <3>1. delivered[p] + 1 \in Indexes
      BY DEF CoreInv, TypeOK, LanesOK, WritesItsNext, AdvanceFails
    <3>2. cursor' \in {cursor, delivered[p] + 1}
      BY DEF AdvanceFails
    <3> QED
      BY <3>1, <3>2 DEF CoreInv, TypeOK, StoreOK, Indexes, AdvanceFails
  <2>2. EntriesOK'
    BY DEF CoreInv, TypeOK, AdvanceFails, CanAdvance, EntriesOK
  <2>3. LanesOK'
    <3>1. delivered[p] + 1 \in Indexes /\ delivered[p] + 1 \in Cursors
      BY DEF CoreInv, TypeOK, LanesOK, WritesItsNext, AdvanceFails, Indexes
    <3>2. lane' \in [Procs -> LaneStages]
      BY DEF CoreInv, TypeOK, LanesOK, AdvanceFails, LaneStages
    <3>3. /\ delivered' = [delivered EXCEPT ![p] = delivered[p] + 1]
          /\ owed' = [owed EXCEPT ![p] = delivered[p] + 1]
      BY DEF AdvanceFails
    <3> HIDE DEF Cursors
    <3>5. delivered' \in [Procs -> Cursors] /\ owed' \in [Procs -> Cursors]
      BY <3>1, <3>3 DEF CoreInv, TypeOK, LanesOK
    <3> QED
      BY <3>2, <3>5 DEF CoreInv, TypeOK, LanesOK, AdvanceFails
  <2>4. HistoryOK'
    BY DEF CoreInv, TypeOK, AdvanceFails, CanAdvance, HistoryOK
  <2> QED
    BY <2>1, <2>2, <2>3, <2>4 DEF TypeOK
<1>2. ClaimHeld'
  BY DEF CoreInv, TypeOK, ClaimHeld, AdvanceFails, CanAdvance, StoreOK,
     LanesOK, Tenure
<1>3. Timeline'
  BY DEF CoreInv, TypeOK, Timeline, AdvanceFails, CanAdvance
<1>4. RunsItsNext'
  BY DEF CoreInv, TypeOK, RunsItsNext, AdvanceFails, CanAdvance
<1>5. WritesItsNext'
  BY DEF CoreInv, TypeOK, WritesItsNext, AdvanceFails, CanAdvance, LanesOK
<1>6. RecordsItsOwn'
  BY DEF CoreInv, TypeOK, RecordsItsOwn, AdvanceFails, CanAdvance
<1>7. OneDelivery'
  BY DEF CoreInv, TypeOK, OneDelivery, AdvanceFails, CanAdvance
<1> QED
  BY <1>1, <1>2, <1>3, <1>4, <1>5, <1>6, <1>7 DEF CoreInv

(* RoundOver keeps the core invariant. *)
LEMMA RoundOverKeeps ==
  ASSUME CoreInv, NEW p \in Procs, RoundOver(p)
  PROVE  CoreInv'
<1>1. TypeOK'
  <2>1. StoreOK'
    BY DropType, DropEffect DEF CoreInv, TypeOK, RoundOver, Release,
       MovedByDrop, StoreOK
  <2>2. EntriesOK'
    BY DropType, DropEffect DEF CoreInv, TypeOK, RoundOver, Release,
       MovedByDrop, EntriesOK
  <2>3. LanesOK'
    BY DropType, DropEffect DEF CoreInv, TypeOK, RoundOver, Release,
       MovedByDrop, LanesOK, LaneStages
  <2>4. HistoryOK'
    BY DropType, DropEffect DEF CoreInv, TypeOK, RoundOver, Release,
       MovedByDrop, HistoryOK
  <2> QED
    BY <2>1, <2>2, <2>3, <2>4 DEF TypeOK
<1>2. ClaimHeld'
  <2>1. /\ lane[p] = "round" /\ lane' = [lane EXCEPT ![p] = "finishing"]
        /\ claim' = IF claim = p THEN NoProc ELSE claim
    BY DEF RoundOver, Release
  <2> QED
    BY <2>1 DEF CoreInv, TypeOK, StoreOK, LanesOK, ClaimHeld, Tenure
<1>3. Timeline'
  <2>1. UNCHANGED <<latest, unstored, roomLock, owner>>
    BY DEF RoundOver
  <2> QED
    BY <2>1, DropsEffect, TimelineKept DEF Queued
<1>4. RunsItsNext'
  BY DropType, DropEffect DEF CoreInv, TypeOK, RunsItsNext, RoundOver, Release,
     MovedByDrop
<1>5. WritesItsNext'
  BY DropsEffect DEF CoreInv, WritesItsNext, Queued, Entries
<1>6. RecordsItsOwn'
  BY DropsEffect, RecordsKept DEF Queued
<1>7. OneDelivery'
  BY DropType, DropEffect DEF CoreInv, TypeOK, OneDelivery, RoundOver, Release,
     MovedByDrop
<1> QED
  BY <1>1, <1>2, <1>3, <1>4, <1>5, <1>6, <1>7 DEF CoreInv

(* MeetHole keeps the core invariant. *)
LEMMA MeetHoleKeeps ==
  ASSUME CoreInv, NEW p \in Procs, MeetHole(p)
  PROVE  CoreInv'
<1>1. TypeOK'
  <2>1. StoreOK'
    BY DropType, DropEffect DEF CoreInv, TypeOK, MeetHole, MovedByDrop, StoreOK
  <2>2. EntriesOK'
    BY DropType, DropEffect DEF CoreInv, TypeOK, MeetHole, MovedByDrop,
       EntriesOK
  <2>3. LanesOK'
    <3>1. lane' \in [Procs -> LaneStages] /\ moved' \in SUBSET Procs
      BY DEF CoreInv, TypeOK, LanesOK, MeetHole, MovedByDrop, LaneStages
    <3> QED
      BY <3>1 DEF CoreInv, TypeOK, LanesOK, MeetHole
  <2>4. HistoryOK'
    BY DropType, DropEffect DEF CoreInv, TypeOK, MeetHole, MovedByDrop,
       HistoryOK
  <2> QED
    BY <2>1, <2>2, <2>3, <2>4 DEF TypeOK
<1>2. ClaimHeld'
  BY DropType, DropEffect DEF CoreInv, TypeOK, ClaimHeld, MeetHole,
     MovedByDrop, StoreOK, LanesOK, Tenure
<1>3. Timeline'
  <2>1. UNCHANGED <<latest, unstored, roomLock, owner>>
    BY DEF MeetHole
  <2> QED
    BY <2>1, DropsEffect, TimelineKept DEF Queued
<1>4. RunsItsNext'
  BY DropType, DropEffect DEF CoreInv, TypeOK, RunsItsNext, MeetHole,
     MovedByDrop
<1>5. WritesItsNext'
  BY DropsEffect DEF CoreInv, WritesItsNext, Queued, Entries
<1>6. RecordsItsOwn'
  BY DropsEffect, RecordsKept DEF Queued
<1>7. OneDelivery'
  BY DropType, DropEffect DEF CoreInv, TypeOK, OneDelivery, MeetHole,
     MovedByDrop
<1> QED
  BY <1>1, <1>2, <1>3, <1>4, <1>5, <1>6, <1>7 DEF CoreInv

(* ReadHole keeps the core invariant. *)
LEMMA ReadHoleKeeps ==
  ASSUME CoreInv, NEW p \in Procs, ReadHole(p)
  PROVE  CoreInv'
<1>1. TypeOK'
  <2>1. StoreOK'
    BY DEF CoreInv, TypeOK, ReadHole, Release, Higher, StoreOK
  <2>2. EntriesOK'
    BY DEF CoreInv, TypeOK, ReadHole, Release, Higher, EntriesOK
  <2>3. LanesOK'
    <3>1. lane' \in [Procs -> LaneStages] /\ moved' \in SUBSET Procs
      BY DEF CoreInv, TypeOK, LanesOK, ReadHole, Release, LaneStages
    <3>2. \E d, t \in Cursors : 
             /\ delivered' = [delivered EXCEPT ![p] = d]
             /\ target' = [target EXCEPT ![p] = t]
      <4> DEFINE refreshed == Higher(cursor, owed[p])
      <4>1. refreshed \in Cursors /\ delivered[p] \in Cursors /\ target[p] \in Cursors /\ -1 \in Cursors
        BY DEF CoreInv, TypeOK, StoreOK, LanesOK, Higher
      <4>2. delivered = [delivered EXCEPT ![p] = delivered[p]] /\ target = [target EXCEPT ![p] = target[p]]
        BY DEF CoreInv, TypeOK, LanesOK
      <4>3. Indexes \subseteq Cursors
        BY DEF Indexes
      <4> HIDE DEF Cursors
      <4>4. CASE delivered' = [delivered EXCEPT ![p] = refreshed] /\ UNCHANGED target
        BY <4>1, <4>2, <4>4
      <4>5. CASE UNCHANGED delivered /\ \E t \in Indexes : target' = [target EXCEPT ![p] = t]
        BY <4>1, <4>2, <4>3, <4>5
      <4>6. CASE Release(p)
        BY <4>1, <4>6 DEF Release
      <4> QED
        BY <4>4, <4>5, <4>6 DEF ReadHole
    <3> HIDE DEF Cursors
    <3>3. delivered' \in [Procs -> Cursors] /\ target' \in [Procs -> Cursors]
      BY <3>2 DEF CoreInv, TypeOK, LanesOK
    <3> QED
      BY <3>1, <3>3 DEF CoreInv, TypeOK, LanesOK, ReadHole
  <2>4. HistoryOK'
    BY DEF CoreInv, TypeOK, ReadHole, Release, Higher, HistoryOK
  <2> QED
    BY <2>1, <2>2, <2>3, <2>4 DEF TypeOK
<1>2. ClaimHeld'
  BY DEF CoreInv, TypeOK, ClaimHeld, ReadHole, Release, Higher, StoreOK,
     LanesOK, Tenure, LaneStages
<1>3. Timeline'
  BY DEF CoreInv, TypeOK, Timeline, ReadHole, Release, Higher
<1>4. RunsItsNext'
  BY DEF CoreInv, TypeOK, RunsItsNext, ReadHole, Release, Higher, EntriesOK,
     LanesOK, Entries, Timeline
<1>5. WritesItsNext'
  <2>1. lane' \in {[lane EXCEPT ![p] = "round"], [lane EXCEPT ![p] = "skipping"],
                   [lane EXCEPT ![p] = "finishing"]}
    BY DEF ReadHole, Release
  <2>2. \E d : delivered' = [delivered EXCEPT ![p] = d]
    BY DEF ReadHole, Release, CoreInv, TypeOK, LanesOK
  <2>3. at' = at /\ owner' = owner
    BY DEF ReadHole
  <2>4. \A q \in Procs : lane'[q] = "writing" => lane[q] = "writing" /\ delivered'[q] = delivered[q]
    BY <2>1, <2>2 DEF CoreInv, TypeOK, LanesOK
  <2> QED
    BY <2>3, <2>4, WritesKept
<1>6. RecordsItsOwn'
  BY DEF CoreInv, TypeOK, RecordsItsOwn, ReadHole, Release, Higher
<1>7. OneDelivery'
  BY DEF CoreInv, TypeOK, OneDelivery, ReadHole, Release, Higher
<1> QED
  BY <1>1, <1>2, <1>3, <1>4, <1>5, <1>6, <1>7 DEF CoreInv

(* Skip keeps the core invariant. *)
LEMMA SkipKeeps ==
  ASSUME CoreInv, NEW p \in Procs, Skip(p)
  PROVE  CoreInv'
<1>1. TypeOK'
  <2>1. StoreOK'
    BY DEF CoreInv, TypeOK, Skip, Release, StoreOK, LanesOK
  <2>2. EntriesOK'
    BY DEF CoreInv, TypeOK, Skip, Release, EntriesOK
  <2>3. LanesOK'
    <3>1. CASE cursor < target[p]
      BY <3>1 DEF CoreInv, TypeOK, LanesOK, Skip, LaneStages
    <3>2. CASE ~(cursor < target[p])
      <4>1. Release(p)
        BY <3>2 DEF Skip
      <4> QED
        BY <4>1 DEF CoreInv, TypeOK, LanesOK, Skip, Release, LaneStages
    <3> QED
      BY <3>1, <3>2
  <2>4. HistoryOK'
    BY DEF CoreInv, TypeOK, Skip, Release, HistoryOK
  <2> QED
    BY <2>1, <2>2, <2>3, <2>4 DEF TypeOK
<1>2. ClaimHeld'
  BY DEF CoreInv, TypeOK, ClaimHeld, Skip, Release, StoreOK, LanesOK, Tenure
<1>3. Timeline'
  BY DEF CoreInv, TypeOK, Timeline, Skip, Release
<1>4. RunsItsNext'
  BY DEF CoreInv, TypeOK, RunsItsNext, Skip, Release, EntriesOK, LanesOK,
     Entries, Timeline
<1>5. WritesItsNext'
  BY DEF CoreInv, TypeOK, WritesItsNext, Skip, Release, LanesOK
<1>6. RecordsItsOwn'
  BY DEF CoreInv, TypeOK, RecordsItsOwn, Skip, Release
<1>7. OneDelivery'
  BY DEF CoreInv, TypeOK, OneDelivery, Skip, Release
<1> QED
  BY <1>1, <1>2, <1>3, <1>4, <1>5, <1>6, <1>7 DEF CoreInv

(* Announce keeps the core invariant. *)
LEMMA AnnounceKeeps ==
  ASSUME CoreInv, NEW p \in Procs, Announce(p)
  PROVE  CoreInv'
<1>1. TypeOK'
  <2>1. StoreOK'
    BY DEF CoreInv, TypeOK, Announce, Passed, StoreOK
  <2>2. EntriesOK'
    BY DEF CoreInv, TypeOK, Announce, Passed, EntriesOK
  <2>3. LanesOK'
    BY DEF CoreInv, TypeOK, Announce, Passed, LanesOK, LaneStages
  <2>4. HistoryOK'
    BY PassedType DEF CoreInv, TypeOK, HistoryOK, Announce
  <2> QED
    BY <2>1, <2>2, <2>3, <2>4 DEF TypeOK
<1>2. ClaimHeld'
  BY DEF CoreInv, TypeOK, ClaimHeld, Announce, Passed, StoreOK, LanesOK, Tenure
<1>3. Timeline'
  BY DEF CoreInv, TypeOK, Timeline, Announce, Passed
<1>4. RunsItsNext'
  BY DEF CoreInv, TypeOK, RunsItsNext, Announce, Passed
<1>5. WritesItsNext'
  BY DEF CoreInv, TypeOK, WritesItsNext, Announce, Passed
<1>6. RecordsItsOwn'
  BY DEF CoreInv, TypeOK, RecordsItsOwn, Announce, Passed
<1>7. OneDelivery'
  BY DEF CoreInv, TypeOK, OneDelivery, Announce, Passed
<1> QED
  BY <1>1, <1>2, <1>3, <1>4, <1>5, <1>6, <1>7 DEF CoreInv

(* RoundFails keeps the core invariant. *)
LEMMA RoundFailsKeeps ==
  ASSUME CoreInv, NEW p \in Procs, RoundFails(p)
  PROVE  CoreInv'
<1>1. TypeOK'
  <2>1. StoreOK'
    BY DEF CoreInv, TypeOK, RoundFails, Release, Passed, StoreOK, LanesOK
  <2>2. EntriesOK'
    BY DEF CoreInv, TypeOK, RoundFails, Release, Passed, EntriesOK
  <2>3. LanesOK'
    BY DEF CoreInv, TypeOK, RoundFails, Release, Passed, LanesOK, LaneStages
  <2>4. HistoryOK'
    BY PassedType DEF CoreInv, TypeOK, HistoryOK, RoundFails
  <2> QED
    BY <2>1, <2>2, <2>3, <2>4 DEF TypeOK
<1>2. ClaimHeld'
  BY DEF CoreInv, TypeOK, ClaimHeld, RoundFails, Release, Passed, StoreOK,
     LanesOK, Tenure
<1>3. Timeline'
  BY DEF CoreInv, TypeOK, Timeline, RoundFails, Release, Passed
<1>4. RunsItsNext'
  BY DEF CoreInv, TypeOK, RunsItsNext, RoundFails, Release, Passed
<1>5. WritesItsNext'
  BY DEF CoreInv, TypeOK, WritesItsNext, RoundFails, Release, Passed
<1>6. RecordsItsOwn'
  BY DEF CoreInv, TypeOK, RecordsItsOwn, RoundFails, Release, Passed
<1>7. OneDelivery'
  BY DEF CoreInv, TypeOK, OneDelivery, RoundFails, Release, Passed
<1> QED
  BY <1>1, <1>2, <1>3, <1>4, <1>5, <1>6, <1>7 DEF CoreInv

(* Finish keeps the core invariant. *)
LEMMA FinishKeeps ==
  ASSUME CoreInv, NEW p \in Procs, Finish(p)
  PROVE  CoreInv'
<1>1. TypeOK'
  <2>1. StoreOK'
    BY DEF CoreInv, TypeOK, Finish, StoreOK
  <2>2. EntriesOK'
    BY DEF CoreInv, TypeOK, Finish, EntriesOK, StoreOK, Entries, Unstored,
       Indexes, Stages
  <2>3. LanesOK'
    BY DEF CoreInv, TypeOK, Finish, LanesOK
  <2>4. HistoryOK'
    BY DEF CoreInv, TypeOK, Finish, HistoryOK
  <2> QED
    BY <2>1, <2>2, <2>3, <2>4 DEF TypeOK
<1>2. ClaimHeld'
  BY DEF CoreInv, TypeOK, ClaimHeld, Finish
<1>3. Timeline'
  <2>1. UNCHANGED <<latest, unstored, roomLock, owner>>
    BY DEF Finish
  <2> QED
    BY <2>1, FinishEffect, TimelineKept
<1>4. RunsItsNext'
  BY DEF CoreInv, TypeOK, RunsItsNext, Finish
<1>5. WritesItsNext'
  <2>1. lane' = lane /\ delivered' = delivered /\ owner' = owner /\ lane[p] = "finishing"
    BY DEF Finish
  <2> QED
    BY <2>1, FinishEffect DEF CoreInv, WritesItsNext, Entries
<1>6. RecordsItsOwn'
  BY DEF CoreInv, TypeOK, RecordsItsOwn, Finish
<1>7. OneDelivery'
  BY DEF CoreInv, TypeOK, OneDelivery, Finish
<1> QED
  BY <1>1, <1>2, <1>3, <1>4, <1>5, <1>6, <1>7 DEF CoreInv

(* EndRound keeps the core invariant. *)
LEMMA EndRoundKeeps ==
  ASSUME CoreInv, NEW p \in Procs, EndRound(p)
  PROVE  CoreInv'
<1>1. TypeOK'
  <2>1. StoreOK'
    BY DEF CoreInv, TypeOK, EndRound, GapClock, StoreOK
  <2>2. EntriesOK'
    BY DEF CoreInv, TypeOK, EndRound, GapClock, EntriesOK
  <2>3. LanesOK'
    BY DEF CoreInv, TypeOK, EndRound, GapClock, LanesOK, LaneStages
  <2>4. HistoryOK'
    BY DEF CoreInv, TypeOK, EndRound, GapClock, HistoryOK
  <2> QED
    BY <2>1, <2>2, <2>3, <2>4 DEF TypeOK
<1>2. ClaimHeld'
  BY DEF CoreInv, TypeOK, ClaimHeld, EndRound, GapClock, StoreOK, LanesOK,
     Tenure
<1>3. Timeline'
  BY DEF CoreInv, TypeOK, Timeline, EndRound, GapClock
<1>4. RunsItsNext'
  BY DEF CoreInv, TypeOK, RunsItsNext, EndRound, GapClock
<1>5. WritesItsNext'
  BY DEF CoreInv, TypeOK, WritesItsNext, EndRound, GapClock
<1>6. RecordsItsOwn'
  BY DEF CoreInv, TypeOK, RecordsItsOwn, EndRound, GapClock
<1>7. OneDelivery'
  BY DEF CoreInv, TypeOK, OneDelivery, EndRound, GapClock
<1> QED
  BY <1>1, <1>2, <1>3, <1>4, <1>5, <1>6, <1>7 DEF CoreInv

(* GapTimeout keeps the core invariant. *)
LEMMA GapTimeoutKeeps ==
  ASSUME CoreInv, NEW p \in Procs, GapTimeout(p)
  PROVE  CoreInv'
<1>1. TypeOK'
  <2>1. StoreOK'
    BY DEF CoreInv, TypeOK, GapTimeout, StoreOK
  <2>2. EntriesOK'
    BY DEF CoreInv, TypeOK, GapTimeout, EntriesOK
  <2>3. LanesOK'
    BY DEF CoreInv, TypeOK, GapTimeout, LanesOK
  <2>4. HistoryOK'
    BY DEF CoreInv, TypeOK, GapTimeout, HistoryOK
  <2> QED
    BY <2>1, <2>2, <2>3, <2>4 DEF TypeOK
<1>2. ClaimHeld'
  BY DEF CoreInv, TypeOK, ClaimHeld, GapTimeout
<1>3. Timeline'
  BY DEF CoreInv, TypeOK, Timeline, GapTimeout
<1>4. RunsItsNext'
  BY DEF CoreInv, TypeOK, RunsItsNext, GapTimeout
<1>5. WritesItsNext'
  BY DEF CoreInv, TypeOK, WritesItsNext, GapTimeout
<1>6. RecordsItsOwn'
  BY DEF CoreInv, TypeOK, RecordsItsOwn, GapTimeout
<1>7. OneDelivery'
  BY DEF CoreInv, TypeOK, OneDelivery, GapTimeout
<1> QED
  BY <1>1, <1>2, <1>3, <1>4, <1>5, <1>6, <1>7 DEF CoreInv

(* Crash keeps the core invariant. *)
LEMMA CrashKeeps ==
  ASSUME CoreInv, NEW p \in Procs, Crash(p)
  PROVE  CoreInv'
<1>1. TypeOK'
  <2>1. StoreOK'
    BY DEF CoreInv, TypeOK, Crash, Passed, StoreOK
  <2>2. EntriesOK'
    BY DEF CoreInv, TypeOK, Crash, Passed, EntriesOK, StoreOK, Entries,
       Unstored, Indexes, Stages
  <2>3. LanesOK'
    BY DEF CoreInv, TypeOK, Crash, Passed, LanesOK, LaneStages
  <2>4. HistoryOK'
    BY PassedType DEF CoreInv, TypeOK, HistoryOK, Crash
  <2> QED
    BY <2>1, <2>2, <2>3, <2>4 DEF TypeOK
<1>2. ClaimHeld'
  BY DEF CoreInv, TypeOK, ClaimHeld, Crash, Passed, StoreOK, LanesOK, Tenure
<1>3. Timeline'
  <2>1. \A e \in Entries :
           \/ at'[e] = at[e]
           \/ owner[e] = p /\ at[e] \in Pending \cup {"running", "ran"} /\ at'[e] \in {"lost", "cut"}
    BY DEF Crash, CoreInv, TypeOK, EntriesOK
  <2>2. /\ UNCHANGED <<latest, unstored, owner>>
        /\ roomLock' = IF roomLock = p THEN NoProc ELSE roomLock
    BY DEF Crash
  <2>3. /\ Indexes \subseteq Entries /\ Unstored \subseteq Entries
        /\ latest # -1 => latest \in Indexes
    BY DEF CoreInv, TypeOK, StoreOK, Entries, Indexes
  <2>4. \A e \in Entries : at[e] \in {"committed", "noting"} /\ owner[e] = p => at'[e] = "lost"
    BY DEF Crash, CoreInv, TypeOK, EntriesOK, Pending
  <2> USE DEF CoreInv, Timeline
  <2>5. (\A i \in Indexes : at'[i] = "none" <=> i > latest')
        /\ (\A e \in Entries : at'[e] # "none" => owner'[e] \in Procs)
    BY <2>1, <2>2, <2>3 DEF Pending
  <2>6. (\A u \in Unstored : at'[u] \notin {"committed", "noting", "noted"})
        /\ (\A u \in Unstored : at'[u] = "none" <=> u >= MaxIndex + unstored')
    BY <2>1, <2>2, <2>3 DEF Pending
  <2>7. \A i \in Indexes :
          at'[i] \in {"committed", "noting"} => i = latest' /\ roomLock' = owner'[i]
    BY <2>1, <2>2, <2>3, <2>4
  <2>8. roomLock' # NoProc => latest' # -1 /\ at'[latest'] \in {"committed", "noting"}
    <3> SUFFICES ASSUME roomLock' # NoProc PROVE latest # -1 /\ at'[latest] = at[latest]
      BY <2>2
    <3>1. roomLock # NoProc /\ roomLock # p
      BY <2>2
    <3>2. latest \in Indexes /\ at[latest] \in {"committed", "noting"}
      BY <3>1, <2>3
    <3>3. owner[latest] = roomLock
      BY <3>2
    <3> QED
      BY <2>1, <2>3, <3>1, <3>2, <3>3
  <2> QED
    BY <2>5, <2>6, <2>7, <2>8
<1>4. RunsItsNext'
  BY DEF CoreInv, TypeOK, RunsItsNext, Crash, Passed
<1>5. WritesItsNext'
  BY DEF CoreInv, TypeOK, WritesItsNext, Crash, Passed, EntriesOK, LanesOK,
     Entries, Queued
<1>6. RecordsItsOwn'
  BY DEF CoreInv, TypeOK, RecordsItsOwn, Crash, Passed, LanesOK
<1>7. OneDelivery'
  BY DEF CoreInv, TypeOK, OneDelivery, Crash, Passed
<1> QED
  BY <1>1, <1>2, <1>3, <1>4, <1>5, <1>6, <1>7 DEF CoreInv

-----------------------------------------------------------------------------
(* The invariant holds at the start: no lane holds anything. *)
LEMMA InitCore == Init => CoreInv
<1> SUFFICES ASSUME Init PROVE CoreInv
  OBVIOUS
<1>1. TypeOK
  BY DEF Init, TypeOK, StoreOK, EntriesOK, LanesOK, HistoryOK, Stages, LaneStages
<1>2. ClaimHeld /\ OneDelivery
  BY DEF Init, ClaimHeld, OneDelivery, Tenure
<1>3. Timeline
  BY DEF Init, Timeline, Entries, Indexes, Unstored
<1>4. RunsItsNext /\ WritesItsNext /\ RecordsItsOwn
  BY DEF Init, RunsItsNext, WritesItsNext, RecordsItsOwn
<1> QED
  BY <1>1, <1>2, <1>3, <1>4 DEF CoreInv

(* A step that changes nothing keeps it. *)
LEMMA StutterKeeps ==
  ASSUME CoreInv, UNCHANGED vars
  PROVE  CoreInv'
<1>1. TypeOK' /\ ClaimHeld'
  BY DEF vars, CoreInv, TypeOK, StoreOK, EntriesOK, LanesOK, HistoryOK, ClaimHeld
<1>2. Timeline' /\ RunsItsNext' /\ WritesItsNext' /\ RecordsItsOwn' /\ OneDelivery'
  BY DEF vars, CoreInv, Timeline, RunsItsNext, WritesItsNext, RecordsItsOwn, OneDelivery
<1> QED
  BY <1>1, <1>2 DEF CoreInv

(* Every step of the lanes keeps it. *)
LEMMA CoreStep ==
  ASSUME CoreInv, [Next]_vars
  PROVE  CoreInv'
<1>1. CASE UNCHANGED vars
  BY <1>1, StutterKeeps
<1>2. ASSUME NEW p \in Procs, Places(p) PROVE CoreInv'
  BY <1>2, CommitKeeps, EnqueueKeeps, NoteCommittedKeeps, NoteFailsKeeps,
     PlaceUnstoredKeeps DEF Places
<1>3. ASSUME NEW p \in Procs, TakeClaim(p) PROVE CoreInv'
  BY <1>3, TakeClaimKeeps
<1>4. ASSUME NEW p \in Procs, LaneStep(p) PROVE CoreInv'
  <2>1. ASSUME NEW e \in Entries, Begin(p, e) \/ RunEnds(p, e) PROVE CoreInv'
    BY <2>1, BeginKeeps, RunEndsKeeps
  <2>2. CASE Poll(p) \/ Idle(p) \/ WriteOwed(p) \/ TakeNoted(p) \/ AdvanceCursor(p)
    BY <2>2, PollKeeps, IdleKeeps, WriteOwedKeeps, TakeNotedKeeps, AdvanceCursorKeeps
  <2>3. CASE RoundOver(p) \/ MeetHole(p) \/ ReadHole(p) \/ Skip(p) \/ Announce(p)
    BY <2>3, RoundOverKeeps, MeetHoleKeeps, ReadHoleKeeps, SkipKeeps, AnnounceKeeps
  <2>4. CASE Finish(p) \/ EndRound(p)
    BY <2>4, FinishKeeps, EndRoundKeeps
  <2> QED
    BY <1>4, <2>1, <2>2, <2>3, <2>4 DEF LaneStep
<1>5. ASSUME NEW p \in Procs, Fails(p) PROVE CoreInv'
  BY <1>5, WriteOwedFailsKeeps, AdvanceFailsKeeps, RoundFailsKeeps DEF Fails
<1>6. ASSUME NEW p \in Procs, GapTimeout(p) \/ Crash(p) PROVE CoreInv'
  BY <1>6, GapTimeoutKeeps, CrashKeeps
<1> QED
  BY <1>1, <1>2, <1>3, <1>4, <1>5, <1>6 DEF Next

(* The core invariant holds in every reachable state. *)
THEOREM LaneCore == Spec => []CoreInv
<1>1. Init => CoreInv
  BY InitCore
<1>2. CoreInv /\ [Next]_vars => CoreInv'
  BY CoreStep
<1> QED
  BY <1>1, <1>2, PTL DEF Spec

(* The lanes' state keeps its types: the cursor stays a committed index or  *)
(* the start, and what a lane reads, owes and skips to are such indexes     *)
(* (lanes.py, RoomDeliveryLane).                                            *)
THEOREM LaneTypeCorrect == Spec => []TypeOK
<1>1. CoreInv => TypeOK
  BY DEF CoreInv
<1> QED
  BY <1>1, LaneCore, PTL

(* However many processes serve the room, one delivery runs at a time: the  *)
(* claim of _claimed_round, through crashes and failed writes.              *)
THEOREM LaneDeliversOne == Spec => []OneDelivery
<1>1. CoreInv => OneDelivery
  BY DEF CoreInv
<1> QED
  BY <1>1, LaneCore, PTL

(***************************************************************************)
(* Order and loss.                                                         *)
(*                                                                         *)
(* The argument: the lane in its round read a cursor that nothing pending  *)
(* stands behind, but what a skip passed (KnowsCursor), or owes the writes *)
(* of its own deliveries (OwesItsOwn).  So what it begins, at its reading  *)
(* plus one, stands past every delivery that began (BegunInOrder), and the *)
(* cursor moves over an index only when that index was delivered, needed   *)
(* no delivery, or is given up by a skip (NoSilentLoss).  A skip stops     *)
(* short of all its own lane holds, for its target is the least of what    *)
(* the lane waits for (SkipsOthers).  Most actions move no cursor, and     *)
(* one lemma, OrderKept, covers them.                                      *)
(***************************************************************************)

(* The invariant's second layer, and what reads it.                        *)

(* A set of naturals has a least member (the library states it of a relation). *)
LEMMA LeastNatural ==
  ASSUME NEW S \in SUBSET Nat, S # {}
  PROVE  \E m \in S : \A n \in S : m <= n
<1> DEFINE R == OpToRel(<, Nat)
<1>1. IsWellFoundedOn(R, Nat)
  BY NatLessThanWellFounded
<1>2. \A x, y \in Nat : x < y => <<x, y>> \in R
  BY DEF OpToRel
<1> HIDE DEF R
<1>3. \E m \in S : \A n \in S : ~(<<n, m>> \in R)
  BY <1>1, WFMin
<1>4. PICK m \in S : \A n \in S : ~(<<n, m>> \in R)
  BY <1>3
<1>5. ASSUME NEW n \in S PROVE m <= n
  <2>1. m \in Nat /\ n \in Nat /\ ~(n < m)
    BY <1>2, <1>4
  <2> QED
    BY <2>1
<1> QED
  BY <1>5

(* What LaneInv adds to CoreInv. *)
OrderInv ==
    /\ Bounded /\ KnowsCursor /\ SkipsOthers
    /\ BegunInOrder /\ OwesItsOwn /\ NoSilentLoss

(* What was given up, member by member. *)
LEMMA GivenUpMember ==
  ASSUME TypeOK, NEW i \in Indexes
  PROVE  i \in GivenUp <=> \/ i \in skipped \/ i \in unheard
                           \/ \E q \in Procs : /\ lane[q] = "announcing"
                                               /\ delivered[q] < i /\ i <= target[q]
<1>1. \A q \in Procs : delivered[q] \in Int /\ target[q] \in Int
  BY DEF TypeOK, LanesOK
<1> QED
  BY <1>1 DEF GivenUp, Passed, Indexes

(* The same of the next state. *)
LEMMA GivenUpNext ==
  ASSUME TypeOK', NEW i \in Indexes
  PROVE  i \in GivenUp' <=> \/ i \in skipped' \/ i \in unheard'
                            \/ \E q \in Procs : /\ lane'[q] = "announcing"
                                                /\ delivered'[q] < i /\ i <= target'[q]
<1>1. \A q \in Procs : delivered'[q] \in Int /\ target'[q] \in Int
  BY DEF TypeOK, LanesOK
<1> QED
  BY <1>1 DEF GivenUp, Passed, Indexes

(* What the store and the lanes count are numbers, within their bounds. *)
LEMMA Numbers ==
  ASSUME TypeOK
  PROVE  /\ cursor \in Int /\ latest \in Int
         /\ \A q \in Procs : /\ delivered[q] \in Int /\ delivered[q] >= -1
                             /\ owed[q] \in Int /\ owed[q] >= -1
                             /\ target[q] \in Int /\ target[q] >= -1
         /\ \A u \in Unstored : after[u] \in Int
         /\ cursor >= -1 /\ latest >= -1 /\ latest < MaxIndex
BY DEF TypeOK, StoreOK, LanesOK, EntriesOK

(* A step that moves no cursor, begins nothing and lets no lane go further than *)
(* it stood keeps the second layer: entries leave Pending only, and a lane stays *)
(* where it is, moves within its loop, or leaves its round.                   *)
LEMMA OrderKept ==
  ASSUME CoreInv, CoreInv', OrderInv,
         UNCHANGED <<cursor, latest, unstored, owner, after>>,
         \A e \in Entries : at'[e] \in Pending => at[e] \in Pending,
         \A i \in Indexes : at'[i] \in {"committed", "noting"} => at[i] \in {"committed", "noting"},
         \A e \in Entries : at[e] = "none" => at'[e] = "none",
         \A e \in Entries : at[e] \in Begun <=> at'[e] \in Begun,
         \A e \in Entries : at[e] = "filled" => at'[e] = "filled",
         \A q \in Procs :
            \/ owed'[q] = -1 /\ lane'[q] \notin InRound
            \/ /\ owed'[q] = owed[q]
               /\ \A i \in Indexes : owner[i] = q /\ at[i] \in {"ran", "finished", "filled"}
                     => at'[i] \in {"ran", "finished", "filled"},
         \A q \in Procs :
            \/ lane'[q] = lane[q] /\ delivered'[q] = delivered[q] /\ target'[q] = target[q]
            \/ /\ lane'[q] \notin InRound
               /\ delivered'[q] \in {-1, delivered[q]} /\ target'[q] \in {-1, target[q]}
            \/ /\ {lane[q], lane'[q]} \subseteq {"round", "running", "writing"}
               /\ delivered'[q] = delivered[q] /\ target'[q] = target[q],
         skipped \subseteq skipped', unheard \subseteq unheard',
         \A q \in Procs : \A i \in Indexes : lane[q] = "announcing" /\ lane'[q] # "announcing"
            /\ delivered[q] < i /\ i <= target[q] => i \in unheard'
  PROVE  OrderInv'
<1>0. TypeOK /\ TypeOK'
  BY DEF CoreInv
<1>1. Bounded'
  BY <1>0, Numbers DEF OrderInv, Bounded, Unstored, Entries
<1>2. KnowsCursor'
  BY <1>0, Numbers DEF OrderInv, KnowsCursor, InRound, Entries
<1>3. SkipsOthers'
  <2>1. \A q \in Procs : lane[q] \in {"reading", "skipping"} => delivered[q] + 1 \in Indexes
    BY <1>0, Numbers DEF OrderInv, SkipsOthers, Indexes
  <2>2. \A q \in Procs : lane'[q] \in {"reading", "skipping", "announcing"} =>
          /\ lane'[q] = lane[q] /\ delivered'[q] = delivered[q] /\ target'[q] = target[q]
          /\ owed'[q] = owed[q]
    BY DEF InRound
  <2> QED
    BY <2>1, <2>2, <1>0, Numbers DEF OrderInv, SkipsOthers, Entries
<1>4. BegunInOrder'
  BY <1>0, Numbers DEF OrderInv, BegunInOrder, Entries
<1>5. OwesItsOwn'
  BY <1>0, Numbers DEF OrderInv, OwesItsOwn, Entries, Indexes
<1>6. NoSilentLoss'
  <2> SUFFICES ASSUME NEW i \in Indexes, i <= cursor', at'[i] \notin Begun \cup {"filled"}
               PROVE  i \in GivenUp'
    BY DEF NoSilentLoss
  <2>1. i \in GivenUp
    BY DEF OrderInv, NoSilentLoss, Entries
  <2>2. CASE i \in skipped \/ i \in unheard
    BY <2>2, <1>0, GivenUpNext
  <2>3. ASSUME NEW q \in Procs, lane[q] = "announcing", delivered[q] < i, i <= target[q]
        PROVE  i \in GivenUp'
    <3>1. CASE lane'[q] = "announcing"
      <4>1. delivered'[q] = delivered[q] /\ target'[q] = target[q]
        BY <2>3, <3>1 DEF InRound
      <4> QED
        BY <2>3, <3>1, <4>1, <1>0, GivenUpNext
    <3>2. CASE lane'[q] # "announcing"
      BY <2>3, <3>2, <1>0, GivenUpNext
    <3> QED
      BY <3>1, <3>2
  <2> QED
    BY <2>1, <2>2, <2>3, <1>0, GivenUpMember
<1> QED
  BY <1>1, <1>2, <1>3, <1>4, <1>5, <1>6 DEF OrderInv

-----------------------------------------------------------------------------
(* The placements, and what a lane does off the claim.                     *)

(* enqueue: the plan was already pending. *)
LEMMA EnqueueOrder ==
  ASSUME CoreInv, CoreInv', OrderInv, NEW p \in Procs, Enqueue(p)
  PROVE  OrderInv'
<1>1. \A e \in Entries : at'[e] = at[e] \/ (at[e] = "committed" /\ at'[e] = "queued")
  BY DEF Enqueue, CoreInv, TypeOK, EntriesOK
<1>2. Indexes \subseteq Entries
  BY DEF Entries
<1> QED
  BY <1>1, <1>2, OrderKept DEF Enqueue, Pending, Begun

(* An idle lane forgets its clock only. *)
LEMMA IdleOrder ==
  ASSUME CoreInv, CoreInv', OrderInv, NEW p \in Procs, Idle(p)
  PROVE  OrderInv'
BY OrderKept DEF Idle

(* The claim by itself moves nothing. *)
LEMMA TakeClaimOrder ==
  ASSUME CoreInv, CoreInv', OrderInv, NEW p \in Procs, TakeClaim(p)
  PROVE  OrderInv'
<1>1. \A q \in Procs : lane'[q] = lane[q] \/ (lane[q] = "want" /\ lane'[q] = "owed")
  BY DEF TakeClaim, CoreInv, TypeOK, LanesOK
<1> QED
  BY <1>1, OrderKept DEF TakeClaim, InRound

(* Nor does the clock. *)
LEMMA GapTimeoutOrder ==
  ASSUME CoreInv, CoreInv', OrderInv, NEW p \in Procs, GapTimeout(p)
  PROVE  OrderInv'
BY OrderKept DEF GapTimeout

(* Nor the end of a round. *)
LEMMA EndRoundOrder ==
  ASSUME CoreInv, CoreInv', OrderInv, NEW p \in Procs, EndRound(p)
  PROVE  OrderInv'
<1>1. \A q \in Procs : lane'[q] = lane[q] \/ (lane[q] = "finishing" /\ lane'[q] = "rest")
  BY DEF EndRound, CoreInv, TypeOK, LanesOK
<1> QED
  BY <1>1, OrderKept DEF EndRound, InRound

(* What is finished was begun, and stays so. *)
LEMMA FinishOrder ==
  ASSUME CoreInv, CoreInv', OrderInv, NEW p \in Procs, Finish(p)
  PROVE  OrderInv'
<1>1. \A e \in Entries : \/ at'[e] = at[e]
                         \/ at[e] \in {"running", "ran", "finished"} /\ at'[e] = "finished"
  BY FinishEffect
<1>2. Indexes \subseteq Entries
  BY DEF Entries
<1> QED
  BY <1>1, <1>2, OrderKept DEF Finish, Pending, Begun

(* What ran was begun; its lane goes on in the loop. *)
LEMMA RunEndsOrder ==
  ASSUME CoreInv, CoreInv', OrderInv, NEW p \in Procs, NEW e \in Entries, RunEnds(p, e)
  PROVE  OrderInv'
<1>1. \A f \in Entries : at'[f] = at[f] \/ (at[f] = "running" /\ at'[f] = "ran")
  BY DEF RunEnds, CoreInv, TypeOK, EntriesOK
<1>2. \A q \in Procs : \/ lane'[q] = lane[q]
                       \/ lane[q] = "running" /\ lane'[q] \in {"writing", "round"}
  BY DEF RunEnds, CoreInv, TypeOK, LanesOK
<1>3. Indexes \subseteq Entries
  BY DEF Entries
<1> QED
  BY <1>1, <1>2, <1>3, OrderKept DEF RunEnds, Pending, Begun

(* _drop_stale drops pending entries; the lane is in no round. *)
LEMMA PollOrder ==
  ASSUME CoreInv, CoreInv', OrderInv, NEW p \in Procs, Poll(p)
  PROVE  OrderInv'
<1>1. Indexes \subseteq Entries
  BY DEF Entries
<1> QED
  BY <1>1, PollEffect, OrderKept DEF Poll, Pending, Begun, Queued, InRound

(* The same at the end of a round. *)
LEMMA RoundOverOrder ==
  ASSUME CoreInv, CoreInv', OrderInv, NEW p \in Procs, RoundOver(p)
  PROVE  OrderInv'
<1>1. Indexes \subseteq Entries
  BY DEF Entries
<1>2. lane'[p] = "finishing" /\ lane[p] = "round" /\ delivered'[p] = -1 /\ target'[p] = -1
  BY DEF RoundOver, Release, CoreInv, TypeOK, LanesOK
<1>3. \A q \in Procs : q # p => target'[q] = target[q]
  BY DEF RoundOver, Release, CoreInv, TypeOK, LanesOK
<1> QED
  BY <1>1, <1>2, <1>3, DropsEffect, OrderKept DEF RoundOver, Pending, Begun, Queued, InRound

(* A crash loses pending entries, cuts what runs, and leaves what an announcing *)
(* lane passed unheard.                                                       *)
LEMMA CrashOrder ==
  ASSUME CoreInv, CoreInv', OrderInv, NEW p \in Procs, Crash(p)
  PROVE  OrderInv'
<1>1. Indexes \subseteq Entries
  BY DEF Entries
<1>2. \A e \in Entries : IF owner[e] # p THEN at'[e] = at[e]
                ELSE IF at[e] \in Pending THEN at'[e] = "lost"
                ELSE IF at[e] \in {"running", "ran"} THEN at'[e] = "cut" ELSE at'[e] = at[e]
  BY DEF Crash
<1>3. /\ lane'[p] = "rest" /\ delivered'[p] = -1 /\ target'[p] = -1 /\ owed'[p] = -1
      /\ \A q \in Procs : q # p => /\ lane'[q] = lane[q] /\ delivered'[q] = delivered[q]
                                   /\ target'[q] = target[q] /\ owed'[q] = owed[q]
  BY DEF Crash, CoreInv, TypeOK, LanesOK
<1>4. \A i \in Indexes : lane[p] = "announcing" /\ delivered[p] < i /\ i <= target[p]
                           => i \in unheard'
  <2>1. delivered[p] \in Int /\ target[p] \in Int
    BY Numbers DEF CoreInv
  <2> QED
    BY <2>1 DEF Crash, Passed, Indexes
<1>5. unheard \subseteq unheard' /\ skipped' = skipped
  BY DEF Crash
<1>6. UNCHANGED <<cursor, latest, unstored, owner, after>>
  BY DEF Crash
<1> QED
  BY <1>1, <1>2, <1>3, <1>4, <1>5, <1>6, OrderKept DEF Pending, Begun, InRound

(* The lane in its tenure is alone there. *)
LEMMA AloneInRound ==
  ASSUME CoreInv, NEW p \in Procs, lane[p] \in Tenure
  PROVE  \A q \in Procs : q # p => lane[q] \notin Tenure
BY DEF CoreInv, ClaimHeld

(* A commit takes an index past everything that stands. *)
LEMMA CommitOrder ==
  ASSUME CoreInv, CoreInv', OrderInv,
         NEW p \in Procs, NEW s \in {"committed", "noting"}, Commit(p, s)
  PROVE  OrderInv'
<1> DEFINE new == latest + 1
<1>0. TypeOK /\ TypeOK'
  BY DEF CoreInv
<1>1. /\ new \in Indexes /\ at[new] = "none"
      /\ \A e \in Entries : e # new => at'[e] = at[e] /\ owner'[e] = owner[e]
      /\ at'[new] \in {"committed", "noting"}
  BY DEF Commit, CoreInv, TypeOK, StoreOK, EntriesOK, Timeline, Entries
<1>2. latest' = new /\ UNCHANGED <<cursor, after, lane, delivered, owed, target, skipped, unheard>>
  BY DEF Commit
<1>3. \A i \in Indexes : i \in Entries /\ i \in Int
  BY DEF Entries, Indexes
<1>4. Bounded'
  <2>1. cursor' <= latest' /\ \A u \in Unstored : after'[u] <= latest'
    BY <1>0, <1>2, Numbers DEF OrderInv, Bounded
  <2>2. \A q \in Procs : owed'[q] <= latest' /\ delivered'[q] <= latest' /\ target'[q] <= latest'
    BY <1>0, <1>2, Numbers DEF OrderInv, Bounded
  <2>3. \A u \in Unstored, i \in Indexes :
          at'[u] # "none" /\ i <= after'[u] => at'[i] \notin {"committed", "noting"}
    <3> SUFFICES ASSUME NEW u \in Unstored, NEW i \in Indexes, at'[u] # "none", i <= after'[u]
                 PROVE  at'[i] \notin {"committed", "noting"}
      OBVIOUS
    <3>1. after[u] <= latest /\ i # new /\ u # new /\ u \in Entries
      BY <1>0, <1>1, <1>2, <1>3, Numbers DEF OrderInv, Bounded, Unstored, Entries, Indexes
    <3> QED
      BY <1>1, <1>2, <1>3, <3>1 DEF OrderInv, Bounded
  <2> QED
    BY <2>1, <2>2, <2>3 DEF Bounded
<1>5. cursor < new /\ \A q \in Procs : owed[q] < new /\ delivered[q] < new /\ target[q] < new
  BY <1>0, Numbers DEF OrderInv, Bounded
<1>6. KnowsCursor'
  BY <1>0, <1>1, <1>2, <1>3, <1>5, Numbers DEF OrderInv, KnowsCursor
<1>7. SkipsOthers'
  <2>1. \A q \in Procs : lane[q] \in {"reading", "skipping"} => delivered[q] + 1 < new
    BY <1>0, Numbers DEF OrderInv, SkipsOthers
  <2> QED
    BY <1>0, <1>1, <1>2, <1>3, <1>5, <2>1, Numbers DEF OrderInv, SkipsOthers
<1>8. BegunInOrder'
  <2>1. \A j \in Indexes : at[j] \in Begun => j <= latest
    BY <1>0, Numbers DEF CoreInv, Timeline, Begun, Indexes
  <2> QED
    BY <1>0, <1>1, <1>2, <1>3, <2>1, Numbers DEF OrderInv, BegunInOrder, Begun
<1>9. OwesItsOwn'
  BY <1>0, <1>1, <1>2, <1>3, <1>5, Numbers DEF OrderInv, OwesItsOwn
<1>10. NoSilentLoss'
  <2>1. GivenUp' = GivenUp
    BY <1>2 DEF GivenUp, Passed
  <2> QED
    BY <1>0, <1>1, <1>2, <1>3, <1>5, <2>1, Numbers DEF OrderInv, NoSilentLoss
<1> QED
  BY <1>4, <1>6, <1>7, <1>8, <1>9, <1>10 DEF OrderInv

(* An anchor is taken while nothing is on its way to a lane. *)
LEMMA PlaceUnstoredOrder ==
  ASSUME CoreInv, CoreInv', OrderInv, NEW p \in Procs, PlaceUnstored(p)
  PROVE  OrderInv'
<1> DEFINE new == MaxIndex + unstored
<1>0. TypeOK /\ TypeOK'
  BY DEF CoreInv
<1>1. /\ new \in Unstored /\ new \notin Indexes
      /\ \A i \in Indexes : at'[i] = at[i] /\ owner'[i] = owner[i]
      /\ \A u \in Unstored : u # new => at'[u] = at[u] /\ after'[u] = after[u]
      /\ after'[new] = latest
  BY DEF PlaceUnstored, CoreInv, TypeOK, StoreOK, EntriesOK, Timeline, Entries, Unstored, Indexes
<1>2. UNCHANGED <<cursor, latest, lane, delivered, owed, target, skipped, unheard>>
  BY DEF PlaceUnstored
<1>3. \A i \in Indexes : at[i] \notin {"committed", "noting"}
  BY DEF PlaceUnstored, CoreInv, Timeline, Entries
<1>4. Bounded'
  BY <1>0, <1>1, <1>2, <1>3, Numbers DEF OrderInv, Bounded
<1>5. KnowsCursor' /\ SkipsOthers' /\ BegunInOrder' /\ OwesItsOwn'
  BY <1>1, <1>2 DEF OrderInv, KnowsCursor, SkipsOthers, BegunInOrder, OwesItsOwn
<1>6. NoSilentLoss'
  <2>1. GivenUp' = GivenUp
    BY <1>2 DEF GivenUp, Passed
  <2> QED
    BY <1>1, <1>2, <2>1 DEF OrderInv, NoSilentLoss
<1> QED
  BY <1>4, <1>5, <1>6 DEF OrderInv

(* An index that needs no delivery moves the cursor over itself alone, or is  *)
(* left to the lane, or lost.                                                 *)
LEMMA NoteOrder ==
  ASSUME CoreInv, CoreInv', OrderInv, NEW p \in Procs, NoteCommitted(p) \/ NoteFails(p)
  PROVE  OrderInv'
<1>0. TypeOK /\ TypeOK'
  BY DEF CoreInv
<1>1. /\ at[latest] = "noting" /\ at' \in {[at EXCEPT ![latest] = s] : s \in {"filled", "noted", "lost"}}
      /\ UNCHANGED <<latest, unstored, owner, after, lane, delivered, owed, target, skipped, unheard>>
  BY DEF NoteCommitted, NoteFails
<1>2. \A i \in Indexes : i \in Entries /\ i \in Int
  BY DEF Entries, Indexes
<1>3. CASE cursor' = cursor
  <2>1. latest \in Entries => at'[latest] \in {"filled", "noted", "lost"}
    BY <1>1, <1>0 DEF TypeOK, EntriesOK
  <2>2. \A e \in Entries : e # latest => at'[e] = at[e]
    BY <1>1, <1>0 DEF TypeOK, EntriesOK
  <2>3. latest \in Indexes
    BY DEF NoteCommitted, NoteFails, CoreInv, Timeline, TypeOK, StoreOK, Indexes
  <2> QED
    BY <1>1, <1>2, <1>3, <2>1, <2>2, <2>3, OrderKept DEF Pending, Begun
<1>4. CASE cursor' = latest /\ cursor = latest - 1 /\ at' = [at EXCEPT ![latest] = "filled"]
  <2>1. \A e \in Entries : \/ e = latest /\ at'[e] = "filled" /\ at[e] = "noting"
                           \/ at'[e] = at[e] /\ e # latest
    BY <1>1, <1>4, <1>0 DEF TypeOK, EntriesOK
  <2>2. Bounded'
    BY <1>0, <1>1, <1>2, <1>4, <2>1, Numbers DEF OrderInv, Bounded, Unstored, Entries
  <2>3. KnowsCursor'
    BY <1>0, <1>1, <1>2, <1>4, <2>1, Numbers DEF OrderInv, KnowsCursor, Pending
  <2>4. SkipsOthers'
    BY <1>0, <1>1, <1>2, <1>4, <2>1, Numbers DEF OrderInv, SkipsOthers, Pending
  <2>5. BegunInOrder'
    BY <1>0, <1>1, <1>2, <1>4, <2>1, Numbers DEF OrderInv, BegunInOrder, Pending, Begun
  <2>6. OwesItsOwn'
    BY <1>0, <1>1, <1>2, <1>4, <2>1, Numbers DEF OrderInv, OwesItsOwn
  <2>7. NoSilentLoss'
    <3>1. GivenUp' = GivenUp
      BY <1>1 DEF GivenUp, Passed
    <3> QED
      BY <1>0, <1>1, <1>2, <1>4, <2>1, <3>1, Numbers DEF OrderInv, NoSilentLoss, Begun
  <2> QED
    BY <2>2, <2>3, <2>4, <2>5, <2>6, <2>7 DEF OrderInv
<1> QED
  BY <1>3, <1>4 DEF NoteCommitted, NoteFails, CanAdvance

(* A cursor entry is filled: pending no longer, and nothing began. *)
LEMMA TakeNotedOrder ==
  ASSUME CoreInv, CoreInv', OrderInv, NEW p \in Procs, TakeNoted(p)
  PROVE  OrderInv'
<1>1. \A i \in Indexes : i \in Entries
  BY DEF Entries
<1>2. lane[p] = "round" /\ lane'[p] = "writing"
  BY DEF TakeNoted, CoreInv, TypeOK, LanesOK
<1>3. UNCHANGED <<cursor, latest, unstored, owner, after, delivered, owed, target, skipped, unheard>>
  BY DEF TakeNoted
<1>4. \A f \in Entries : at'[f] = at[f] \/ (at[f] \in Queued /\ at'[f] \in {"stale", "filled"})
  BY TakeNotedEffect
<1>5. \A q \in Procs : q # p => lane'[q] = lane[q]
  BY TakeNotedEffect
<1> QED
  BY <1>1, <1>2, <1>3, <1>4, <1>5, OrderKept DEF Pending, Begun, Queued, InRound

(* What begins is the lane's next: below it, what is pending stands behind the *)
(* cursor, for what the lane owes above it is delivered.                      *)
LEMMA BeginOrder ==
  ASSUME CoreInv, CoreInv', OrderInv, NEW p \in Procs, NEW e \in Entries, Begin(p, e)
  PROVE  OrderInv'
<1>0. TypeOK /\ TypeOK'
  BY DEF CoreInv
<1>1. \A i \in Indexes : i \in Entries /\ i \in Int
  BY DEF Entries, Indexes
<1>2. /\ \A f \in Entries : \/ f = e /\ at[f] \in Queued /\ at'[f] = "running"
                            \/ f # e /\ at'[f] = at[f]
                            \/ f # e /\ at[f] \in Queued /\ at'[f] \in {"stale", "filled"}
      /\ \A q \in Procs : q # p => lane'[q] = lane[q]
      /\ lane[p] = "round" /\ lane'[p] = "running"
  BY BeginEffect
<1>3. UNCHANGED <<cursor, latest, unstored, owner, after, delivered, owed, target, skipped, unheard>>
  BY DEF Begin
<1>4. \A f \in Entries : /\ at'[f] \in Pending => at[f] \in Pending
                         /\ f # e /\ at'[f] \in Begun => at[f] \in Begun
                         /\ at[f] \in {"ran", "finished", "filled"} \cup Begun => at'[f] = at[f]
                         /\ at'[f] \in {"committed", "noting"} => at[f] = at'[f]
                         /\ at[f] = "none" => at'[f] = "none"
  BY <1>2 DEF Pending, Begun, Queued
<1>5. Bounded'
  BY <1>0, <1>1, <1>3, <1>4, Numbers DEF OrderInv, Bounded, Unstored, Entries
<1>6. KnowsCursor'
  BY <1>0, <1>1, <1>2, <1>3, <1>4, Numbers DEF OrderInv, KnowsCursor, InRound
<1>7. SkipsOthers'
  BY <1>0, <1>1, <1>2, <1>3, <1>4, Numbers DEF OrderInv, SkipsOthers
<1>8. BegunInOrder'
  <2> SUFFICES ASSUME NEW i \in Indexes, NEW j \in Indexes, i < j, at'[j] \in Begun, at'[i] \in Pending
               PROVE  i <= cursor
    BY <1>3 DEF BegunInOrder
  <2>1. CASE j # e
    BY <2>1, <1>1, <1>4 DEF OrderInv, BegunInOrder
  <2>2. CASE j = e
    <3>1. j = delivered[p] + 1 /\ i <= delivered[p]
      BY <2>2, <1>0, <1>1, Numbers DEF Begin, Runs, Unstored, Indexes
    <3>2. delivered[p] <= cursor \/ delivered[p] = owed[p]
      BY <1>2 DEF OrderInv, KnowsCursor, InRound
    <3>3. at[i] \notin {"ran", "finished", "filled"}
      BY <1>1, <1>4 DEF Pending
    <3> QED
      BY <3>1, <3>2, <3>3, <1>0, <1>1, Numbers DEF OrderInv, OwesItsOwn
  <2> QED
    BY <2>1, <2>2
<1>9. OwesItsOwn'
  BY <1>0, <1>1, <1>3, <1>4, Numbers DEF OrderInv, OwesItsOwn
<1>10. NoSilentLoss'
  <2> SUFFICES ASSUME NEW i \in Indexes, i <= cursor, at'[i] \notin Begun \cup {"filled"}
               PROVE  i \in GivenUp'
    BY <1>3 DEF NoSilentLoss
  <2>1. i \in GivenUp
    BY <1>1, <1>4 DEF OrderInv, NoSilentLoss
  <2> QED
    BY <2>1, <1>0, <1>2, <1>3, GivenUpMember, GivenUpNext
<1> QED
  BY <1>5, <1>6, <1>7, <1>8, <1>9, <1>10 DEF OrderInv

-----------------------------------------------------------------------------
(* The cursor writes of a round.                                           *)

(* A write that moves the cursor by one onto an index its lane delivered. *)
LEMMA CursorMoved ==
  ASSUME CoreInv, CoreInv', OrderInv, NEW p \in Procs,
         UNCHANGED <<latest, unstored, owner, after, at, target, skipped, unheard>>,
         lane[p] \in {"owed", "writing"}, lane'[p] \in {"owed", "round"},
         \A q \in Procs : q # p => /\ lane'[q] = lane[q] /\ delivered'[q] = delivered[q]
                                   /\ owed'[q] = owed[q],
         \/ cursor' = cursor
         \/ /\ cursor' = cursor + 1 /\ cursor' \in Indexes
            /\ at[cursor + 1] \in {"ran", "finished", "filled"},
         owed'[p] <= latest, delivered'[p] <= latest,
         lane'[p] = "round" =>
           /\ delivered'[p] <= cursor' \/ delivered'[p] = owed'[p]
           /\ \A i \in Indexes : delivered'[p] < i /\ i <= cursor' => at[i] \notin Pending,
         \A i \in Indexes : cursor' < i /\ i <= owed'[p] =>
           owner[i] = p /\ at[i] \in {"ran", "finished", "filled"}
  PROVE  OrderInv'
<1>0. TypeOK /\ TypeOK'
  BY DEF CoreInv
<1>1. \A i \in Indexes : i \in Entries /\ i \in Int
  BY DEF Entries, Indexes
<1>2. \A q \in Procs : q # p => lane[q] \notin Tenure /\ lane'[q] \notin Tenure
  BY AloneInRound DEF Tenure
<1>3. cursor' <= latest
  BY <1>0, <1>1, Numbers DEF OrderInv, Bounded, CoreInv, Timeline
<1>4. Bounded'
  BY <1>0, <1>3, Numbers DEF OrderInv, Bounded
<1>5. KnowsCursor'
  BY <1>2 DEF KnowsCursor, InRound, Tenure
<1>6. SkipsOthers'
  BY <1>2 DEF SkipsOthers, Tenure
<1>7. BegunInOrder'
  BY <1>0, <1>1, Numbers DEF OrderInv, BegunInOrder
<1>8. OwesItsOwn'
  <2>1. \A q \in Procs, i \in Indexes : q # p /\ cursor' < i /\ i <= owed'[q] =>
          cursor < i /\ i <= owed[q]
    BY <1>0, <1>1, Numbers
  <2> QED
    BY <2>1 DEF OrderInv, OwesItsOwn
<1>9. NoSilentLoss'
  <2> SUFFICES ASSUME NEW i \in Indexes, i <= cursor', at[i] \notin Begun \cup {"filled"}
               PROVE  i \in GivenUp'
    BY DEF NoSilentLoss
  <2>1. i <= cursor
    BY <1>0, <1>1, Numbers DEF Begun
  <2>2. i \in GivenUp
    BY <2>1 DEF OrderInv, NoSilentLoss
  <2> QED
    BY <2>2, <1>0, <1>2, GivenUpMember, GivenUpNext DEF Tenure
<1> QED
  BY <1>4, <1>5, <1>6, <1>7, <1>8, <1>9 DEF OrderInv

(* _write_owed_cursor moves over what the lane delivered, one index at a time. *)
LEMMA WriteOwedOrder ==
  ASSUME CoreInv, CoreInv', OrderInv, NEW p \in Procs, WriteOwed(p) \/ WriteOwedFails(p)
  PROVE  OrderInv'
<1>0. TypeOK /\ TypeOK'
  BY DEF CoreInv
<1>1. /\ UNCHANGED <<latest, unstored, owner, after, at, target, skipped, unheard>>
      /\ lane[p] = "owed"
  BY DEF WriteOwed, WriteOwedFails
<1>2. \A q \in Procs : q # p => /\ lane'[q] = lane[q] /\ delivered'[q] = delivered[q]
                                /\ owed'[q] = owed[q]
  BY <1>0 DEF WriteOwed, WriteOwedFails, TypeOK, LanesOK
<1>3. owed[p] <= latest /\ delivered[p] <= latest /\ cursor <= latest
  BY DEF OrderInv, Bounded
<1>4. \A i \in Indexes : cursor < i /\ i <= owed[p] =>
           owner[i] = p /\ at[i] \in {"ran", "finished", "filled"}
  BY DEF OrderInv, OwesItsOwn
<1>5. cursor < owed[p] => /\ cursor + 1 \in Indexes
                          /\ at[cursor + 1] \in {"ran", "finished", "filled"}
  <2>1. cursor < owed[p] => cursor + 1 \in Indexes /\ cursor < cursor + 1 /\ cursor + 1 <= owed[p]
    BY <1>0, <1>3, Numbers DEF Indexes
  <2> QED
    BY <2>1, <1>4
<1>6. CASE WriteOwed(p) /\ cursor < owed[p]
  <2>1. /\ cursor' = cursor + 1 /\ lane'[p] = "owed" /\ delivered'[p] = delivered[p]
        /\ owed'[p] = owed[p]
    BY <1>6, <1>1 DEF WriteOwed, Owing
  <2>2. \A i \in Indexes : cursor' < i => cursor < i
    BY <2>1, <1>0, Numbers DEF Indexes
  <2> QED
    BY <1>1, <1>2, <1>3, <1>4, <1>5, <1>6, <2>1, <2>2, CursorMoved
<1>7. CASE WriteOwed(p) /\ ~(cursor < owed[p])
  <2>1. cursor' = cursor /\ lane'[p] = "round" /\ delivered'[p] = cursor /\ owed'[p] = -1
    BY <1>7, <1>0 DEF WriteOwed, Owing, TypeOK, LanesOK
  <2>2. /\ -1 <= latest /\ cursor <= cursor
        /\ \A i \in Indexes : ~(cursor < i /\ i <= cursor) /\ ~(cursor < i /\ i <= -1)
    BY <1>0, Numbers DEF Indexes
  <2> QED
    BY <1>1, <1>2, <1>3, <2>1, <2>2, CursorMoved
<1>8. CASE WriteOwedFails(p)
  <2>1. /\ cursor' \in {cursor, cursor + 1} /\ cursor < owed[p]
        /\ lane'[p] = "round" /\ delivered'[p] = owed[p] /\ owed'[p] = owed[p]
    BY <1>8, <1>0 DEF WriteOwedFails, Owing, TypeOK, LanesOK
  <2>2. \A i \in Indexes : /\ cursor' < i => cursor < i
                           /\ ~(owed[p] < i /\ i <= cursor')
    BY <2>1, <1>0, Numbers DEF Indexes
  <2> QED
    BY <1>1, <1>2, <1>3, <1>4, <1>5, <2>1, <2>2, CursorMoved
<1> QED
  BY <1>6, <1>7, <1>8

(* _advance_cursor: behind delivered + 1 the cursor already stood, or it is owed. *)
LEMMA AdvanceOrder ==
  ASSUME CoreInv, CoreInv', OrderInv, NEW p \in Procs, AdvanceCursor(p) \/ AdvanceFails(p)
  PROVE  OrderInv'
<1> DEFINE i == delivered[p] + 1
<1>0. TypeOK /\ TypeOK'
  BY DEF CoreInv
<1>1. /\ UNCHANGED <<latest, unstored, owner, after, at, target, skipped, unheard>>
      /\ lane[p] = "writing"
  BY DEF AdvanceCursor, AdvanceFails
<1>2. \A q \in Procs : q # p => /\ lane'[q] = lane[q] /\ delivered'[q] = delivered[q]
                                /\ owed'[q] = owed[q]
  BY <1>0 DEF AdvanceCursor, AdvanceFails, TypeOK, LanesOK
<1>3. /\ lane'[p] = "round" /\ delivered'[p] = i
      /\ cursor' = cursor \/ (cursor' = i /\ cursor = delivered[p])
      /\ owed'[p] = owed[p] \/ owed'[p] = i
  BY <1>0, Numbers DEF AdvanceCursor, AdvanceFails, CanAdvance, TypeOK, LanesOK
<1>4. i \in Indexes /\ owner[i] = p /\ at[i] \in {"ran", "filled"}
  BY <1>1 DEF CoreInv, WritesItsNext
<1>5. i <= latest
  BY <1>0, <1>4, Numbers DEF CoreInv, Timeline, Indexes
<1>6. /\ owed[p] <= latest /\ cursor <= latest
      /\ delivered[p] <= cursor \/ delivered[p] = owed[p]
  BY <1>1 DEF OrderInv, Bounded, KnowsCursor, InRound
<1>7. \A j \in Indexes : delivered[p] < j /\ j <= cursor => at[j] \notin Pending
  BY <1>1 DEF OrderInv, KnowsCursor, InRound
<1>8. \A j \in Indexes : i < j /\ j <= cursor' => at[j] \notin Pending
  BY <1>0, <1>3, <1>7, Numbers DEF Indexes
<1>9. i <= cursor' \/ i = owed'[p]
  <2>1. CASE owed[p] # -1
    BY <2>1, <1>0, <1>1 DEF AdvanceCursor, AdvanceFails, TypeOK, LanesOK
  <2>2. CASE owed[p] = -1 /\ AdvanceFails(p)
    BY <2>2, <1>0, <1>1 DEF AdvanceFails, TypeOK, LanesOK
  <2>3. CASE owed[p] = -1 /\ AdvanceCursor(p)
    <3>1. delivered[p] <= cursor
      BY <2>3, <1>0, <1>6, Numbers
    <3>2. cursor' = IF cursor = i - 1 THEN i ELSE cursor
      BY <2>3 DEF AdvanceCursor, CanAdvance
    <3> QED
      BY <3>1, <3>2, <1>0, Numbers
  <2> QED
    BY <2>1, <2>2, <2>3
<1>10. \A j \in Indexes : cursor' < j /\ j <= owed'[p] =>
           owner[j] = p /\ at[j] \in {"ran", "finished", "filled"}
  <2> SUFFICES ASSUME NEW j \in Indexes, cursor' < j, j <= owed'[p], j # i
               PROVE  owner[j] = p /\ at[j] \in {"ran", "finished", "filled"}
    BY <1>4
  <2>1. cursor < j
    BY <1>0, <1>3, Numbers DEF Indexes
  <2>2. j <= owed[p]
    BY <2>1, <1>0, <1>3, <1>6, Numbers DEF Indexes
  <2> QED
    BY <2>1, <2>2 DEF OrderInv, OwesItsOwn
<1>11. cursor' = cursor + 1 \/ cursor' = cursor
  BY <1>0, <1>3, Numbers
<1> QED
  BY <1>1, <1>2, <1>3, <1>4, <1>5, <1>6, <1>8, <1>9, <1>10, <1>11, CursorMoved

-----------------------------------------------------------------------------
(* Holes and skips.                                                        *)

(* A lane that meets a hole holds something past it. *)
LEMMA HoldsPastHole ==
  ASSUME CoreInv, OrderInv, NEW p \in Procs, NoTurn(p),
         MyIndexed(p) \cup MyUnstored(p) # Stale(p, delivered[p])
  PROVE  \/ \E j \in MyIndexed(p) : j > delivered[p] + 1
         \/ \E u \in MyUnstored(p) : after[u] > delivered[p]
<1>0. TypeOK /\ delivered[p] \in Int
  BY Numbers DEF CoreInv
<1>1. \A i \in MyIndexed(p) : i \in Indexes /\ i \in Int /\ i # delivered[p] + 1
  BY DEF NoTurn, HasTurn, MyIndexed, Indexes
<1>2. CASE MyUnstored(p) = {}
  <2>1. Stale(p, delivered[p]) \subseteq MyIndexed(p)
    BY DEF Stale
  <2>2. PICK j \in MyIndexed(p) : j \notin Stale(p, delivered[p])
    BY <1>2, <2>1
  <2>3. ~(j <= delivered[p])
    BY <2>2 DEF Stale
  <2> QED
    BY <2>3, <1>0, <1>1
<1>3. CASE MyUnstored(p) # {}
  <2>1. MyUnstored(p) \in SUBSET Nat
    BY DEF MyUnstored, Unstored
  <2>2. PICK u \in MyUnstored(p) : \A v \in MyUnstored(p) : u <= v
    BY <1>3, <2>1, LeastNatural
  <2>3. ~(after[u] <= delivered[p])
    BY <2>2 DEF NoTurn, HasTurn, Due
  <2>4. after[u] \in Int
    BY <1>0, Numbers DEF MyUnstored
  <2> QED
    BY <2>3, <2>4, <1>0
<1> QED
  BY <1>2, <1>3

(* A lane that meets a hole holds nothing at it or behind it. *)
LEMMA MeetHoleOrder ==
  ASSUME CoreInv, CoreInv', OrderInv, NEW p \in Procs, MeetHole(p)
  PROVE  OrderInv'
<1> DEFINE d == delivered[p]
<1>0. TypeOK /\ TypeOK' /\ d \in Int
  BY Numbers DEF CoreInv
<1>1. \A i \in Indexes : i \in Entries /\ i \in Int
  BY DEF Entries, Indexes
<1>2. UNCHANGED <<cursor, latest, unstored, owner, after, delivered, owed, target, skipped, unheard>>
  BY DEF MeetHole
<1>3. /\ lane[p] = "round" /\ lane'[p] = "reading"
      /\ \A q \in Procs : q # p => lane'[q] = lane[q] /\ lane[q] \notin Tenure
  BY <1>0, AloneInRound DEF MeetHole, TypeOK, LanesOK, Tenure
<1>4. \A f \in Entries : \/ at'[f] = at[f]
                         \/ at[f] \in Queued /\ at'[f] \in {"stale", "filled"}
  BY DropsEffect
<1>5. \A f \in Entries : /\ at'[f] \in Pending => at[f] \in Pending
                         /\ at'[f] \in Begun <=> at[f] \in Begun
                         /\ at[f] \in {"ran", "finished", "filled"} => at'[f] = at[f]
                         /\ at'[f] \in {"committed", "noting"} => at[f] = at'[f]
                         /\ at[f] = "none" => at'[f] = "none"
  BY <1>4 DEF Pending, Begun, Queued
<1>6. Bounded'
  BY <1>0, <1>1, <1>2, <1>5, Numbers DEF OrderInv, Bounded, Unstored, Entries
<1>7. KnowsCursor'
  BY <1>0, <1>1, <1>2, <1>3, <1>5, Numbers DEF OrderInv, KnowsCursor, InRound
<1>8. SkipsOthers'
  <2>1. \/ \E j \in MyIndexed(p) : j > d + 1
        \/ \E u \in MyUnstored(p) : after[u] > d
    BY HoldsPastHole DEF MeetHole
  <2>2. \A j \in MyIndexed(p) : j \in Indexes /\ j \in Int /\ j <= latest
    BY <1>0, Numbers DEF MyIndexed, CoreInv, Timeline, Queued, Indexes
  <2>3. \A u \in MyUnstored(p) : u \in Unstored /\ after[u] \in Int /\ after[u] <= latest /\ at[u] # "none"
    BY <1>0, Numbers DEF MyUnstored, OrderInv, Bounded, Queued
  <2>4. d + 1 <= latest
    BY <2>1, <2>2, <2>3, <1>0, Numbers
  <2>5. ASSUME NEW i \in Indexes, i <= d + 1, owner[i] = p, at'[i] \in Pending
        PROVE  FALSE
    <3>1. at[i] \in Pending
      BY <2>5, <1>1, <1>5
    <3>2. CASE at[i] \in Queued
      <4>1. i \in MyIndexed(p) /\ i # d + 1
        BY <2>5, <3>2 DEF MyIndexed, MeetHole, NoTurn, HasTurn
      <4>2. i \in Stale(p, d)
        BY <4>1, <2>5, <1>0, <1>1 DEF Stale
      <4>3. at'[i] \in {"stale", "filled"}
        BY <4>2, <1>1 DEF MeetHole, AfterDrop
      <4> QED
        BY <4>3, <2>5 DEF Pending
    <3>3. CASE at[i] \in {"committed", "noting"}
      <4>1. i = latest /\ i = d + 1
        BY <3>3, <2>4, <2>5, <1>0, <1>1, Numbers DEF CoreInv, Timeline
      <4>2. PICK u \in MyUnstored(p) : after[u] > d
        BY <2>1, <2>2, <4>1, <1>0
      <4>3. i <= after[u]
        BY <4>1, <4>2, <2>3, <1>0
      <4> QED
        BY <4>3, <2>3, <3>3 DEF OrderInv, Bounded
    <3> QED
      BY <3>1, <3>2, <3>3 DEF Pending, Queued
  <2> QED
    BY <1>2, <1>3, <2>4, <2>5 DEF SkipsOthers, Tenure
<1>9. BegunInOrder' /\ OwesItsOwn'
  BY <1>0, <1>1, <1>2, <1>5, Numbers DEF OrderInv, BegunInOrder, OwesItsOwn
<1>10. NoSilentLoss'
  <2> SUFFICES ASSUME NEW i \in Indexes, i <= cursor, at'[i] \notin Begun \cup {"filled"}
               PROVE  i \in GivenUp'
    BY <1>2 DEF NoSilentLoss
  <2>1. i \in GivenUp
    BY <1>1, <1>5 DEF OrderInv, NoSilentLoss
  <2> QED
    BY <2>1, <1>0, <1>2, <1>3, GivenUpMember, GivenUpNext
<1> QED
  BY <1>6, <1>7, <1>8, <1>9, <1>10 DEF OrderInv

(* The skip target stays behind whatever its lane holds. *)
LEMMA TargetPassesOthers ==
  ASSUME CoreInv, OrderInv, NEW p \in Procs, lane[p] = "reading",
         NEW t \in Indexes, Needs(p, delivered[p]) # {}, IsSkipTarget(p, delivered[p], t)
  PROVE  /\ delivered[p] < t /\ t <= latest
         /\ \A i \in Indexes : i <= t => ~(owner[i] = p /\ at[i] \in Pending)
<1> DEFINE d == delivered[p]
<1>0. TypeOK /\ d \in Int /\ latest \in Int /\ t \in Int
  BY Numbers DEF CoreInv, Indexes
<1>1. t \in Needs(p, d) /\ \A n \in Needs(p, d) : t <= n
  BY DEF IsSkipTarget
<1>2. \A i \in Indexes : i \in Entries /\ i \in Int
  BY DEF Entries, Indexes
<1>3. \A i \in Indexes : i <= d + 1 => ~(owner[i] = p /\ at[i] \in Pending)
  BY DEF OrderInv, SkipsOthers
<1>4. \A j \in MyIndexed(p) : /\ j \in Indexes /\ j \in Int /\ j <= latest /\ d + 1 < j
                              /\ at[j] \notin {"committed", "noting"}
  BY <1>0, <1>2, <1>3 DEF MyIndexed, CoreInv, Timeline, Queued, Pending
<1>5. \A u \in MyUnstored(p) : u \in Unstored /\ after[u] \in Int /\ after[u] <= latest /\ at[u] # "none"
  BY <1>0, Numbers DEF MyUnstored, OrderInv, Bounded, Queued
<1>6. \/ \E u \in MyUnstored(p) : t = after[u]
      \/ \E j \in MyIndexed(p) : t = j - 1
  BY <1>1 DEF Needs
<1>7. t <= latest
  BY <1>0, <1>4, <1>5, <1>6
<1>9. d < t
  BY <1>0, <1>1, <1>4, <1>5 DEF Needs
<1>8. ASSUME NEW i \in Indexes, i <= t, owner[i] = p, at[i] \in Pending
      PROVE  FALSE
  <2>1. CASE at[i] \in Queued
    <3>1. i \in MyIndexed(p)
      BY <1>8, <2>1 DEF MyIndexed
    <3>2. MyIndexed(p) \in SUBSET Nat
      BY DEF MyIndexed, Indexes
    <3>3. PICK j \in MyIndexed(p) : \A k \in MyIndexed(p) : j <= k
      BY <3>1, <3>2, LeastNatural
    <3>4. j - 1 \in Needs(p, d)
      BY <3>3, <1>0, <1>4 DEF Needs
    <3>5. t <= j - 1 /\ j <= i
      BY <1>1, <3>1, <3>3, <3>4
    <3> QED
      BY <3>5, <1>8, <1>0, <1>2, <1>4
  <2>2. CASE at[i] \in {"committed", "noting"}
    <3>1. i = latest /\ t = latest
      BY <2>2, <1>7, <1>8, <1>0, <1>2 DEF CoreInv, Timeline
    <3>2. PICK u \in MyUnstored(p) : t = after[u]
      BY <3>1, <1>6, <1>4, <1>0
    <3> QED
      BY <3>1, <3>2, <2>2, <1>5, <1>0 DEF OrderInv, Bounded
  <2> QED
    BY <1>8, <2>1, <2>2 DEF Pending, Queued
<1> QED
  BY <1>7, <1>8, <1>9

(* The cursor read again covers what it covers; a target is the least. *)
LEMMA ReadHoleOrder ==
  ASSUME CoreInv, CoreInv', OrderInv, NEW p \in Procs, ReadHole(p)
  PROVE  OrderInv'
<1> DEFINE d == delivered[p]
           refreshed == Higher(cursor, owed[p])
<1>0. TypeOK /\ TypeOK' /\ d \in Int /\ d >= -1 /\ cursor >= -1 /\ cursor \in Int /\ owed[p] \in Int
  BY Numbers DEF CoreInv
<1>1. /\ UNCHANGED <<cursor, latest, unstored, owner, after, at, owed, skipped, unheard>>
      /\ lane[p] = "reading"
  BY DEF ReadHole
<1>2. \A q \in Procs : q # p => lane[q] \notin Tenure
  BY <1>1, AloneInRound DEF Tenure
<1>3. CASE Release(p)
  <2>1. /\ lane'[p] = "finishing" /\ delivered'[p] = -1 /\ target'[p] = -1
        /\ \A q \in Procs : q # p => /\ lane'[q] = lane[q] /\ delivered'[q] = delivered[q]
                                     /\ target'[q] = target[q]
    BY <1>3, <1>0 DEF Release, TypeOK, LanesOK
  <2> QED
    BY <2>1, <1>1, OrderKept DEF InRound
<1>4. CASE /\ refreshed > d /\ delivered' = [delivered EXCEPT ![p] = refreshed]
           /\ lane' = [lane EXCEPT ![p] = "round"] /\ UNCHANGED target
  <2>1. /\ lane'[p] = "round" /\ delivered'[p] = refreshed /\ target'[p] = target[p]
        /\ \A q \in Procs : q # p => /\ lane'[q] = lane[q] /\ delivered'[q] = delivered[q]
                                     /\ target'[q] = target[q]
    BY <1>4, <1>0 DEF TypeOK, LanesOK
  <2>2. refreshed \in {cursor, owed[p]} /\ refreshed >= cursor
    BY <1>0 DEF Higher
  <2> HIDE DEF refreshed
  <2>3. Bounded'
    BY <1>1, <2>1, <2>2 DEF OrderInv, Bounded
  <2>4. KnowsCursor'
    BY <1>0, <1>1, <1>2, <2>1, <2>2 DEF KnowsCursor, InRound, Tenure, Indexes
  <2>5. SkipsOthers'
    BY <1>2, <2>1 DEF SkipsOthers, Tenure
  <2>6. BegunInOrder' /\ OwesItsOwn'
    BY <1>1 DEF OrderInv, BegunInOrder, OwesItsOwn
  <2>7. NoSilentLoss'
    <3> SUFFICES ASSUME NEW i \in Indexes, i <= cursor, at[i] \notin Begun \cup {"filled"}
                 PROVE  i \in GivenUp'
      BY <1>1 DEF NoSilentLoss
    <3>1. i \in GivenUp
      BY DEF OrderInv, NoSilentLoss
    <3> QED
      BY <3>1, <1>0, <1>1, <1>2, GivenUpMember, GivenUpNext DEF Tenure
  <2> QED
    BY <2>3, <2>4, <2>5, <2>6, <2>7 DEF OrderInv
<1>5. ASSUME owed[p] = -1, Needs(p, d) # {}, NEW t \in Indexes, IsSkipTarget(p, d, t),
             target' = [target EXCEPT ![p] = t],
             lane' = [lane EXCEPT ![p] = "skipping"], UNCHANGED delivered
      PROVE  OrderInv'
  <2>1. /\ lane'[p] = "skipping" /\ target'[p] = t
        /\ \A q \in Procs : q # p => lane'[q] = lane[q] /\ target'[q] = target[q]
    BY <1>5, <1>0 DEF TypeOK, LanesOK
  <2>2. d < t /\ t <= latest /\ \A i \in Indexes : i <= t => ~(owner[i] = p /\ at[i] \in Pending)
    BY <1>1, <1>5, TargetPassesOthers
  <2>3. Bounded'
    BY <1>1, <1>5, <2>1, <2>2 DEF OrderInv, Bounded
  <2>4. KnowsCursor'
    BY <1>1, <1>2, <1>5, <2>1 DEF OrderInv, KnowsCursor, InRound, Tenure
  <2>5. SkipsOthers'
    BY <1>1, <1>2, <1>5, <2>1, <2>2 DEF OrderInv, SkipsOthers, Tenure
  <2>6. BegunInOrder' /\ OwesItsOwn'
    BY <1>1 DEF OrderInv, BegunInOrder, OwesItsOwn
  <2>7. NoSilentLoss'
    <3> SUFFICES ASSUME NEW i \in Indexes, i <= cursor, at[i] \notin Begun \cup {"filled"}
                 PROVE  i \in GivenUp'
      BY <1>1 DEF NoSilentLoss
    <3>1. i \in GivenUp
      BY DEF OrderInv, NoSilentLoss
    <3> QED
      BY <3>1, <1>0, <1>1, <1>2, GivenUpMember, GivenUpNext DEF Tenure
  <2> QED
    BY <2>3, <2>4, <2>5, <2>6, <2>7 DEF OrderInv
<1> QED
  BY <1>3, <1>4, <1>5 DEF ReadHole

(* What a forced write passes is given up: to be announced, or unheard. *)
LEMMA SkipMoves ==
  ASSUME CoreInv, CoreInv', OrderInv, NEW p \in Procs,
         UNCHANGED <<latest, unstored, owner, after, at, owed, skipped>>,
         lane[p] = "skipping", cursor < target[p], cursor' = target[p],
         unheard \subseteq unheard',
         \A q \in Procs : q # p => /\ lane'[q] = lane[q] /\ delivered'[q] = delivered[q]
                                   /\ target'[q] = target[q],
         \/ /\ lane'[p] = "announcing"
            /\ delivered'[p] = delivered[p] /\ target'[p] = target[p]
         \/ /\ lane'[p] = "finishing" /\ delivered'[p] = -1 /\ target'[p] = -1
            /\ Passed(p) \subseteq unheard'
  PROVE  OrderInv'
<1>0. /\ TypeOK /\ TypeOK'
      /\ cursor \in Int /\ cursor >= -1 /\ delivered[p] \in Int /\ target[p] \in Int
  BY Numbers DEF CoreInv
<1>1. \A i \in Indexes : i \in Int
  BY DEF Indexes
<1>2. \A q \in Procs : q # p => lane[q] \notin Tenure
  BY AloneInRound DEF Tenure
<1>3. owed[p] = -1 /\ delivered[p] <= cursor
  BY <1>0 DEF OrderInv, SkipsOthers, KnowsCursor, InRound
<1>4. Bounded'
  BY <1>0, Numbers DEF OrderInv, Bounded
<1>5. KnowsCursor'
  BY <1>0, <1>1, <1>2, <1>3 DEF KnowsCursor, InRound, Tenure
<1>6. SkipsOthers'
  BY <1>0, <1>2, <1>3 DEF SkipsOthers, Tenure
<1>7. BegunInOrder'
  BY <1>0, <1>1 DEF OrderInv, BegunInOrder
<1>8. OwesItsOwn'
  BY <1>0, <1>1, Numbers DEF OrderInv, OwesItsOwn
<1>9. NoSilentLoss'
  <2> SUFFICES ASSUME NEW i \in Indexes, i <= target[p], at[i] \notin Begun \cup {"filled"}
               PROVE  i \in GivenUp'
    BY DEF NoSilentLoss
  <2>1. CASE i <= cursor
    <3>1. i \in GivenUp
      BY <2>1 DEF OrderInv, NoSilentLoss
    <3> QED
      BY <3>1, <1>0, <1>2, GivenUpMember, GivenUpNext DEF Tenure
  <2>2. CASE ~(i <= cursor)
    <3>1. delivered[p] < i /\ i <= target[p]
      BY <2>2, <1>0, <1>1, <1>3
    <3>2. i \in Passed(p)
      BY <3>1, <1>0, <1>1 DEF Passed
    <3> QED
      BY <3>1, <3>2, <1>0, GivenUpNext
  <2> QED
    BY <2>1, <2>2
<1> QED
  BY <1>4, <1>5, <1>6, <1>7, <1>8, <1>9 DEF OrderInv

(* The forced write, or another lane was faster. *)
LEMMA SkipOrder ==
  ASSUME CoreInv, CoreInv', OrderInv, NEW p \in Procs, Skip(p)
  PROVE  OrderInv'
<1>0. TypeOK /\ lane[p] = "skipping"
  BY DEF Skip, CoreInv
<1>1. UNCHANGED <<latest, unstored, owner, after, at, owed, skipped, unheard>>
  BY DEF Skip
<1>2. CASE cursor < target[p]
  <2>1. /\ cursor' = target[p] /\ lane'[p] = "announcing"
        /\ delivered' = delivered /\ target' = target
        /\ \A q \in Procs : q # p => lane'[q] = lane[q]
    BY <1>2, <1>0 DEF Skip, TypeOK, LanesOK
  <2> QED
    BY <1>0, <1>1, <1>2, <2>1, SkipMoves
<1>3. CASE ~(cursor < target[p])
  <2>1. cursor' = cursor /\ Release(p)
    BY <1>3 DEF Skip
  <2>2. /\ lane'[p] = "finishing" /\ delivered'[p] = -1 /\ target'[p] = -1
        /\ \A q \in Procs : q # p => /\ lane'[q] = lane[q] /\ delivered'[q] = delivered[q]
                                     /\ target'[q] = target[q]
    BY <2>1, <1>0 DEF Release, TypeOK, LanesOK
  <2> QED
    BY <1>0, <1>1, <2>1, <2>2, OrderKept DEF InRound
<1> QED
  BY <1>2, <1>3

(* A round that fails leaves the cursor, or passed what stays unheard. *)
LEMMA RoundFailsOrder ==
  ASSUME CoreInv, CoreInv', OrderInv, NEW p \in Procs, RoundFails(p)
  PROVE  OrderInv'
<1>0. TypeOK /\ lane[p] \in {"want", "owed", "reading", "skipping"}
  BY DEF RoundFails, CoreInv
<1>1. UNCHANGED <<latest, unstored, owner, after, at, owed, skipped>>
  BY DEF RoundFails
<1>2. /\ lane'[p] = "finishing" /\ delivered'[p] = -1 /\ target'[p] = -1
      /\ \A q \in Procs : q # p => /\ lane'[q] = lane[q] /\ delivered'[q] = delivered[q]
                                   /\ target'[q] = target[q]
  BY <1>0 DEF RoundFails, Release, TypeOK, LanesOK
<1>3. CASE UNCHANGED <<cursor, unheard>>
  BY <1>0, <1>1, <1>2, <1>3, OrderKept DEF InRound
<1>4. CASE /\ lane[p] = "skipping" /\ cursor < target[p] /\ cursor' = target[p]
           /\ unheard' = unheard \cup Passed(p)
  BY <1>1, <1>2, <1>4, SkipMoves
<1> QED
  BY <1>3, <1>4 DEF RoundFails

(* What was passed is announced, and the lane stands at the cursor it wrote. *)
LEMMA AnnounceOrder ==
  ASSUME CoreInv, CoreInv', OrderInv, NEW p \in Procs, Announce(p)
  PROVE  OrderInv'
<1>0. /\ TypeOK /\ TypeOK' /\ lane[p] = "announcing"
      /\ cursor \in Int /\ delivered[p] \in Int /\ target[p] \in Int
  BY Numbers DEF CoreInv, Announce
<1>1. /\ UNCHANGED <<cursor, latest, unstored, owner, after, at, owed, target, unheard>>
      /\ skipped' = skipped \cup Passed(p)
  BY DEF Announce
<1>2. /\ lane'[p] = "round" /\ delivered'[p] = target[p]
      /\ \A q \in Procs : q # p => /\ lane'[q] = lane[q] /\ delivered'[q] = delivered[q]
                                   /\ lane[q] \notin Tenure
  BY <1>0, AloneInRound DEF Announce, TypeOK, LanesOK, Tenure
<1>3. target[p] <= cursor /\ delivered[p] < target[p]
  BY <1>0 DEF OrderInv, SkipsOthers
<1>4. Bounded'
  BY <1>1, <1>2 DEF OrderInv, Bounded
<1>5. KnowsCursor'
  <2>1. \A i \in Indexes : target[p] < i /\ i <= cursor => at[i] \notin Pending
    <3> SUFFICES ASSUME NEW i \in Indexes, target[p] < i, i <= cursor
                 PROVE  at[i] \notin Pending
      OBVIOUS
    <3>1. CASE delivered[p] < i
      BY <3>1, <1>0 DEF OrderInv, KnowsCursor, InRound, Indexes
    <3>2. CASE i <= delivered[p]
      BY <3>2, <1>0, <1>3 DEF Indexes
    <3> QED
      BY <3>1, <3>2, <1>0 DEF Indexes
  <2> QED
    BY <2>1, <1>1, <1>2, <1>3 DEF KnowsCursor, InRound, Tenure
<1>6. SkipsOthers'
  BY <1>2 DEF SkipsOthers, Tenure
<1>7. BegunInOrder' /\ OwesItsOwn'
  BY <1>1 DEF OrderInv, BegunInOrder, OwesItsOwn
<1>8. NoSilentLoss'
  <2> SUFFICES ASSUME NEW i \in Indexes, i <= cursor, at[i] \notin Begun \cup {"filled"}
               PROVE  i \in GivenUp'
    BY <1>1 DEF NoSilentLoss
  <2>1. i \in GivenUp
    BY DEF OrderInv, NoSilentLoss
  <2>2. delivered[p] < i /\ i <= target[p] => i \in Passed(p)
    BY <1>0 DEF Passed, Indexes
  <2> QED
    BY <2>1, <2>2, <1>0, <1>1, <1>2, GivenUpMember, GivenUpNext DEF Tenure
<1> QED
  BY <1>4, <1>5, <1>6, <1>7, <1>8 DEF OrderInv

-----------------------------------------------------------------------------
(* The invariant, and the state properties it implies.                     *)

(* The invariant holds at the start. *)
LEMMA InitOrder == Init => LaneInv
<1> SUFFICES ASSUME Init PROVE LaneInv
  OBVIOUS
<1>1. CoreInv
  BY InitCore
<1>2. Bounded
  BY DEF Init, Bounded, Unstored, Entries
<1>3. KnowsCursor /\ SkipsOthers
  BY DEF Init, KnowsCursor, SkipsOthers, InRound
<1>4. BegunInOrder /\ OwesItsOwn /\ NoSilentLoss
  BY DEF Init, BegunInOrder, OwesItsOwn, NoSilentLoss, Begun, Entries, Indexes
<1> QED
  BY <1>1, <1>2, <1>3, <1>4 DEF LaneInv

(* A step that changes nothing keeps it. *)
LEMMA StutterOrder ==
  ASSUME OrderInv, UNCHANGED vars
  PROVE  OrderInv'
<1>1. Bounded' /\ KnowsCursor' /\ SkipsOthers' /\ BegunInOrder' /\ OwesItsOwn'
  BY DEF vars, OrderInv, Bounded, KnowsCursor, SkipsOthers, BegunInOrder, OwesItsOwn
<1>2. GivenUp' = GivenUp
  BY DEF vars, GivenUp, Passed
<1> QED
  BY <1>1, <1>2 DEF vars, OrderInv, NoSilentLoss

(* Every step of the lanes keeps it. *)
LEMMA OrderStep ==
  ASSUME LaneInv, [Next]_vars
  PROVE  LaneInv'
<1>0. CoreInv /\ OrderInv
  BY DEF LaneInv, OrderInv
<1>1. CoreInv'
  BY <1>0, CoreStep
<1>2. ASSUME UNCHANGED vars PROVE OrderInv'
  BY <1>0, <1>2, StutterOrder
<1>3. ASSUME NEW p \in Procs, Places(p) PROVE OrderInv'
  BY <1>0, <1>1, <1>3, CommitOrder, EnqueueOrder, NoteOrder, PlaceUnstoredOrder DEF Places
<1>4. ASSUME NEW p \in Procs, LaneStep(p) PROVE OrderInv'
  <2>1. ASSUME NEW e \in Entries, Begin(p, e) \/ RunEnds(p, e) PROVE OrderInv'
    BY <1>0, <1>1, <2>1, BeginOrder, RunEndsOrder
  <2>2. CASE Poll(p) \/ Idle(p) \/ WriteOwed(p) \/ TakeNoted(p) \/ AdvanceCursor(p)
    BY <1>0, <1>1, <2>2, PollOrder, IdleOrder, WriteOwedOrder, TakeNotedOrder, AdvanceOrder
  <2>3. CASE RoundOver(p) \/ MeetHole(p) \/ ReadHole(p) \/ Skip(p) \/ Announce(p)
    BY <1>0, <1>1, <2>3, RoundOverOrder, MeetHoleOrder, ReadHoleOrder, SkipOrder, AnnounceOrder
  <2>4. CASE Finish(p) \/ EndRound(p)
    BY <1>0, <1>1, <2>4, FinishOrder, EndRoundOrder
  <2> QED
    BY <1>4, <2>1, <2>2, <2>3, <2>4 DEF LaneStep
<1>5. ASSUME NEW p \in Procs, Fails(p) PROVE OrderInv'
  BY <1>0, <1>1, <1>5, WriteOwedOrder, AdvanceOrder, RoundFailsOrder DEF Fails
<1>6. ASSUME NEW p \in Procs, TakeClaim(p) \/ GapTimeout(p) \/ Crash(p) PROVE OrderInv'
  BY <1>0, <1>1, <1>6, TakeClaimOrder, GapTimeoutOrder, CrashOrder
<1>7. OrderInv'
  BY <1>2, <1>3, <1>4, <1>5, <1>6 DEF Next
<1> QED
  BY <1>1, <1>7 DEF LaneInv, OrderInv

(* The whole invariant holds in every reachable state: where the cursor, the  *)
(* lanes and the entries stand to each other, through crashes and failed writes *)
(* (lanes.py, _claimed_round).                                                *)
THEOREM LaneInvariant == Spec => []LaneInv
<1>1. Init => LaneInv
  BY InitOrder
<1>2. LaneInv /\ [Next]_vars => LaneInv'
  BY OrderStep
<1> QED
  BY <1>1, <1>2, PTL DEF Spec

(* The cursor never passes an index silently, for every number of processes,  *)
(* events, crashes and faults: delivery_skipped names what a skip passed, or a *)
(* crash took the announcement (lanes.py, _skip_missing).                     *)
THEOREM LaneNoSilentLoss == Spec => []NoSilentLoss
<1>1. LaneInv => NoSilentLoss
  BY DEF LaneInv
<1> QED
  BY <1>1, LaneInvariant, PTL

(* The cursor writes a lane makes again pass its own deliveries only          *)
(* (lanes.py, _write_owed_cursor).                                            *)
THEOREM LaneOwesItsOwn == Spec => []OwesItsOwn
<1>1. LaneInv => OwesItsOwn
  BY DEF LaneInv
<1> QED
  BY <1>1, LaneInvariant, PTL

-----------------------------------------------------------------------------
(* The action properties.                                                  *)

(* Nothing but Begin begins an entry. *)
LEMMA OnlyBeginBegins ==
  ASSUME CoreInv, [Next]_vars, NEW e \in Entries, at[e] \notin Begun, at'[e] \in Begun
  PROVE  \E p \in Procs : Begin(p, e)
<1>0. TypeOK /\ Indexes \subseteq Entries /\ Unstored \subseteq Entries
  BY DEF CoreInv, Entries
<1>1. ~UNCHANGED vars /\ at' # at
  BY DEF vars
<1>2. ASSUME NEW p \in Procs, Places(p) PROVE FALSE
  <2>1. ASSUME NEW s \in {"committed", "noting"}, Commit(p, s) PROVE FALSE
    BY <1>0, <2>1 DEF Commit, TypeOK, EntriesOK, Begun
  <2>2. CASE Enqueue(p) \/ NoteCommitted(p) \/ NoteFails(p)
    BY <1>0, <1>1, <2>2 DEF Enqueue, NoteCommitted, NoteFails, TypeOK, EntriesOK, Begun
  <2>3. CASE PlaceUnstored(p)
    BY <1>0, <2>3 DEF PlaceUnstored, TypeOK, EntriesOK, Begun
  <2> QED
    BY <1>2, <2>1, <2>2, <2>3 DEF Places
<1>3. ASSUME NEW p \in Procs, LaneStep(p), ~Begin(p, e) PROVE FALSE
  <2>1. CASE Poll(p)
    BY <2>1, PollEffect DEF Begun
  <2>2. CASE RoundOver(p) \/ MeetHole(p)
    BY <2>2, DropsEffect DEF Begun
  <2>3. CASE TakeNoted(p)
    BY <2>3, TakeNotedEffect DEF Begun
  <2>4. CASE Finish(p)
    BY <2>4, FinishEffect DEF Begun
  <2>5. ASSUME NEW f \in Entries, Begin(p, f) PROVE FALSE
    BY <1>3, <2>5, BeginEffect DEF Begun
  <2>6. ASSUME NEW f \in Entries, RunEnds(p, f) PROVE FALSE
    BY <1>0, <2>6 DEF RunEnds, TypeOK, EntriesOK, Begun
  <2>7. CASE \/ Idle(p) \/ WriteOwed(p) \/ AdvanceCursor(p) \/ ReadHole(p) \/ Skip(p)
             \/ Announce(p) \/ EndRound(p)
    BY <1>1, <2>7 DEF Idle, WriteOwed, AdvanceCursor, ReadHole, Skip, Announce, EndRound
  <2> QED
    BY <1>3, <2>1, <2>2, <2>3, <2>4, <2>5, <2>6, <2>7 DEF LaneStep
<1>4. ASSUME NEW p \in Procs, Fails(p) \/ TakeClaim(p) \/ GapTimeout(p) PROVE FALSE
  BY <1>1, <1>4 DEF Fails, WriteOwedFails, AdvanceFails, RoundFails, TakeClaim, GapTimeout
<1>5. ASSUME NEW p \in Procs, Crash(p) PROVE FALSE
  BY <1>0, <1>5 DEF Crash, Begun
<1> QED
  BY <1>1, <1>2, <1>3, <1>4, <1>5 DEF Next

(* What begins stands past the cursor, so nothing above it began. *)
LEMMA BeginsInOrder ==
  ASSUME LaneInv, [Next]_vars, NEW i \in Indexes, NEW j \in Indexes, i < j,
         at[i] \notin Begun, at'[i] \in Begun
  PROVE  at[j] \notin Begun
<1>0. CoreInv /\ TypeOK /\ i \in Entries
  BY DEF LaneInv, CoreInv, Entries
<1>1. PICK p \in Procs : Begin(p, i)
  BY <1>0, OnlyBeginBegins
<1>2. at[i] \in Pending /\ lane[p] = "round"
  BY <1>0, <1>1, BeginEffect DEF Pending, Queued
<1>3. i = delivered[p] + 1
  BY <1>1 DEF Begin, Runs, Unstored, Indexes
<1>4. ~(i <= cursor)
  BY <1>0, <1>2, <1>3, Numbers DEF LaneInv, KnowsCursor, InRound
<1> QED
  BY <1>2, <1>4 DEF LaneInv, BegunInOrder

(* Deliveries begin in index order across every process (lanes.py, _claimed_round). *)
THEOREM LaneBeginsInOrder == Spec => InOrder
<1>1. LaneInv /\ [Next]_vars =>
        [\A i, j \in Indexes :
           i < j /\ at[i] \notin Begun /\ at'[i] \in Begun => at[j] \notin Begun]_vars
  BY BeginsInOrder
<1> QED
  BY <1>1, LaneInvariant, PTL DEF Spec, InOrder

(* What an unstored entry follows is behind the cursor, or owed by its own lane. *)
LEMMA BeginsBehindAnchor ==
  ASSUME LaneInv, [Next]_vars, NEW u \in Unstored, at[u] = "queued", at'[u] = "running",
         NEW i \in Indexes, i <= after[u]
  PROVE  at[i] \in Begun \cup {"filled"} \/ i \in GivenUp
<1>0. CoreInv /\ TypeOK /\ u \in Entries /\ i \in Int
  BY DEF LaneInv, CoreInv, Entries, Indexes
<1>1. PICK p \in Procs : Begin(p, u)
  BY <1>0, OnlyBeginBegins DEF Begun
<1>2. u \notin Indexes
  BY DEF Unstored, Indexes
<1>3. after[u] <= delivered[p] /\ lane[p] = "round"
  BY <1>1, <1>2 DEF Begin, Runs, Due, MyIndexed
<1>4. i <= cursor \/ (cursor < i /\ i <= owed[p])
  BY <1>0, <1>3, Numbers DEF LaneInv, KnowsCursor, InRound
<1> QED
  BY <1>4 DEF LaneInv, NoSilentLoss, OwesItsOwn, Begun

(* An unstored event is delivered behind every event it causally follows      *)
(* (lanes.py, anchor_index).                                                  *)
THEOREM LaneRespectsAnchors == Spec => AnchorRespected
<1>1. LaneInv /\ [Next]_vars =>
        [\A u \in Unstored : at[u] = "queued" /\ at'[u] = "running" =>
           \A i \in Indexes : i <= after[u] =>
             at[i] \in Begun \cup {"filled"} \/ i \in GivenUp]_vars
  BY BeginsBehindAnchor
<1> QED
  BY <1>1, LaneInvariant, PTL DEF Spec, AnchorRespected

(* A cursor that moves as a skip ends moves to its target. *)
LEMMA SkipPassesOthers ==
  ASSUME LaneInv, [Next]_vars, NEW p \in Procs, NEW i \in Indexes,
         lane[p] = "skipping", lane'[p] # "skipping", cursor < i, i <= cursor'
  PROVE  ~(owner[i] = p /\ at[i] \in Pending)
<1>0. CoreInv /\ TypeOK /\ i \in Int /\ cursor \in Int
  BY Numbers DEF LaneInv, CoreInv, Indexes
<1>1. cursor' # cursor
  BY <1>0
<1>2. cursor' = target[p]
  <2>1. ASSUME NEW q \in Procs, Places(q) PROVE lane' = lane
    BY <2>1 DEF Places, Commit, Enqueue, NoteCommitted, NoteFails, PlaceUnstored
  <2>2. ASSUME NEW q \in Procs, TakeClaim(q) \/ GapTimeout(q) \/ Crash(q) PROVE cursor' = cursor
    BY <2>2 DEF TakeClaim, GapTimeout, Crash
  <2>3. ASSUME NEW q \in Procs, Fails(q) PROVE cursor' = target[p]
    <3>1. CASE WriteOwedFails(q) \/ AdvanceFails(q)
      BY <1>0, <3>1 DEF WriteOwedFails, AdvanceFails, TypeOK, LanesOK
    <3>2. CASE RoundFails(q)
      <4>1. lane' = [lane EXCEPT ![q] = "finishing"]
        BY <3>2 DEF RoundFails, Release
      <4>2. q = p
        BY <1>0, <4>1 DEF TypeOK, LanesOK
      <4> QED
        BY <1>1, <3>2, <4>2 DEF RoundFails
    <3> QED
      BY <2>3, <3>1, <3>2 DEF Fails
  <2>4. ASSUME NEW q \in Procs, LaneStep(q) PROVE cursor' = target[p]
    <3>1. CASE WriteOwed(q) \/ AdvanceCursor(q) \/ Skip(q)
      BY <1>0, <1>1, <3>1 DEF WriteOwed, AdvanceCursor, Skip, TypeOK, LanesOK
    <3>2. CASE \/ Poll(q) \/ Idle(q) \/ TakeNoted(q) \/ RoundOver(q) \/ MeetHole(q)
               \/ ReadHole(q) \/ Announce(q) \/ Finish(q) \/ EndRound(q)
      BY <1>1, <3>2 DEF Poll, Idle, TakeNoted, RoundOver, MeetHole, ReadHole, Announce,
                        Finish, EndRound
    <3>3. ASSUME NEW e \in Entries, Begin(q, e) \/ RunEnds(q, e) PROVE FALSE
      BY <1>1, <3>3 DEF Begin, RunEnds
    <3> QED
      BY <2>4, <3>1, <3>2, <3>3 DEF LaneStep
  <2> QED
    BY <1>1, <2>1, <2>2, <2>3, <2>4 DEF Next, vars
<1>3. owed[p] = -1 /\ (delivered[p] <= cursor \/ delivered[p] = owed[p])
  BY DEF LaneInv, SkipsOthers, KnowsCursor, InRound
<1>4. delivered[p] < i
  BY <1>0, <1>3, Numbers
<1> QED
  BY <1>2, <1>4 DEF LaneInv, SkipsOthers

(* A lane never skips an index it holds itself (lanes.py, _skip_target). *)
THEOREM LaneSkipsNoneOfItsOwn == Spec => SkipsNoneOfItsOwn
<1>1. LaneInv /\ [Next]_vars =>
        [\A p \in Procs, i \in Indexes :
           lane[p] = "skipping" /\ lane'[p] # "skipping" /\ cursor < i /\ i <= cursor' =>
             ~(owner[i] = p /\ at[i] \in Pending)]_vars
  BY SkipPassesOthers
<1> QED
  BY <1>1, LaneInvariant, PTL DEF Spec, SkipsNoneOfItsOwn

-----------------------------------------------------------------------------
(* The lanes implement OrderedDelivery.                                    *)

(* What a step does to the stage of an index. *)
LEMMA StageSteps ==
  ASSUME CoreInv, [Next]_vars, NEW i \in Indexes
  PROVE  \/ at'[i] = at[i]
         \/ at[i] \in Begun /\ at'[i] \in Begun
         \/ at[i] \in Pending /\ at'[i] # "none"
         \/ /\ at[i] = "none" /\ at'[i] \in Pending
            /\ i = latest + 1 /\ \A j \in Indexes : j # i => at'[j] = at[j]
<1>0. TypeOK /\ i \in Entries /\ Indexes \subseteq Entries /\ latest \in Int
  BY Numbers DEF CoreInv, Entries
<1>1. CASE UNCHANGED vars
  BY <1>1 DEF vars
<1>2. ASSUME NEW p \in Procs, NEW s \in {"committed", "noting"}, Commit(p, s), at'[i] # at[i]
      PROVE  /\ at[i] = "none" /\ at'[i] \in Pending
             /\ i = latest + 1 /\ \A j \in Indexes : j # i => at'[j] = at[j]
  <2>1. latest + 1 \in Indexes /\ at[latest + 1] = "none"
    BY <1>2 DEF Commit, CoreInv, TypeOK, StoreOK, Timeline
  <2> QED
    BY <1>0, <1>2, <2>1 DEF Commit, TypeOK, EntriesOK, Pending
<1>3. ASSUME NEW p \in Procs, Enqueue(p) \/ NoteCommitted(p) \/ NoteFails(p), at'[i] # at[i]
      PROVE  at[i] \in Pending /\ at'[i] # "none"
  BY <1>0, <1>3 DEF Enqueue, NoteCommitted, NoteFails, TypeOK, EntriesOK, Pending
<1>4. ASSUME NEW p \in Procs, PlaceUnstored(p)
      PROVE  at'[i] = at[i]
  <2>1. MaxIndex + unstored # i
    BY <1>0 DEF TypeOK, StoreOK, Indexes
  <2> QED
    BY <1>0, <1>4, <2>1 DEF PlaceUnstored, TypeOK, EntriesOK
<1>5. ASSUME NEW p \in Procs, LaneStep(p), at'[i] # at[i]
      PROVE  \/ at[i] \in Begun /\ at'[i] \in Begun
             \/ at[i] \in Pending /\ at'[i] # "none"
  <2>1. CASE Poll(p)
    BY <1>0, <1>5, <2>1, PollEffect DEF Pending, Queued
  <2>2. CASE RoundOver(p) \/ MeetHole(p)
    BY <1>0, <1>5, <2>2, DropsEffect DEF Pending, Queued
  <2>3. CASE TakeNoted(p)
    BY <1>0, <1>5, <2>3, TakeNotedEffect DEF Pending, Queued
  <2>4. CASE Finish(p)
    BY <1>0, <1>5, <2>4, FinishEffect DEF Begun
  <2>5. ASSUME NEW e \in Entries, Begin(p, e)
        PROVE  at[i] \in Pending /\ at'[i] # "none"
    BY <1>0, <1>5, <2>5, BeginEffect DEF Pending, Queued
  <2>6. ASSUME NEW e \in Entries, RunEnds(p, e)
        PROVE  at[i] \in Begun /\ at'[i] \in Begun
    BY <1>0, <1>5, <2>6 DEF RunEnds, TypeOK, EntriesOK, Begun
  <2>7. CASE \/ Idle(p) \/ WriteOwed(p) \/ AdvanceCursor(p) \/ ReadHole(p) \/ Skip(p)
             \/ Announce(p) \/ EndRound(p)
    BY <1>5, <2>7 DEF Idle, WriteOwed, AdvanceCursor, ReadHole, Skip, Announce, EndRound
  <2> QED
    BY <1>5, <2>1, <2>2, <2>3, <2>4, <2>5, <2>6, <2>7 DEF LaneStep
<1>6. ASSUME NEW p \in Procs, Fails(p) \/ TakeClaim(p) \/ GapTimeout(p)
      PROVE  at'[i] = at[i]
  BY <1>6 DEF Fails, WriteOwedFails, AdvanceFails, RoundFails, TakeClaim, GapTimeout
<1>7. ASSUME NEW p \in Procs, Crash(p), at'[i] # at[i]
      PROVE  \/ at[i] \in Begun /\ at'[i] \in Begun
             \/ at[i] \in Pending /\ at'[i] # "none"
  BY <1>0, <1>7 DEF Crash, Begun
<1> QED
  BY <1>1, <1>2, <1>3, <1>4, <1>5, <1>6, <1>7 DEF Next, Places

(* What the abstract fate says of the stage. *)
LEMMA FateValues ==
  ASSUME TypeOK, NEW i \in Indexes
  PROVE  /\ at[i] \in Stages
         /\ Fate(i) = "absent" <=> at[i] = "none"
         /\ Fate(i) = "pending" <=> at[i] \in Pending
         /\ Fate(i) = "delivered" <=> at[i] \in Begun
         /\ Fate(i) \in {"absent", "pending", "delivered", "silent", "dropped"}
<1>1. at[i] \in Stages
  BY DEF TypeOK, EntriesOK, Entries
<1> QED
  BY <1>1 DEF Fate, Pending, Begun, Stages

(* The same of the next state. *)
LEMMA FateNextValues ==
  ASSUME TypeOK', NEW i \in Indexes
  PROVE  /\ Fate(i)' = "absent" <=> at'[i] = "none"
         /\ Fate(i)' = "pending" <=> at'[i] \in Pending
         /\ Fate(i)' = "delivered" <=> at'[i] \in Begun
         /\ Fate(i)' \in {"absent", "pending", "delivered", "silent", "dropped"}
<1>1. at'[i] \in Stages
  BY DEF TypeOK, EntriesOK, Entries
<1> QED
  BY <1>1 DEF Fate, Pending, Begun, Stages

(* An empty room is one where no index was given out. *)
LEMMA InitImplements == Init => Ordered!Init
<1> SUFFICES ASSUME Init PROVE Ordered!Init
  OBVIOUS
<1>1. \A i \in Indexes : Fate(i) = "absent"
  <2>1. TypeOK
    BY InitCore DEF CoreInv
  <2>2. \A i \in Indexes : at[i] = "none"
    BY DEF Init, Entries
  <2> QED
    BY <2>1, <2>2, FateValues
<1> QED
  BY <1>1 DEF Ordered!Init, Ordered!Indexes, Indexes

(* A step commits one index, or settles the pending ones it takes from the    *)
(* queues, delivering one at most; or it changes no fate.                     *)
LEMMA StepImplements ==
  ASSUME LaneInv, LaneInv', [Next]_vars
  PROVE  [Ordered!Next]_([i \in Indexes |-> Fate(i)])
<1> DEFINE fate == [i \in Indexes |-> Fate(i)]
           fateNext == [i \in Indexes |-> Fate(i)']
<1>0. CoreInv /\ TypeOK /\ TypeOK' /\ latest \in Int /\ \A i \in Indexes : i \in Entries /\ i \in Int
  BY Numbers DEF LaneInv, CoreInv, Entries, Indexes
<1>1. fate' = fateNext
  OBVIOUS
<1>2. Ordered!Indexes = Indexes
  BY DEF Ordered!Indexes, Indexes
<1>3. CASE \E i \in Indexes : at[i] = "none" /\ at'[i] # "none"
  <2>1. PICK i \in Indexes : at[i] = "none" /\ at'[i] # "none"
    BY <1>3
  <2>2. /\ at'[i] \in Pending /\ i = latest + 1
        /\ \A j \in Indexes : j # i => at'[j] = at[j]
    BY <1>0, <2>1, StageSteps DEF Pending, Begun
  <2>3. \A j \in 0 .. i - 1 : j \in Indexes /\ at[j] # "none"
    BY <1>0, <2>2 DEF CoreInv, Timeline, Indexes
  <2>4. fate[i] = "absent" /\ \A j \in 0 .. i - 1 : fate[j] # "absent"
    BY <1>0, <2>1, <2>3, FateValues
  <2>5. Fate(i)' = "pending"
    BY <1>0, <2>2, FateNextValues
  <2>6. \A j \in Indexes : j # i => Fate(j)' = Fate(j)
    BY <2>2 DEF Fate
  <2>7. fateNext = [fate EXCEPT ![i] = "pending"]
    BY <2>5, <2>6
  <2>8. Ordered!Commit(i)
    BY <1>1, <2>4, <2>7 DEF Ordered!Commit
  <2> QED
    BY <1>2, <2>8 DEF Ordered!Next
<1>4. CASE ~ \E i \in Indexes : at[i] = "none" /\ at'[i] # "none"
  <2> DEFINE S == {i \in Indexes : at[i] \in Pending /\ at'[i] \notin Pending}
             f == [i \in S |-> Fate(i)']
  <2>1. \A i \in Indexes : i \notin S => Fate(i)' = Fate(i)
    <3> SUFFICES ASSUME NEW i \in Indexes, i \notin S PROVE Fate(i)' = Fate(i)
      OBVIOUS
    <3>1. \/ at'[i] = at[i]
          \/ at[i] \in Begun /\ at'[i] \in Begun
          \/ at[i] \in Pending /\ at'[i] \in Pending
      BY <1>0, <1>4, StageSteps DEF Pending
    <3>2. CASE at'[i] = at[i]
      BY <3>2 DEF Fate
    <3>3. CASE at[i] \in Begun /\ at'[i] \in Begun
      <4>1. Fate(i) = "delivered" /\ Fate(i)' = "delivered"
        BY <1>0, <3>3, FateValues, FateNextValues
      <4> QED
        BY <4>1
    <3>4. CASE at[i] \in Pending /\ at'[i] \in Pending
      <4>1. Fate(i) = "pending" /\ Fate(i)' = "pending"
        BY <1>0, <3>4, FateValues, FateNextValues
      <4> QED
        BY <4>1
    <3> QED
      BY <3>1, <3>2, <3>3, <3>4
  <2>2. fateNext = [i \in Indexes |-> IF i \in S THEN f[i] ELSE fate[i]]
    BY <2>1
  <2>3. \A i \in S : fate[i] = "pending"
    BY <1>0, FateValues
  <2>4. \A i \in S : f[i] \in {"delivered", "silent", "dropped"}
    <3> SUFFICES ASSUME NEW i \in S PROVE Fate(i)' \in {"delivered", "silent", "dropped"}
      OBVIOUS
    <3>1. at'[i] \notin Pending /\ at'[i] # "none"
      BY <1>0, StageSteps DEF Pending, Begun
    <3> QED
      BY <3>1, <1>0, FateNextValues
  <2>5. \A i \in S : f[i] = "delivered" => at[i] \notin Begun /\ at'[i] \in Begun
    BY <1>0, FateNextValues DEF Pending, Begun
  <2>6. ASSUME NEW i \in S, NEW j \in S, f[i] = "delivered", f[j] = "delivered"
        PROVE  i = j
    <3>1. PICK p \in Procs : Begin(p, i)
      BY <1>0, <2>5, <2>6, OnlyBeginBegins
    <3>2. i # j => at'[j] \notin Begun
      BY <1>0, <2>5, <2>6, <3>1, BeginEffect DEF Begun
    <3> QED
      BY <2>5, <2>6, <3>2
  <2>7. ASSUME NEW i \in S, f[i] = "delivered", NEW j \in i + 1 .. MaxIndex - 1
        PROVE  fate[j] # "delivered"
    <3>1. j \in Indexes /\ i < j
      BY <2>7, <1>0 DEF Indexes
    <3>2. at[j] \notin Begun
      BY <2>5, <2>7, <3>1, BeginsInOrder
    <3> QED
      BY <3>1, <3>2, <1>0, FateValues
  <2>8. f \in [S -> {"delivered", "silent", "dropped"}]
    BY <2>4
  <2>9. S \in SUBSET Indexes
    OBVIOUS
  <2> HIDE DEF f, S, fate
  <2>10. Ordered!Settle(S)
    <3> USE DEF fate
    <3> QED
      BY <1>1, <1>2, <2>2, <2>3, <2>6, <2>7, <2>8 DEF Ordered!Settle
  <2>11. CASE S = {}
    <3>1. fateNext = fate
      BY <2>1, <2>11 DEF fate
    <3> QED
      BY <1>1, <3>1 DEF fate
  <2>12. CASE S # {}
    BY <1>2, <2>9, <2>10, <2>12 DEF Ordered!Next
  <2> QED
    BY <2>11, <2>12
<1> QED
  BY <1>3, <1>4

(* However many processes serve the room, their lanes deliver as one would: every *)
(* step is a step of OrderedDelivery, or changes no fate (lanes.py, the module). *)
THEOREM LaneImplements == Spec => DeliversInOrder
<1>1. LaneInv /\ LaneInv' /\ [Next]_vars => [Ordered!Next]_([i \in Indexes |-> Fate(i)])
  BY StepImplements
<1> QED
  BY <1>1, InitImplements, LaneInvariant, PTL DEF Spec, DeliversInOrder, Ordered!Spec
=============================================================================
