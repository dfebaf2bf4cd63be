--------------------------- MODULE TurnLinkProofs ---------------------------
(* Theorems about TurnLink for any set of executors, any size of a batch    *)
(* and any number of messages, faults and processes that go; first, lemmas  *)
(* about TurnOutbox: what every step of a line keeps.                       *)
EXTENDS TurnLink, SequenceTheorems, WellFoundedInduction, TLAPS

OnLine(l) == Elements(queue[l]) \cup Elements(again[l]) \cup Elements(flight[l])

(* The messages that are on their way to a process, or that it can read. *)
Carried(p) ==
    Elements(inbox[p]) \cup UNION {OnLine(l) : l \in {k \in Lines : k[2] = p}}

(* A writer is there for what a line holds, and stopped only at the close. *)
WritersKept ==
    \A l \in Lines :
        /\ queue[l] # <<>> => writer[l] \in {"waiting", "sending", "resting"}
        /\ again[l] # <<>> => writer[l] = "resting"
        /\ flight[l] # <<>> => writer[l] = "sending"
        /\ writer[l] = "stopped" => l[1] \in shut

OutboxInv == OutboxTypeOK /\ WritersKept

NothingAdded ==
    /\ \A p \in Nodes : Carried(p)' \subseteq Carried(p)
    /\ \A l \in Lines : OnLine(l)' \subseteq OnLine(l)

-----------------------------------------------------------------------------
(* The elements of sequences, and of what a batch may leave of one. *)
LEMMA ElementsAppended ==
    ASSUME NEW S, NEW s \in Seq(S), NEW m \in S
    PROVE  Append(s, m) \in Seq(S) /\ Elements(Append(s, m)) = Elements(s) \cup {m}
<1>1. /\ Append(s, m) \in Seq(S) /\ DOMAIN Append(s, m) = 1 .. Len(s) + 1
      /\ Append(s, m)[Len(s) + 1] = m
      /\ \A i \in 1 .. Len(s) : Append(s, m)[i] = s[i]
  OBVIOUS
<1>2. DOMAIN s = 1 .. Len(s) /\ Len(s) \in Nat
  OBVIOUS
<1>3. 1 .. Len(s) + 1 = 1 .. Len(s) \cup {Len(s) + 1}
  BY <1>2
<1> QED
  BY <1>1, <1>2, <1>3 DEF Elements

LEMMA ElementsConcatenated ==
    ASSUME NEW S, NEW s \in Seq(S), NEW t \in Seq(S)
    PROVE  s \o t \in Seq(S) /\ Elements(s \o t) \subseteq Elements(s) \cup Elements(t)
BY DEF Elements

LEMMA ElementsBetween ==
    ASSUME NEW S, NEW s \in Seq(S), NEW i \in Nat \ {0}, NEW j \in 0 .. Len(s)
    PROVE  SubSeq(s, i, j) \in Seq(S) /\ Elements(SubSeq(s, i, j)) \subseteq Elements(s)
BY DEF Elements

LEMMA ElementsAfterHead ==
    ASSUME NEW S, NEW s \in Seq(S), s # <<>>
    PROVE  /\ Tail(s) \in Seq(S) /\ Elements(Tail(s)) \subseteq Elements(s)
           /\ Head(s) \in S /\ Head(s) \in Elements(s)
BY DEF Elements

LEMMA ElementsOfPart ==
    ASSUME NEW S, NEW s \in Seq(S), NEW t \in Parts(s)
    PROVE  t \in Seq(S) /\ Elements(t) \subseteq Elements(s)
<1>0. PICK k \in 0 .. Len(s) : \E f \in [1 .. k -> DOMAIN s] : t = [i \in 1 .. k |-> s[f[i]]]
  BY DEF Parts
<1>1. PICK f \in [1 .. k -> DOMAIN s] : t = [i \in 1 .. k |-> s[f[i]]]
  BY <1>0
<1>2. \A i \in 1 .. k : f[i] \in DOMAIN s /\ s[f[i]] \in S
  BY <1>1
<1>3. t \in [1 .. k -> S]
  BY <1>1, <1>2
<1>4. t \in Seq(S) /\ DOMAIN t = 1 .. k
  BY <1>3
<1> QED
  BY <1>1, <1>2, <1>4 DEF Elements

LEMMA ElementsOfPrefix ==
    ASSUME NEW S, NEW s \in Seq(S), NEW t \in Prefixes(s)
    PROVE  t \in Seq(S) /\ Elements(t) \subseteq Elements(s)
<1>1. PICK k \in 0 .. Len(s) : t = SubSeq(s, 1, k)
  BY DEF Prefixes
<1> QED
  BY <1>1, ElementsBetween

LEMMA EmptyElements == Elements(<<>>) = {}
BY DEF Elements

(* The ends of a line are processes. *)
LEMMA LineEnds ==
    ASSUME NEW l \in Lines
    PROVE  l[1] \in Nodes /\ l[2] \in Nodes /\ l = <<l[1], l[2]>>
BY DEF Lines, Nodes

-----------------------------------------------------------------------------
(* What follows for a process from its lines and its inbox. *)
LEMMA CarriedShrinks ==
    ASSUME \A l \in Lines : OnLine(l)' \subseteq OnLine(l),
           \A p \in Nodes : Elements(inbox[p])' \subseteq Carried(p)
    PROVE  NothingAdded
BY DEF NothingAdded, Carried

LEMMA LineCarried ==
    ASSUME NEW l \in Lines
    PROVE  OnLine(l) \subseteq Carried(l[2])
BY DEF Carried

(* Entries that enter an inbox were on a line to it. *)
LEMMA EntersInbox ==
    ASSUME OutboxTypeOK, NEW l \in Lines, NEW s \in Seq(Messages), Enters(l[2], s),
           Elements(s) \subseteq OnLine(l)
    PROVE  /\ inbox' \in [Nodes -> Seq(Messages)]
           /\ \A p \in Nodes : Elements(inbox[p])' \subseteq Carried(p)
<1> DEFINE to == l[2]
           next == IF to \in shut THEN <<>> ELSE inbox[to] \o s
<1>1. to \in Nodes
  BY LineEnds
<1>2. inbox \in [Nodes -> Seq(Messages)] /\ inbox[to] \in Seq(Messages)
  BY <1>1 DEF OutboxTypeOK
<1>3. next \in Seq(Messages) /\ Elements(next) \subseteq Elements(inbox[to]) \cup Elements(s)
  BY <1>2, ElementsConcatenated, EmptyElements
<1>4. inbox' = [inbox EXCEPT ![to] = next]
  BY DEF Enters
<1> HIDE DEF next
<1>5. inbox' \in [Nodes -> Seq(Messages)]
  BY <1>1, <1>2, <1>3, <1>4
<1>6. Elements(next) \subseteq Carried(to)
  BY <1>3, LineCarried DEF Carried
<1>7. ASSUME NEW p \in Nodes PROVE Elements(inbox'[p]) \subseteq Carried(p)
  <2>1. CASE p = to
    BY <1>1, <1>2, <1>4, <1>6, <2>1
  <2>2. CASE p # to
    <3>1. inbox'[p] = inbox[p]
      BY <1>2, <1>4, <2>2
    <3> QED
      BY <3>1 DEF Carried
  <2> QED
    BY <2>1, <2>2
<1> QED
  BY <1>5, <1>7 DEF Elements

(* A message posted is the only one added, on its line; its writer starts. *)
LEMMA PostKeeps ==
    ASSUME OutboxInv, NEW l \in Lines, NEW m \in Messages, Post(l, m),
           UNCHANGED <<again, flight, shut>>
    PROVE  /\ queue' \in [Lines -> Seq(Messages)]
           /\ writer' \in [Lines -> {"none", "waiting", "sending", "resting", "stopped"}]
           /\ WritersKept'
           /\ \A k \in Lines : k # l => OnLine(k)' \subseteq OnLine(k)
           /\ OnLine(l)' \subseteq OnLine(l) \cup {m}
<1>1. /\ queue \in [Lines -> Seq(Messages)] /\ queue[l] \in Seq(Messages)
      /\ writer \in [Lines -> {"none", "waiting", "sending", "resting", "stopped"}]
  BY DEF OutboxInv, OutboxTypeOK
<1>2. CASE l[1] \in shut
  <2>1. UNCHANGED <<queue, writer>>
    BY <1>2 DEF Post
  <2> QED
    BY <1>1, <2>1 DEF OutboxInv, WritersKept, OnLine, Elements
<1>3. CASE l[1] \notin shut
  <2> DEFINE longer == Append(queue[l], m)
  <2>1. longer \in Seq(Messages) /\ Elements(longer) = Elements(queue[l]) \cup {m}
    BY <1>1, ElementsAppended
  <2> HIDE DEF longer
  <2>2. /\ queue' = [queue EXCEPT ![l] = longer]
        /\ writer' = [writer EXCEPT ![l] = IF @ = "none" THEN "waiting" ELSE @]
    BY <1>3 DEF Post, longer
  <2>3. queue' \in [Lines -> Seq(Messages)]
    BY <1>1, <2>1, <2>2
  <2>4. writer' \in [Lines -> {"none", "waiting", "sending", "resting", "stopped"}]
    BY <1>1, <2>2
  <2>5. ASSUME NEW k \in Lines PROVE
          /\ queue'[k] # <<>> => writer'[k] \in {"waiting", "sending", "resting"}
          /\ again'[k] # <<>> => writer'[k] = "resting"
          /\ flight'[k] # <<>> => writer'[k] = "sending"
          /\ writer'[k] = "stopped" => k[1] \in shut'
    <3>1. CASE k = l
      BY <1>1, <1>3, <2>2, <3>1 DEF OutboxInv, WritersKept
    <3>2. CASE k # l
      <4>1. queue'[k] = queue[k] /\ writer'[k] = writer[k]
        BY <1>1, <2>2, <3>2
      <4> QED
        BY <4>1 DEF OutboxInv, WritersKept
    <3> QED
      BY <3>1, <3>2
  <2>6. ASSUME NEW k \in Lines, k # l PROVE OnLine(k)' \subseteq OnLine(k)
    <3>1. queue'[k] = queue[k]
      BY <1>1, <2>2, <2>6
    <3> QED
      BY <3>1 DEF OnLine, Elements
  <2>7. OnLine(l)' \subseteq OnLine(l) \cup {m}
    <3>1. queue'[l] = longer
      BY <1>1, <2>2
    <3> QED
      BY <2>1, <3>1 DEF OnLine, Elements
  <2> QED
    BY <2>3, <2>4, <2>5, <2>6, <2>7 DEF WritersKept
<1> QED
  BY <1>2, <1>3

(* What a step of one line keeps, whatever it moves within the line. *)
LEMMA LineStep ==
    ASSUME OutboxInv, NEW l \in Lines,
           NEW q \in Seq(Messages), NEW a \in Seq(Messages), NEW f \in Seq(Messages),
           NEW w \in {"none", "waiting", "sending", "resting", "stopped"},
           queue' = [queue EXCEPT ![l] = q], again' = [again EXCEPT ![l] = a],
           flight' = [flight EXCEPT ![l] = f], writer' = [writer EXCEPT ![l] = w],
           shut' = shut,
           Elements(q) \cup Elements(a) \cup Elements(f) \subseteq OnLine(l),
           q # <<>> => w \in {"waiting", "sending", "resting"},
           a # <<>> => w = "resting",
           f # <<>> => w = "sending",
           w = "stopped" => l[1] \in shut,
           inbox' \in [Nodes -> Seq(Messages)],
           \A p \in Nodes : Elements(inbox[p])' \subseteq Carried(p)
    PROVE  OutboxInv' /\ NothingAdded
<1>1. /\ queue \in [Lines -> Seq(Messages)] /\ again \in [Lines -> Seq(Messages)]
      /\ flight \in [Lines -> Seq(Messages)] /\ shut \in SUBSET Nodes
      /\ writer \in [Lines -> {"none", "waiting", "sending", "resting", "stopped"}]
  BY DEF OutboxInv, OutboxTypeOK
<1>2. OutboxTypeOK'
  BY <1>1 DEF OutboxTypeOK
<1>3. ASSUME NEW k \in Lines PROVE
        /\ queue'[k] # <<>> => writer'[k] \in {"waiting", "sending", "resting"}
        /\ again'[k] # <<>> => writer'[k] = "resting"
        /\ flight'[k] # <<>> => writer'[k] = "sending"
        /\ writer'[k] = "stopped" => k[1] \in shut'
        /\ OnLine(k)' \subseteq OnLine(k)
  <2>1. CASE k = l
    <3>1. queue'[k] = q /\ again'[k] = a /\ flight'[k] = f /\ writer'[k] = w
      BY <1>1, <2>1
    <3>2. OnLine(k)' = Elements(queue'[k]) \cup Elements(again'[k]) \cup Elements(flight'[k])
      BY DEF OnLine, Elements
    <3>3. OnLine(k)' \subseteq OnLine(k)
      BY <2>1, <3>1, <3>2
    <3> QED
      BY <2>1, <3>1, <3>3
  <2>2. CASE k # l
    <3>1. /\ queue'[k] = queue[k] /\ again'[k] = again[k]
          /\ flight'[k] = flight[k] /\ writer'[k] = writer[k]
      BY <1>1, <2>2
    <3>2. OnLine(k)' \subseteq OnLine(k)
      BY <3>1 DEF OnLine, Elements
    <3> QED
      BY <3>1, <3>2 DEF OutboxInv, WritersKept
  <2> QED
    BY <2>1, <2>2
<1>4. WritersKept'
  BY <1>3 DEF WritersKept
<1> QED
  BY <1>2, <1>3, <1>4, CarriedShrinks DEF OutboxInv

LEMMA InboxStays ==
    ASSUME OutboxTypeOK, inbox' = inbox
    PROVE  /\ inbox' \in [Nodes -> Seq(Messages)]
           /\ \A p \in Nodes : Elements(inbox[p])' \subseteq Carried(p)
BY DEF OutboxTypeOK, Carried, Elements

LEMMA TakeBatchKeeps ==
    ASSUME OutboxInv, NEW l \in Lines, TakeBatch(l)
    PROVE  OutboxInv' /\ NothingAdded
<1> DEFINE room == Room(l)
           k == IF Len(queue[l]) < room THEN Len(queue[l]) ELSE room
           taken == SubSeq(queue[l], 1, k)
           left == SubSeq(queue[l], k + 1, Len(queue[l]))
           batch == again[l] \o taken
<1>1. /\ queue \in [Lines -> Seq(Messages)] /\ queue[l] \in Seq(Messages)
      /\ again \in [Lines -> Seq(Messages)] /\ again[l] \in Seq(Messages)
      /\ flight \in [Lines -> Seq(Messages)]
      /\ writer \in [Lines -> {"none", "waiting", "sending", "resting", "stopped"}]
  BY DEF OutboxInv, OutboxTypeOK
<1>2. k \in 0 .. Len(queue[l])
  BY <1>1, OutboxAssumption DEF Room
<1>3. /\ taken \in Seq(Messages) /\ Elements(taken) \subseteq Elements(queue[l])
      /\ left \in Seq(Messages) /\ Elements(left) \subseteq Elements(queue[l])
  <2> HIDE DEF k
  <2>1. Len(queue[l]) \in 0 .. Len(queue[l]) /\ k + 1 \in Nat \ {0} /\ 1 \in Nat \ {0}
    BY <1>1, <1>2
  <2>2. taken \in Seq(Messages) /\ Elements(taken) \subseteq Elements(queue[l])
    BY <1>1, <1>2, <2>1, ElementsBetween
  <2>3. left \in Seq(Messages) /\ Elements(left) \subseteq Elements(queue[l])
    BY <1>1, <1>2, <2>1, ElementsBetween
  <2> QED
    BY <2>2, <2>3
<1>4. batch \in Seq(Messages) /\ Elements(batch) \subseteq Elements(again[l]) \cup Elements(taken)
  BY <1>1, <1>3, ElementsConcatenated
<1>5. /\ queue' = [queue EXCEPT ![l] = left] /\ again' = [again EXCEPT ![l] = <<>>]
      /\ flight' = [flight EXCEPT ![l] = batch] /\ writer' = [writer EXCEPT ![l] = "sending"]
      /\ UNCHANGED <<shut, inbox>>
  BY DEF TakeBatch
<1> HIDE DEF left, batch, taken
<1>6. Elements(left) \cup Elements(<<>>) \cup Elements(batch) \subseteq OnLine(l)
  BY <1>3, <1>4, EmptyElements DEF OnLine
<1>7. <<>> \in Seq(Messages)
  OBVIOUS
<1>8. /\ inbox' \in [Nodes -> Seq(Messages)]
      /\ \A p \in Nodes : Elements(inbox[p])' \subseteq Carried(p)
  BY <1>5, InboxStays DEF OutboxInv
<1> QED
  BY <1>3, <1>4, <1>5, <1>6, <1>7, <1>8, LineStep

LEMMA WriteBatchKeeps ==
    ASSUME OutboxInv, NEW l \in Lines, NEW twice, WriteBatch(l, twice)
    PROVE  OutboxInv' /\ NothingAdded
<1>1. /\ queue \in [Lines -> Seq(Messages)] /\ queue[l] \in Seq(Messages)
      /\ again \in [Lines -> Seq(Messages)] /\ again[l] \in Seq(Messages)
      /\ flight \in [Lines -> Seq(Messages)] /\ flight[l] \in Seq(Messages)
      /\ writer \in [Lines -> {"none", "waiting", "sending", "resting", "stopped"}]
      /\ OutboxTypeOK
  BY DEF OutboxInv, OutboxTypeOK
<1>2. twice \in Seq(Messages) /\ Elements(twice) \subseteq Elements(flight[l])
  BY <1>1, ElementsOfPrefix DEF WriteBatch
<1>3. /\ twice \o flight[l] \in Seq(Messages)
      /\ Elements(twice \o flight[l]) \subseteq OnLine(l)
  BY <1>1, <1>2, ElementsConcatenated DEF OnLine
<1>4. /\ inbox' \in [Nodes -> Seq(Messages)]
      /\ \A p \in Nodes : Elements(inbox[p])' \subseteq Carried(p)
  BY <1>1, <1>3, EntersInbox DEF WriteBatch
<1>5. writer[l] = "sending" /\ again[l] = <<>>
  BY DEF WriteBatch, OutboxInv, WritersKept
<1>6. /\ queue' = [queue EXCEPT ![l] = queue[l]] /\ again' = [again EXCEPT ![l] = <<>>]
      /\ flight' = [flight EXCEPT ![l] = <<>>] /\ writer' = [writer EXCEPT ![l] = "waiting"]
      /\ shut' = shut
  BY <1>1, <1>5 DEF WriteBatch
<1>7. Elements(queue[l]) \cup Elements(<<>>) \cup Elements(<<>>) \subseteq OnLine(l)
  BY EmptyElements DEF OnLine
<1>8. <<>> \in Seq(Messages)
  OBVIOUS
<1> QED
  BY <1>1, <1>4, <1>6, <1>7, <1>8, LineStep

LEMMA RefuseBatchKeeps ==
    ASSUME OutboxInv, NEW l \in Lines, NEW part, RefuseBatch(l, part)
    PROVE  OutboxInv' /\ NothingAdded
<1>1. /\ queue \in [Lines -> Seq(Messages)] /\ queue[l] \in Seq(Messages)
      /\ again \in [Lines -> Seq(Messages)]
      /\ flight \in [Lines -> Seq(Messages)] /\ flight[l] \in Seq(Messages)
      /\ writer \in [Lines -> {"none", "waiting", "sending", "resting", "stopped"}]
      /\ OutboxTypeOK
  BY DEF OutboxInv, OutboxTypeOK
<1>2. PICK t \in WrittenAgain(flight[l]) : again' = [again EXCEPT ![l] = t]
  BY DEF RefuseBatch
<1>3. t \in Seq(Messages) /\ Elements(t) \subseteq Elements(flight[l])
  BY <1>1, <1>2, ElementsOfPart DEF WrittenAgain
<1>4. part \in Seq(Messages) /\ Elements(part) \subseteq Elements(flight[l])
  BY <1>1, ElementsOfPart DEF RefuseBatch
<1>5. /\ inbox' \in [Nodes -> Seq(Messages)]
      /\ \A p \in Nodes : Elements(inbox[p])' \subseteq Carried(p)
  BY <1>1, <1>4, EntersInbox DEF RefuseBatch, OnLine
<1> DEFINE w == IF t # <<>> THEN "resting" ELSE "waiting"
<1>6. again'[l] = t
  BY <1>1, <1>2
<1>7. /\ queue' = [queue EXCEPT ![l] = queue[l]] /\ flight' = [flight EXCEPT ![l] = <<>>]
      /\ writer' = [writer EXCEPT ![l] = w] /\ shut' = shut
  BY <1>1, <1>6 DEF RefuseBatch
<1>8. Elements(queue[l]) \cup Elements(t) \cup Elements(<<>>) \subseteq OnLine(l)
  BY <1>3, EmptyElements DEF OnLine
<1>9. <<>> \in Seq(Messages) /\ w \in {"resting", "waiting"} /\ (t # <<>> => w = "resting")
  OBVIOUS
<1> HIDE DEF w
<1> QED
  BY <1>1, <1>2, <1>3, <1>5, <1>7, <1>8, <1>9, LineStep

LEMMA WriterKeeps ==
    ASSUME OutboxInv, NEW l \in Lines, RetireWriter(l) \/ StopWriter(l)
    PROVE  OutboxInv' /\ NothingAdded
<1>1. /\ queue \in [Lines -> Seq(Messages)] /\ queue[l] \in Seq(Messages)
      /\ again \in [Lines -> Seq(Messages)] /\ again[l] \in Seq(Messages)
      /\ flight \in [Lines -> Seq(Messages)] /\ flight[l] \in Seq(Messages)
      /\ writer \in [Lines -> {"none", "waiting", "sending", "resting", "stopped"}]
      /\ OutboxTypeOK
  BY DEF OutboxInv, OutboxTypeOK
<1>2. PICK w \in {"none", "stopped"} :
      /\ writer' = [writer EXCEPT ![l] = w]
      /\ w = "stopped" => l[1] \in shut
      /\ writer[l] = "waiting" /\ queue[l] = <<>>
      /\ UNCHANGED <<queue, again, flight, shut, inbox>>
  BY <1>1 DEF RetireWriter, StopWriter, Idle
<1>3. again[l] = <<>> /\ flight[l] = <<>>
  BY <1>2 DEF OutboxInv, WritersKept
<1>4. /\ queue' = [queue EXCEPT ![l] = queue[l]] /\ again' = [again EXCEPT ![l] = again[l]]
      /\ flight' = [flight EXCEPT ![l] = flight[l]]
  BY <1>1, <1>2
<1>5. Elements(queue[l]) \cup Elements(again[l]) \cup Elements(flight[l]) \subseteq OnLine(l)
  BY DEF OnLine
<1>6. /\ inbox' \in [Nodes -> Seq(Messages)]
      /\ \A p \in Nodes : Elements(inbox[p])' \subseteq Carried(p)
  BY <1>1, <1>2, InboxStays
<1>7. /\ w \in {"none", "waiting", "sending", "resting", "stopped"} /\ shut' = shut
      /\ writer' = [writer EXCEPT ![l] = w]
      /\ queue[l] # <<>> => w \in {"waiting", "sending", "resting"}
      /\ again[l] # <<>> => w = "resting"
      /\ flight[l] # <<>> => w = "sending"
      /\ w = "stopped" => l[1] \in shut
  BY <1>2, <1>3
<1>8. /\ queue[l] \in Seq(Messages) /\ again[l] \in Seq(Messages)
      /\ flight[l] \in Seq(Messages)
  BY <1>1
<1> QED
  BY <1>4, <1>5, <1>6, <1>7, <1>8, LineStep

LEMMA CutWriterKeeps ==
    ASSUME OutboxInv, NEW l \in Lines, NEW part, CutWriter(l, part)
    PROVE  OutboxInv' /\ NothingAdded
<1>1. /\ flight \in [Lines -> Seq(Messages)] /\ flight[l] \in Seq(Messages)
      /\ OutboxTypeOK
  BY DEF OutboxInv, OutboxTypeOK
<1>2. part \in Seq(Messages) /\ Elements(part) \subseteq Elements(flight[l])
  BY <1>1, ElementsOfPart DEF CutWriter
<1>3. /\ inbox' \in [Nodes -> Seq(Messages)]
      /\ \A p \in Nodes : Elements(inbox[p])' \subseteq Carried(p)
  BY <1>1, <1>2, EntersInbox DEF CutWriter, OnLine
<1>4. /\ queue' = [queue EXCEPT ![l] = <<>>] /\ again' = [again EXCEPT ![l] = <<>>]
      /\ flight' = [flight EXCEPT ![l] = <<>>] /\ writer' = [writer EXCEPT ![l] = "stopped"]
      /\ shut' = shut /\ l[1] \in shut
  BY DEF CutWriter
<1>5. Elements(<<>>) \cup Elements(<<>>) \cup Elements(<<>>) \subseteq OnLine(l)
  BY EmptyElements
<1>6. <<>> \in Seq(Messages)
  OBVIOUS
<1> QED
  BY <1>3, <1>4, <1>5, <1>6, LineStep

(* A process that goes: its inbox is dropped, and with a crash its lines.  *)
LEMMA InboxDropped ==
    ASSUME OutboxTypeOK, NEW n \in Nodes, inbox' = [inbox EXCEPT ![n] = <<>>]
    PROVE  /\ inbox' \in [Nodes -> Seq(Messages)]
           /\ \A p \in Nodes : Elements(inbox[p])' \subseteq Carried(p)
<1>1. inbox \in [Nodes -> Seq(Messages)]
  BY DEF OutboxTypeOK
<1>2. ASSUME NEW p \in Nodes PROVE Elements(inbox'[p]) \subseteq Carried(p)
  <2>1. inbox'[p] = <<>> \/ inbox'[p] = inbox[p]
    BY <1>1
  <2> QED
    BY <2>1, EmptyElements DEF Carried
<1> QED
  BY <1>1, <1>2 DEF Elements

LEMMA CloseOutboxKeeps ==
    ASSUME OutboxInv, NEW n \in Nodes, CloseOutbox(n)
    PROVE  OutboxInv' /\ NothingAdded
<1>1. /\ UNCHANGED <<queue, again, flight, writer>> /\ shut' = shut \cup {n}
      /\ OutboxTypeOK /\ WritersKept
  BY DEF CloseOutbox, OutboxInv
<1>2. /\ inbox' \in [Nodes -> Seq(Messages)]
      /\ \A p \in Nodes : Elements(inbox[p])' \subseteq Carried(p)
  BY <1>1, InboxDropped DEF CloseOutbox
<1>3. OutboxTypeOK' /\ WritersKept'
  BY <1>1, <1>2 DEF OutboxTypeOK, WritersKept
<1>4. \A l \in Lines : OnLine(l)' \subseteq OnLine(l)
  BY <1>1 DEF OnLine, Elements
<1> QED
  BY <1>2, <1>3, <1>4, CarriedShrinks DEF OutboxInv

LEMMA LoseOutboxKeeps ==
    ASSUME OutboxInv, NEW n \in Nodes, LoseOutbox(n)
    PROVE  OutboxInv' /\ NothingAdded
<1>1. OutboxTypeOK /\ WritersKept
  BY DEF OutboxInv
<1>2. /\ inbox' \in [Nodes -> Seq(Messages)]
      /\ \A p \in Nodes : Elements(inbox[p])' \subseteq Carried(p)
  BY <1>1, InboxDropped DEF LoseOutbox
<1>3. /\ queue' = [l \in Lines |-> IF l[1] = n THEN <<>> ELSE queue[l]]
      /\ again' = [l \in Lines |-> IF l[1] = n THEN <<>> ELSE again[l]]
      /\ flight' = [l \in Lines |-> IF l[1] = n THEN <<>> ELSE flight[l]]
      /\ writer' = [l \in Lines |-> IF l[1] = n THEN "stopped" ELSE writer[l]]
      /\ shut' = shut \cup {n}
  BY DEF LoseOutbox
<1>4. OutboxTypeOK' /\ WritersKept'
  <2>1. OutboxTypeOK'
    BY <1>1, <1>2, <1>3 DEF OutboxTypeOK
  <2>2. WritersKept'
    BY <1>1, <1>3 DEF WritersKept
  <2> QED
    BY <2>1, <2>2
<1>5. ASSUME NEW l \in Lines PROVE OnLine(l)' \subseteq OnLine(l)
  <2>1. OnLine(l)' = Elements(queue'[l]) \cup Elements(again'[l]) \cup Elements(flight'[l])
    BY DEF OnLine, Elements
  <2>2. /\ queue'[l] \in {<<>>, queue[l]} /\ again'[l] \in {<<>>, again[l]}
        /\ flight'[l] \in {<<>>, flight[l]}
    BY <1>3
  <2> QED
    BY <2>1, <2>2, EmptyElements DEF OnLine
<1> QED
  BY <1>2, <1>4, <1>5, CarriedShrinks DEF OutboxInv

-----------------------------------------------------------------------------
LEMMA CarriedGrows ==
    ASSUME NEW l \in Lines, NEW m,
           \A k \in Lines : k # l => OnLine(k)' \subseteq OnLine(k),
           OnLine(l)' \subseteq OnLine(l) \cup {m},
           \A p \in Nodes : Elements(inbox[p])' \subseteq Elements(inbox[p])
    PROVE  /\ \A p \in Nodes : p # l[2] => Carried(p)' \subseteq Carried(p)
           /\ Carried(l[2])' \subseteq Carried(l[2]) \cup {m}
<1>1. ASSUME NEW p \in Nodes, NEW x \in Carried(p)'
      PROVE  x \in Carried(p) \/ (x = m /\ p = l[2])
  <2>1. CASE x \in Elements(inbox[p])'
    BY <2>1 DEF Carried
  <2>2. CASE x \notin Elements(inbox[p])'
    <3>1. PICK k \in {j \in Lines : j[2] = p} : x \in OnLine(k)'
      BY <1>1, <2>2 DEF Carried
    <3>2. CASE k = l
      BY <3>1, <3>2 DEF Carried
    <3>3. CASE k # l
      BY <3>1, <3>3 DEF Carried
    <3> QED
      BY <3>2, <3>3
  <2> QED
    BY <2>1, <2>2
<1> QED
  BY <1>1, LineEnds

(* A step that posts one message, and nothing else of the outbox. *)
LEMMA PostOnly ==
    ASSUME OutboxInv, NEW l \in Lines, NEW m \in Messages, Post(l, m),
           UNCHANGED <<again, flight, shut, inbox>>
    PROVE  /\ OutboxInv'
           /\ \A p \in Nodes : p # l[2] => Carried(p)' \subseteq Carried(p)
           /\ Carried(l[2])' \subseteq Carried(l[2]) \cup {m}
<1>1. /\ queue' \in [Lines -> Seq(Messages)]
      /\ writer' \in [Lines -> {"none", "waiting", "sending", "resting", "stopped"}]
      /\ WritersKept'
      /\ \A k \in Lines : k # l => OnLine(k)' \subseteq OnLine(k)
      /\ OnLine(l)' \subseteq OnLine(l) \cup {m}
  BY PostKeeps
<1>2. OutboxInv'
  BY <1>1 DEF OutboxInv, OutboxTypeOK
<1>3. \A p \in Nodes : Elements(inbox[p])' = Elements(inbox[p])
  BY DEF Elements
<1>4. \A p \in Nodes : Elements(inbox[p])' \subseteq Elements(inbox[p])
  BY <1>3
<1> QED
  BY <1>1, <1>2, <1>4, CarriedGrows

(* An entry handed on leaves its inbox, and may post an answer. *)
LEMMA HandedOn ==
    ASSUME OutboxInv, NEW n \in Nodes, inbox[n] # <<>>,
           inbox' = [inbox EXCEPT ![n] = Tail(@)], UNCHANGED <<again, flight, shut>>
    PROVE  /\ Head(inbox[n]) \in Messages /\ Head(inbox[n]) \in Carried(n)
           /\ UNCHANGED <<queue, writer>> => OutboxInv' /\ NothingAdded
           /\ \A l \in Lines, m \in Messages :
                 Post(l, m) =>
                    /\ OutboxInv'
                    /\ \A p \in Nodes : p # l[2] => Carried(p)' \subseteq Carried(p)
                    /\ Carried(l[2])' \subseteq Carried(l[2]) \cup {m}
<1>1. inbox \in [Nodes -> Seq(Messages)] /\ inbox[n] \in Seq(Messages)
  BY DEF OutboxInv, OutboxTypeOK
<1>2. /\ Tail(inbox[n]) \in Seq(Messages)
      /\ Elements(Tail(inbox[n])) \subseteq Elements(inbox[n])
      /\ Head(inbox[n]) \in Messages /\ Head(inbox[n]) \in Elements(inbox[n])
  BY <1>1, ElementsAfterHead
<1>3. inbox' \in [Nodes -> Seq(Messages)]
  BY <1>1, <1>2
<1>4. ASSUME NEW p \in Nodes PROVE Elements(inbox'[p]) \subseteq Elements(inbox[p])
  BY <1>1, <1>2
<1>5. \A p \in Nodes : Elements(inbox[p])' \subseteq Elements(inbox[p])
  BY <1>4 DEF Elements
<1>6. ASSUME UNCHANGED <<queue, writer>> PROVE OutboxInv' /\ NothingAdded
  <2>1. OutboxInv'
    BY <1>3, <1>6 DEF OutboxInv, OutboxTypeOK, WritersKept
  <2>2. \A l \in Lines : OnLine(l)' \subseteq OnLine(l)
    BY <1>6 DEF OnLine, Elements
  <2> QED
    BY <1>5, <2>1, <2>2, CarriedShrinks DEF Carried
<1>7. ASSUME NEW l \in Lines, NEW m \in Messages, Post(l, m)
      PROVE  /\ OutboxInv'
             /\ \A p \in Nodes : p # l[2] => Carried(p)' \subseteq Carried(p)
             /\ Carried(l[2])' \subseteq Carried(l[2]) \cup {m}
  <2>1. /\ queue' \in [Lines -> Seq(Messages)]
        /\ writer' \in [Lines -> {"none", "waiting", "sending", "resting", "stopped"}]
        /\ WritersKept'
        /\ \A k \in Lines : k # l => OnLine(k)' \subseteq OnLine(k)
        /\ OnLine(l)' \subseteq OnLine(l) \cup {m}
    BY <1>7, PostKeeps
  <2>2. OutboxInv'
    BY <1>3, <2>1 DEF OutboxInv, OutboxTypeOK
  <2> QED
    BY <1>5, <2>1, <2>2, CarriedGrows
<1>8. Head(inbox[n]) \in Carried(n)
  BY <1>2 DEF Carried
<1> QED
  BY <1>2, <1>6, <1>7, <1>8

(* At the start nothing is under way. *)
LEMMA OutboxStarts ==
    ASSUME OutboxInit
    PROVE  OutboxInv /\ \A p \in Nodes : Carried(p) = {}
<1>1. <<>> \in Seq(Messages)
  OBVIOUS
<1>2. OutboxInv
  BY <1>1 DEF OutboxInit, OutboxInv, OutboxTypeOK, WritersKept
<1>3. \A p \in Nodes : Elements(inbox[p]) = {}
  BY EmptyElements DEF OutboxInit
<1>4. \A l \in Lines : OnLine(l) = {}
  BY EmptyElements DEF OutboxInit, OnLine
<1> QED
  BY <1>2, <1>3, <1>4 DEF Carried
-----------------------------------------------------------------------------
(* Order: each numbered message comes behind the one before it, wherever   *)
(* it is, though batches may be written twice.                             *)

Nums(kinds, s) == {s[i].n : i \in {j \in DOMAIN s : s[j].kind \in kinds}}

Before(kinds, s, i, x) == \E j \in 1 .. i - 1 : s[j].kind \in kinds /\ s[j].n = x

(* Read by a reader that has the numbers S, s shows no gap. *)
Steady(kinds, s, S) ==
    \A i \in DOMAIN s :
        s[i].kind \in kinds =>
            s[i].n - 1 \in S \/ Before(kinds, s, i, s[i].n - 1)

LEMMA NumsOf ==
    ASSUME NEW kinds, NEW s, NEW x
    PROVE  x \in Nums(kinds, s) <=> \E i \in DOMAIN s : s[i].kind \in kinds /\ s[i].n = x
BY DEF Nums

LEMMA SteadyMore ==
    ASSUME NEW kinds, NEW s, NEW S, NEW T, Steady(kinds, s, S), S \subseteq T
    PROVE  Steady(kinds, s, T)
BY DEF Steady

LEMMA SteadyNone ==
    ASSUME NEW kinds, NEW s, \A m \in Elements(s) : m.kind \notin kinds
    PROVE  Nums(kinds, s) = {} /\ \A S : Steady(kinds, s, S)
<1>1. \A i \in DOMAIN s : s[i].kind \notin kinds
  BY DEF Elements
<1> QED
  BY <1>1 DEF Steady, Nums

LEMMA SteadyConcat ==
    ASSUME NEW kinds, NEW M, NEW s \in Seq(M), NEW t \in Seq(M)
    PROVE  /\ s \o t \in Seq(M)
           /\ Nums(kinds, s \o t) = Nums(kinds, s) \cup Nums(kinds, t)
           /\ \A S : Steady(kinds, s \o t, S)
                       <=> Steady(kinds, s, S) /\ Steady(kinds, t, S \cup Nums(kinds, s))
<1> DEFINE u == s \o t
           n == Len(s)
<1>1. /\ u \in Seq(M) /\ n \in Nat /\ Len(t) \in Nat
      /\ DOMAIN s = 1 .. n /\ DOMAIN t = 1 .. Len(t) /\ DOMAIN u = 1 .. n + Len(t)
      /\ \A i \in 1 .. n + Len(t) : u[i] = IF i <= n THEN s[i] ELSE t[i - n]
  <2>1. /\ u \in Seq(M) /\ Len(u) = n + Len(t)
        /\ \A i \in 1 .. n + Len(t) : u[i] = IF i <= n THEN s[i] ELSE t[i - n]
    BY ConcatProperties
  <2> HIDE DEF u
  <2> QED
    BY <2>1, LenProperties
<1> HIDE DEF u, n
<1>2. ASSUME NEW i \in 1 .. n PROVE i \in DOMAIN u /\ u[i] = s[i]
  BY <1>1
<1>3. ASSUME NEW i \in 1 .. Len(t) PROVE n + i \in DOMAIN u /\ u[n + i] = t[i]
  BY <1>1
<1>4. ASSUME NEW i \in DOMAIN u
      PROVE  i \in 1 .. n \/ \E k \in 1 .. Len(t) : i = n + k
  <2>1. CASE i > n
    <3>1. i - n \in 1 .. Len(t) /\ i = n + (i - n)
      BY <1>1, <2>1
    <3> QED
      BY <3>1
  <2> QED
    BY <1>1, <2>1
<1>5. Nums(kinds, u) = Nums(kinds, s) \cup Nums(kinds, t)
  <2>1. ASSUME NEW x \in Nums(kinds, u) PROVE x \in Nums(kinds, s) \cup Nums(kinds, t)
    <3>1. PICK i \in DOMAIN u : u[i].kind \in kinds /\ u[i].n = x
      BY <2>1, NumsOf
    <3>2. CASE i \in 1 .. n
      BY <1>1, <1>2, <3>1, <3>2, NumsOf
    <3>3. ASSUME NEW k \in 1 .. Len(t), i = n + k PROVE x \in Nums(kinds, t)
      BY <1>1, <1>3, <3>1, <3>3, NumsOf
    <3> QED
      BY <1>4, <3>2, <3>3
  <2>2. ASSUME NEW x \in Nums(kinds, s) PROVE x \in Nums(kinds, u)
    BY <1>1, <1>2, <2>2, NumsOf
  <2>3. ASSUME NEW x \in Nums(kinds, t) PROVE x \in Nums(kinds, u)
    <3>1. PICK i \in DOMAIN t : t[i].kind \in kinds /\ t[i].n = x
      BY <2>3, NumsOf
    <3>2. n + i \in DOMAIN u /\ u[n + i] = t[i]
      BY <1>1, <1>3
    <3> QED
      BY <3>1, <3>2, NumsOf
  <2> QED
    BY <2>1, <2>2, <2>3
<1>6. ASSUME NEW i \in 1 .. n, NEW x PROVE Before(kinds, u, i, x) <=> Before(kinds, s, i, x)
  <2>1. \A j \in 1 .. i - 1 : j \in 1 .. n
    BY <1>1
  <2> QED
    BY <1>2, <2>1 DEF Before
<1>7. ASSUME NEW i \in 1 .. Len(t), NEW x
      PROVE  Before(kinds, u, n + i, x) <=> x \in Nums(kinds, s) \/ Before(kinds, t, i, x)
  <2>1. ASSUME NEW j \in 1 .. n + i - 1, u[j].kind \in kinds, u[j].n = x
        PROVE  x \in Nums(kinds, s) \/ Before(kinds, t, i, x)
    <3>1. CASE j \in 1 .. n
      BY <1>1, <1>2, <2>1, <3>1, NumsOf
    <3>2. CASE j \notin 1 .. n
      <4>1. j - n \in 1 .. i - 1 /\ j - n \in 1 .. Len(t) /\ n + (j - n) = j
        BY <1>1, <3>2
      <4>2. PICK k \in 1 .. i - 1 : k \in 1 .. Len(t) /\ n + k = j
        BY <4>1
      <4>3. u[j] = t[k]
        BY <1>3, <4>2
      <4> QED
        BY <1>1, <2>1, <4>2, <4>3 DEF Before
    <3> QED
      BY <3>1, <3>2
  <2>2. ASSUME x \in Nums(kinds, s) PROVE Before(kinds, u, n + i, x)
    <3>1. PICK j \in 1 .. n : s[j].kind \in kinds /\ s[j].n = x
      BY <1>1, <2>2, NumsOf
    <3>2. j \in 1 .. n + i - 1 /\ u[j] = s[j]
      BY <1>1, <1>2
    <3>3. u[j].kind \in kinds /\ u[j].n = x
      BY <3>1, <3>2
    <3> QED
      BY <1>1, <3>2, <3>3 DEF Before
  <2>3. ASSUME NEW j \in 1 .. i - 1, t[j].kind \in kinds, t[j].n = x
        PROVE  Before(kinds, u, n + i, x)
    <3>1. j \in 1 .. Len(t) /\ n + j \in 1 .. n + i - 1
      BY <1>1
    <3>2. PICK k \in 1 .. n + i - 1 : k = n + j
      BY <3>1
    <3>3. u[k] = t[j]
      BY <1>3, <3>1, <3>2
    <3> QED
      BY <1>1, <2>3, <3>2, <3>3 DEF Before
  <2> QED
    BY <1>1, <2>1, <2>2, <2>3 DEF Before
<1>8. ASSUME NEW S
      PROVE  Steady(kinds, u, S)
                <=> Steady(kinds, s, S) /\ Steady(kinds, t, S \cup Nums(kinds, s))
  <2>0. /\ Steady(kinds, u, S) <=> \A i \in DOMAIN u : u[i].kind \in kinds =>
                                      u[i].n - 1 \in S \/ Before(kinds, u, i, u[i].n - 1)
        /\ Steady(kinds, s, S) <=> \A i \in 1 .. n : s[i].kind \in kinds =>
                                      s[i].n - 1 \in S \/ Before(kinds, s, i, s[i].n - 1)
        /\ Steady(kinds, t, S \cup Nums(kinds, s)) <=>
              \A i \in 1 .. Len(t) : t[i].kind \in kinds =>
                 \/ t[i].n - 1 \in S \cup Nums(kinds, s)
                 \/ Before(kinds, t, i, t[i].n - 1)
    BY <1>1 DEF Steady
  <2>1. ASSUME Steady(kinds, u, S)
        PROVE  Steady(kinds, s, S) /\ Steady(kinds, t, S \cup Nums(kinds, s))
    <3>1. Steady(kinds, s, S)
      BY <1>2, <1>6, <2>0, <2>1
    <3>2. ASSUME NEW i \in 1 .. Len(t), t[i].kind \in kinds
          PROVE  \/ t[i].n - 1 \in S \cup Nums(kinds, s)
                 \/ Before(kinds, t, i, t[i].n - 1)
      <4>1. n + i \in DOMAIN u /\ u[n + i] = t[i]
        BY <1>3
      <4>2. t[i].n - 1 \in S \/ Before(kinds, u, n + i, t[i].n - 1)
        BY <2>0, <2>1, <3>2, <4>1
      <4> QED
        BY <1>7, <4>2
    <3> QED
      BY <2>0, <3>1, <3>2
  <2>2. ASSUME Steady(kinds, s, S), Steady(kinds, t, S \cup Nums(kinds, s))
        PROVE  Steady(kinds, u, S)
    <3>1. ASSUME NEW i \in DOMAIN u, u[i].kind \in kinds
          PROVE  u[i].n - 1 \in S \/ Before(kinds, u, i, u[i].n - 1)
      <4>1. CASE i \in 1 .. n
        BY <1>2, <1>6, <2>0, <2>2, <3>1, <4>1
      <4>2. ASSUME NEW k \in 1 .. Len(t), i = n + k
            PROVE  u[i].n - 1 \in S \/ Before(kinds, u, i, u[i].n - 1)
        <5>1. u[n + k] = t[k]
          BY <1>3
        <5> QED
          BY <1>7, <2>0, <2>2, <3>1, <4>2, <5>1
      <4> QED
        BY <1>4, <4>1, <4>2
    <3> QED
      BY <2>0, <3>1
  <2> QED
    BY <2>1, <2>2
<1> QED
  BY <1>1, <1>5, <1>8 DEF u

LEMMA NumsParts ==
    ASSUME NEW kinds, NEW M, NEW a \in Seq(M), NEW b \in Seq(M)
    PROVE  Nums(kinds, a \o b) = Nums(kinds, a) \cup Nums(kinds, b)
BY SteadyConcat

LEMMA SteadyParts ==
    ASSUME NEW kinds, NEW M, NEW s, NEW a \in Seq(M), NEW b \in Seq(M), s = a \o b, NEW S
    PROVE  Steady(kinds, s, S)
              <=> Steady(kinds, a, S) /\ Steady(kinds, b, S \cup Nums(kinds, a))
BY SteadyConcat, Zenon

LEMMA SteadyOne ==
    ASSUME NEW kinds, NEW m
    PROVE  /\ Nums(kinds, <<m>>) = IF m.kind \in kinds THEN {m.n} ELSE {}
           /\ \A S : Steady(kinds, <<m>>, S) <=> (m.kind \in kinds => m.n - 1 \in S)
<1>1. DOMAIN <<m>> = {1} /\ <<m>>[1] = m
  OBVIOUS
<1> DEFINE s == <<m>>
<1> HIDE DEF s
<1>2. DOMAIN s = {1} /\ s[1] = m
  BY <1>1 DEF s
<1>3. Nums(kinds, s) = IF m.kind \in kinds THEN {m.n} ELSE {}
  <2>1. \A x : x \in Nums(kinds, s) <=> m.kind \in kinds /\ m.n = x
    BY <1>2, NumsOf
  <2> QED
    BY <2>1
<1>4. ASSUME NEW S PROVE Steady(kinds, s, S) <=> (m.kind \in kinds => m.n - 1 \in S)
  <2>1. \A x : ~Before(kinds, s, 1, x)
    BY DEF Before
  <2> QED
    BY <1>2, <2>1 DEF Steady
<1> QED
  BY <1>3, <1>4 DEF s

LEMMA SteadyAppend ==
    ASSUME NEW kinds, NEW M, NEW s \in Seq(M), NEW m \in M
    PROVE  /\ Append(s, m) \in Seq(M)
           /\ Nums(kinds, Append(s, m)) =
                 Nums(kinds, s) \cup (IF m.kind \in kinds THEN {m.n} ELSE {})
           /\ \A S : Steady(kinds, Append(s, m), S) <=>
                 Steady(kinds, s, S) /\ (m.kind \in kinds => m.n - 1 \in S \cup Nums(kinds, s))
<1>1. Append(s, m) = s \o <<m>> /\ <<m>> \in Seq(M)
  BY AppendIsConcat
<1> DEFINE t == <<m>>
<1>2. Nums(kinds, t) = IF m.kind \in kinds THEN {m.n} ELSE {}
  BY SteadyOne
<1>3. ASSUME NEW S
      PROVE  Steady(kinds, t, S \cup Nums(kinds, s))
                <=> (m.kind \in kinds => m.n - 1 \in S \cup Nums(kinds, s))
  BY SteadyOne
<1>4. t \in Seq(M)
  BY <1>1
<1> HIDE DEF t
<1>5. Nums(kinds, s \o t) = Nums(kinds, s) \cup Nums(kinds, t)
  BY <1>4, NumsParts
<1>6. ASSUME NEW S
      PROVE  Steady(kinds, s \o t, S)
                <=> Steady(kinds, s, S) /\ Steady(kinds, t, S \cup Nums(kinds, s))
  BY <1>4, SteadyConcat
<1>7. Append(s, m) = s \o t /\ s \o t \in Seq(M)
  BY <1>1, <1>4 DEF t
<1>8. Nums(kinds, s \o t) = Nums(kinds, s) \cup (IF m.kind \in kinds THEN {m.n} ELSE {})
  BY <1>2, <1>5
<1>9. ASSUME NEW S
      PROVE  Steady(kinds, s \o t, S) <=>
                Steady(kinds, s, S) /\ (m.kind \in kinds => m.n - 1 \in S \cup Nums(kinds, s))
  <2>1. Steady(kinds, s \o t, S)
           <=> Steady(kinds, s, S) /\ Steady(kinds, t, S \cup Nums(kinds, s))
    BY <1>6
  <2>2. Steady(kinds, t, S \cup Nums(kinds, s))
           <=> (m.kind \in kinds => m.n - 1 \in S \cup Nums(kinds, s))
    BY <1>3
  <2> QED
    BY <2>1, <2>2
<1> HIDE DEF t
<1> QED
  BY <1>7, <1>8, <1>9

LEMMA SteadySplit ==
    ASSUME NEW kinds, NEW M, NEW s \in Seq(M), NEW k \in 0 .. Len(s)
    PROVE  /\ SubSeq(s, 1, k) \in Seq(M) /\ SubSeq(s, k + 1, Len(s)) \in Seq(M)
           /\ Nums(kinds, s) = Nums(kinds, SubSeq(s, 1, k))
                                  \cup Nums(kinds, SubSeq(s, k + 1, Len(s)))
           /\ \A S : Steady(kinds, s, S) <=>
                 /\ Steady(kinds, SubSeq(s, 1, k), S)
                 /\ Steady(kinds, SubSeq(s, k + 1, Len(s)), S \cup Nums(kinds, SubSeq(s, 1, k)))
<1>1. Len(s) \in Nat /\ 1 \in 1 .. Len(s) + 1 /\ k \in 1 - 1 .. Len(s) /\ Len(s) \in k .. Len(s)
  BY LenProperties
<1>2. SubSeq(s, 1, k) \o SubSeq(s, k + 1, Len(s)) = SubSeq(s, 1, Len(s))
  BY <1>1, ConcatAdjacentSubSeq
<1>3. SubSeq(s, 1, Len(s)) = s
  BY SubSeqFull
<1>4. SubSeq(s, 1, k) \in Seq(M) /\ SubSeq(s, k + 1, Len(s)) \in Seq(M)
  <2>1. k + 1 \in Nat \ {0} /\ Len(s) \in 0 .. Len(s) /\ 1 \in Nat \ {0}
    BY <1>1
  <2> QED
    BY <2>1, ElementsBetween
<1>5. ASSUME NEW a \in Seq(M), NEW b \in Seq(M), s = a \o b
      PROVE  Nums(kinds, s) = Nums(kinds, a) \cup Nums(kinds, b)
  <2>1. Nums(kinds, a \o b) = Nums(kinds, a) \cup Nums(kinds, b)
    BY NumsParts
  <2> QED
    BY <1>5, <2>1, Zenon
<1>6. ASSUME NEW a \in Seq(M), NEW b \in Seq(M), s = a \o b, NEW S
      PROVE  Steady(kinds, s, S)
                <=> Steady(kinds, a, S) /\ Steady(kinds, b, S \cup Nums(kinds, a))
  BY <1>6, SteadyParts, Zenon
<1>7. s = SubSeq(s, 1, k) \o SubSeq(s, k + 1, Len(s))
  BY <1>2, <1>3
<1>8. Nums(kinds, s) = Nums(kinds, SubSeq(s, 1, k)) \cup Nums(kinds, SubSeq(s, k + 1, Len(s)))
  BY <1>4, <1>5, <1>7
<1>9. ASSUME NEW S
      PROVE  Steady(kinds, s, S) <=>
                /\ Steady(kinds, SubSeq(s, 1, k), S)
                /\ Steady(kinds, SubSeq(s, k + 1, Len(s)), S \cup Nums(kinds, SubSeq(s, 1, k)))
  BY <1>4, <1>6, <1>7
<1> QED
  BY <1>4, <1>8, <1>9

LEMMA SteadyTail ==
    ASSUME NEW kinds, NEW M, NEW s \in Seq(M), s # <<>>
    PROVE  /\ Tail(s) \in Seq(M) /\ Head(s) \in M
           /\ Nums(kinds, s) = Nums(kinds, <<Head(s)>>) \cup Nums(kinds, Tail(s))
           /\ \A S : Steady(kinds, s, S) <=>
                       /\ Head(s).kind \in kinds => Head(s).n - 1 \in S
                       /\ Steady(kinds, Tail(s), S \cup Nums(kinds, <<Head(s)>>))
<1>1. /\ Head(s) \in M /\ Tail(s) \in Seq(M) /\ Head(s) = s[1]
      /\ Tail(s) = SubSeq(s, 2, Len(s))
  BY HeadTailProperties, TailIsSubSeq
<1>2. Len(s) \in Nat /\ Len(s) >= 1 /\ 1 \in 1 .. Len(s) /\ Len(s) \in 1 .. Len(s) /\ 1 + 1 = 2
  BY LenProperties, EmptySeq
<1>3. SubSeq(s, 1, Len(s)) = <<s[1]>> \o SubSeq(s, 1 + 1, Len(s))
  BY <1>2, SubSeqRecursiveFirst
<1>4. s = <<Head(s)>> \o Tail(s) /\ <<Head(s)>> \in Seq(M)
  BY <1>1, <1>2, <1>3, SubSeqFull
<1>5. ASSUME NEW f \in Seq(M), NEW t \in Seq(M), s = f \o t
      PROVE  Nums(kinds, s) = Nums(kinds, f) \cup Nums(kinds, t)
  <2>1. Nums(kinds, f \o t) = Nums(kinds, f) \cup Nums(kinds, t)
    BY NumsParts
  <2> QED
    BY <1>5, <2>1, Zenon
<1>6. ASSUME NEW f \in Seq(M), NEW t \in Seq(M), s = f \o t, NEW S
      PROVE  Steady(kinds, s, S)
                <=> Steady(kinds, f, S) /\ Steady(kinds, t, S \cup Nums(kinds, f))
  BY <1>6, SteadyParts, Zenon
<1>7. ASSUME NEW S
      PROVE  Steady(kinds, <<Head(s)>>, S) <=> (Head(s).kind \in kinds => Head(s).n - 1 \in S)
  BY SteadyOne
<1>8. Nums(kinds, s) = Nums(kinds, <<Head(s)>>) \cup Nums(kinds, Tail(s))
  BY <1>1, <1>4, <1>5
<1>9. ASSUME NEW S
      PROVE  Steady(kinds, s, S) <=>
                /\ Steady(kinds, <<Head(s)>>, S)
                /\ Steady(kinds, Tail(s), S \cup Nums(kinds, <<Head(s)>>))
  BY <1>1, <1>4, <1>6
<1> QED
  BY <1>1, <1>7, <1>8, <1>9

LEMMA SteadyPrefix ==
    ASSUME NEW kinds, NEW M, NEW s \in Seq(M), NEW t \in Prefixes(s)
    PROVE  /\ t \in Seq(M) /\ Nums(kinds, t) \subseteq Nums(kinds, s)
           /\ \A S : Steady(kinds, s, S) => Steady(kinds, t, S)
<1>1. PICK k \in 0 .. Len(s) : t = SubSeq(s, 1, k)
  BY DEF Prefixes
<1>2. SubSeq(s, 1, k) \in Seq(M)
  BY SteadySplit
<1>3. Nums(kinds, SubSeq(s, 1, k)) \subseteq Nums(kinds, s)
  BY SteadySplit
<1>4. \A S : Steady(kinds, s, S) => Steady(kinds, SubSeq(s, 1, k), S)
  BY SteadySplit
<1> QED
  BY <1>1, <1>2, <1>3, <1>4

-----------------------------------------------------------------------------
(* What is on its way along a line to a reader that has the numbers S: in  *)
(* the inbox, in the batch that is written, on the queue.                  *)
Along(kinds, box, batch, wait, S) ==
    /\ Steady(kinds, box, S)
    /\ Steady(kinds, batch, S \cup Nums(kinds, box))
    /\ Steady(kinds, wait, S \cup Nums(kinds, box) \cup Nums(kinds, batch))

Underway(kinds, box, batch, wait) ==
    Nums(kinds, box) \cup Nums(kinds, batch) \cup Nums(kinds, wait)

Free(kinds, s) == \A m \in Elements(s) : m.kind \notin kinds

LEMMA FreeOf ==
    ASSUME NEW kinds, NEW s, Free(kinds, s)
    PROVE  Nums(kinds, s) = {} /\ \A S : Steady(kinds, s, S)
BY SteadyNone DEF Free

LEMMA AlongMore ==
    ASSUME NEW kinds, NEW box, NEW batch, NEW wait, NEW S, NEW T, S \subseteq T,
           Along(kinds, box, batch, wait, S)
    PROVE  Along(kinds, box, batch, wait, T)
<1>1. Steady(kinds, box, T)
  BY SteadyMore DEF Along
<1>2. Steady(kinds, batch, T \cup Nums(kinds, box))
  <2>1. S \cup Nums(kinds, box) \subseteq T \cup Nums(kinds, box)
    OBVIOUS
  <2> QED
    BY <2>1, SteadyMore DEF Along
<1>3. Steady(kinds, wait, T \cup Nums(kinds, box) \cup Nums(kinds, batch))
  <2>1. S \cup Nums(kinds, box) \cup Nums(kinds, batch)
           \subseteq T \cup Nums(kinds, box) \cup Nums(kinds, batch)
    OBVIOUS
  <2> QED
    BY <2>1, SteadyMore DEF Along
<1> QED
  BY <1>1, <1>2, <1>3 DEF Along

(* A message posted behind the one before it. *)
LEMMA AlongPost ==
    ASSUME NEW kinds, NEW M, NEW box, NEW batch, NEW wait \in Seq(M), NEW m \in M, NEW S,
           Along(kinds, box, batch, wait, S),
           m.kind \in kinds => m.n - 1 \in S \cup Underway(kinds, box, batch, wait)
    PROVE  /\ Along(kinds, box, batch, Append(wait, m), S)
           /\ Underway(kinds, box, batch, wait)
                 \subseteq Underway(kinds, box, batch, Append(wait, m))
           /\ m.kind \in kinds => m.n \in Underway(kinds, box, batch, Append(wait, m))
<1> DEFINE T == S \cup Nums(kinds, box) \cup Nums(kinds, batch)
<1>1. Nums(kinds, Append(wait, m)) = Nums(kinds, wait) \cup (IF m.kind \in kinds THEN {m.n} ELSE {})
  BY SteadyAppend
<1>2. T \cup Nums(kinds, wait) = S \cup Underway(kinds, box, batch, wait)
  BY DEF Underway
<1>3. Steady(kinds, wait, T)
  BY DEF Along
<1> HIDE DEF T
<1>4. Steady(kinds, Append(wait, m), T)
  <2>1. m.kind \in kinds => m.n - 1 \in T \cup Nums(kinds, wait)
    BY <1>2
  <2>2. Steady(kinds, Append(wait, m), T) <=>
           Steady(kinds, wait, T) /\ (m.kind \in kinds => m.n - 1 \in T \cup Nums(kinds, wait))
    BY SteadyAppend
  <2> QED
    BY <1>3, <2>1, <2>2
<1>5. Along(kinds, box, batch, Append(wait, m), S)
  BY <1>4 DEF Along, T
<1> QED
  BY <1>1, <1>5 DEF Underway

(* A reader takes the first of its inbox. *)
LEMMA AlongRead ==
    ASSUME NEW kinds, NEW M, NEW box \in Seq(M), box # <<>>, NEW batch, NEW wait, NEW S,
           Along(kinds, box, batch, wait, S)
    PROVE  /\ Along(kinds, Tail(box), batch, wait, S \cup Nums(kinds, <<Head(box)>>))
           /\ S \cup Underway(kinds, box, batch, wait) =
                 S \cup Nums(kinds, <<Head(box)>>) \cup Underway(kinds, Tail(box), batch, wait)
           /\ Head(box).kind \in kinds => Head(box).n - 1 \in S
<1> DEFINE h == Head(box)  t == Tail(box)  T == S \cup Nums(kinds, <<h>>)
<1>1. Nums(kinds, box) = Nums(kinds, <<h>>) \cup Nums(kinds, t)
  BY SteadyTail
<1>2. \A X : Steady(kinds, box, X) <=>
                /\ h.kind \in kinds => h.n - 1 \in X
                /\ Steady(kinds, t, X \cup Nums(kinds, <<h>>))
  BY SteadyTail
<1>3. /\ Steady(kinds, box, S) /\ Steady(kinds, batch, S \cup Nums(kinds, box))
      /\ Steady(kinds, wait, S \cup Nums(kinds, box) \cup Nums(kinds, batch))
  BY DEF Along
<1> HIDE DEF h, t
<1>4. S \cup Nums(kinds, box) = T \cup Nums(kinds, t)
  BY <1>1
<1>5. Steady(kinds, t, T) /\ (h.kind \in kinds => h.n - 1 \in S)
  BY <1>2, <1>3
<1> HIDE DEF T
<1>6. Along(kinds, t, batch, wait, T)
  BY <1>3, <1>4, <1>5 DEF Along
<1>7. S \cup Underway(kinds, box, batch, wait) = T \cup Underway(kinds, t, batch, wait)
  BY <1>4 DEF Underway
<1> QED
  BY <1>5, <1>6, <1>7 DEF h, t, T

LEMMA AlongFree ==
    ASSUME NEW kinds, NEW box, NEW batch, NEW wait, NEW S,
           Free(kinds, box), Free(kinds, batch), Free(kinds, wait)
    PROVE  Along(kinds, box, batch, wait, S)
BY FreeOf DEF Along

(* What is under way keeps its order in a step, and its numbers. *)
Orders(kinds, box, batch, wait, box2, batch2, wait2) ==
    \A S : Along(kinds, box, batch, wait, S) => Along(kinds, box2, batch2, wait2, S)

Keeps(kinds, box, batch, wait, box2, batch2, wait2) ==
    /\ Orders(kinds, box, batch, wait, box2, batch2, wait2)
    /\ Underway(kinds, box, batch, wait) \subseteq Underway(kinds, box2, batch2, wait2)

(* Of a line nothing is lost but what has no number. *)
LEMMA KeepsFree ==
    ASSUME NEW kinds, NEW M, NEW box \in Seq(M), NEW more \in Seq(M), Free(kinds, more),
           NEW batch, NEW batch2, batch2 = batch \/ (batch2 = <<>> /\ Free(kinds, batch)),
           NEW wait, NEW wait2, wait2 = wait \/ (wait2 = <<>> /\ Free(kinds, wait))
    PROVE  Keeps(kinds, box, batch, wait, box \o more, batch2, wait2)
<1>1. Nums(kinds, <<>>) = {} /\ \A X : Steady(kinds, <<>>, X)
  BY EmptyElements, FreeOf DEF Free
<1>2. Nums(kinds, more) = {} /\ \A X : Steady(kinds, more, X)
  BY FreeOf
<1>3. Nums(kinds, batch2) = Nums(kinds, batch)
      /\ \A X : Steady(kinds, batch, X) => Steady(kinds, batch2, X)
  BY <1>1, FreeOf
<1>4. Nums(kinds, wait2) = Nums(kinds, wait)
      /\ \A X : Steady(kinds, wait, X) => Steady(kinds, wait2, X)
  BY <1>1, FreeOf
<1>5. Nums(kinds, box \o more) = Nums(kinds, box)
  <2>1. Nums(kinds, box \o more) = Nums(kinds, box) \cup Nums(kinds, more)
    BY NumsParts
  <2> QED
    BY <1>2, <2>1
<1>6. \A X : Steady(kinds, box, X) => Steady(kinds, box \o more, X)
  <2>1. \A X : Steady(kinds, box \o more, X)
                 <=> Steady(kinds, box, X) /\ Steady(kinds, more, X \cup Nums(kinds, box))
    BY SteadyConcat
  <2> QED
    BY <1>2, <2>1
<1> QED
  BY <1>3, <1>4, <1>5, <1>6 DEF Keeps, Orders, Along, Underway

(* A batch taken: what is written again, then what waited. *)
LEMMA KeepsTake ==
    ASSUME NEW kinds, NEW M, NEW box, NEW wait \in Seq(M), NEW ag \in Seq(M), Free(kinds, ag),
           NEW k \in 0 .. Len(wait)
    PROVE  Keeps(kinds, box, <<>>, wait,
                 box, ag \o SubSeq(wait, 1, k), SubSeq(wait, k + 1, Len(wait)))
<1> DEFINE a == SubSeq(wait, 1, k)  b == SubSeq(wait, k + 1, Len(wait))
<1>1. Nums(kinds, <<>>) = {} /\ Nums(kinds, ag) = {} /\ \A X : Steady(kinds, ag, X)
  <2>1. Free(kinds, <<>>)
    BY EmptyElements DEF Free
  <2>2. Nums(kinds, <<>>) = {}
    BY <2>1, FreeOf
  <2> QED
    BY <2>2, FreeOf
<1>2. a \in Seq(M) /\ b \in Seq(M)
  BY SteadySplit
<1>3. Nums(kinds, wait) = Nums(kinds, a) \cup Nums(kinds, b)
  BY SteadySplit
<1>4. \A X : Steady(kinds, wait, X) =>
                Steady(kinds, a, X) /\ Steady(kinds, b, X \cup Nums(kinds, a))
  BY SteadySplit
<1> HIDE DEF a, b
<1>5. Nums(kinds, ag \o a) = Nums(kinds, a)
  <2>1. Nums(kinds, ag \o a) = Nums(kinds, ag) \cup Nums(kinds, a)
    BY <1>2, NumsParts
  <2> QED
    BY <1>1, <2>1
<1>6. ASSUME NEW X, Steady(kinds, a, X) PROVE Steady(kinds, ag \o a, X)
  <2>1. Steady(kinds, ag \o a, X)
           <=> Steady(kinds, ag, X) /\ Steady(kinds, a, X \cup Nums(kinds, ag))
    BY <1>2, SteadyConcat
  <2>2. X \cup Nums(kinds, ag) = X
    BY <1>1
  <2> QED
    BY <1>1, <1>6, <2>1, <2>2
<1> DEFINE f == ag \o a
<1> HIDE DEF f
<1>7. ASSUME NEW S, Along(kinds, box, <<>>, wait, S) PROVE Along(kinds, box, f, b, S)
  <2> DEFINE T == S \cup Nums(kinds, box)
  <2>1. T \cup Nums(kinds, <<>>) = T
    BY <1>1
  <2>2. Steady(kinds, box, S) /\ Steady(kinds, wait, T)
    BY <1>7, <2>1 DEF Along
  <2> HIDE DEF T
  <2>3. Steady(kinds, f, T) /\ Steady(kinds, b, T \cup Nums(kinds, f))
    BY <1>4, <1>5, <1>6, <2>2 DEF f
  <2> QED
    BY <2>2, <2>3 DEF Along, T
<1>8. Underway(kinds, box, f, b) = Underway(kinds, box, <<>>, wait)
  BY <1>1, <1>3, <1>5 DEF Underway, f
<1>9. Keeps(kinds, box, <<>>, wait, box, f, b)
  BY <1>7, <1>8 DEF Keeps, Orders
<1> QED
  BY <1>9 DEF f, a, b

(* A batch written, behind what an earlier run of its pipeline wrote. *)
LEMMA KeepsWrite ==
    ASSUME NEW kinds, NEW M, NEW box \in Seq(M), NEW batch \in Seq(M), NEW wait,
           NEW twice \in Prefixes(batch)
    PROVE  Keeps(kinds, box, batch, wait, box \o (twice \o batch), <<>>, wait)
<1>1. /\ twice \in Seq(M) /\ Nums(kinds, twice) \subseteq Nums(kinds, batch)
      /\ \A X : Steady(kinds, batch, X) => Steady(kinds, twice, X)
  BY SteadyPrefix
<1>2. Nums(kinds, <<>>) = {} /\ \A X : Steady(kinds, <<>>, X)
  BY EmptyElements, FreeOf DEF Free
<1> DEFINE w == twice \o batch
<1>3. ASSUME NEW a \in Seq(M)
      PROVE  /\ a \o batch \in Seq(M)
             /\ Nums(kinds, a \o batch) = Nums(kinds, a) \cup Nums(kinds, batch)
             /\ \A X : Steady(kinds, a \o batch, X)
                          <=> Steady(kinds, a, X) /\ Steady(kinds, batch, X \cup Nums(kinds, a))
  BY SteadyConcat
<1>4. w \in Seq(M) /\ Nums(kinds, w) = Nums(kinds, twice) \cup Nums(kinds, batch)
      /\ \A X : Steady(kinds, w, X)
                   <=> Steady(kinds, twice, X) /\ Steady(kinds, batch, X \cup Nums(kinds, twice))
  BY <1>1, <1>3
<1> HIDE DEF w
<1>5. Nums(kinds, w) = Nums(kinds, batch)
  BY <1>1, <1>4
<1>6. ASSUME NEW X, Steady(kinds, batch, X) PROVE Steady(kinds, w, X)
  <2>1. X \subseteq X \cup Nums(kinds, twice)
    OBVIOUS
  <2>2. Steady(kinds, batch, X \cup Nums(kinds, twice))
    BY <1>6, <2>1, SteadyMore
  <2> QED
    BY <1>1, <1>4, <1>6, <2>2
<1>7. /\ Nums(kinds, box \o w) = Nums(kinds, box) \cup Nums(kinds, batch)
  <2>1. Nums(kinds, box \o w) = Nums(kinds, box) \cup Nums(kinds, w)
    BY <1>4, NumsParts
  <2> QED
    BY <1>5, <2>1
<1>8. \A X : Steady(kinds, box \o w, X)
                <=> Steady(kinds, box, X) /\ Steady(kinds, w, X \cup Nums(kinds, box))
  BY <1>4, SteadyConcat
<1> DEFINE b == box \o w
<1> HIDE DEF b
<1>9. ASSUME NEW S, Along(kinds, box, batch, wait, S) PROVE Along(kinds, b, <<>>, wait, S)
  <2>1. Steady(kinds, b, S)
    BY <1>6, <1>8, <1>9 DEF Along, b
  <2>2. S \cup Nums(kinds, b) \cup Nums(kinds, <<>>)
           = S \cup Nums(kinds, box) \cup Nums(kinds, batch)
    BY <1>2, <1>7 DEF b
  <2>3. Steady(kinds, wait, S \cup Nums(kinds, b) \cup Nums(kinds, <<>>))
    BY <1>9, <2>2 DEF Along
  <2> QED
    BY <1>2, <2>1, <2>3 DEF Along
<1>10. Underway(kinds, b, <<>>, wait) = Underway(kinds, box, batch, wait)
  BY <1>2, <1>7 DEF Underway, b
<1>11. Keeps(kinds, box, batch, wait, b, <<>>, wait)
  BY <1>9, <1>10 DEF Keeps, Orders
<1> QED
  BY <1>11 DEF b, w

LEMMA KeepsRead ==
    ASSUME NEW kinds, NEW M, NEW box \in Seq(M), box # <<>>, Head(box).kind \notin kinds,
           NEW batch, NEW wait
    PROVE  Keeps(kinds, box, batch, wait, Tail(box), batch, wait)
<1> DEFINE h == Head(box)  t == Tail(box)
<1>1. Nums(kinds, <<h>>) = {}
  <2>1. Nums(kinds, <<h>>) = IF h.kind \in kinds THEN {h.n} ELSE {}
    BY SteadyOne
  <2> QED
    BY <2>1
<1>2. Nums(kinds, box) = Nums(kinds, <<h>>) \cup Nums(kinds, t)
  BY SteadyTail
<1>3. \A X : Steady(kinds, box, X) => Steady(kinds, t, X \cup Nums(kinds, <<h>>))
  BY SteadyTail
<1> HIDE DEF h, t
<1>4. Nums(kinds, box) = Nums(kinds, t)
  BY <1>1, <1>2
<1>5. ASSUME NEW X, Steady(kinds, box, X) PROVE Steady(kinds, t, X)
  <2>1. X \cup Nums(kinds, <<h>>) = X
    BY <1>1
  <2> QED
    BY <1>3, <1>5, <2>1
<1>6. Keeps(kinds, box, batch, wait, t, batch, wait)
  BY <1>4, <1>5 DEF Keeps, Orders, Along, Underway
<1> QED
  BY <1>6 DEF t

LEMMA KeepsAll ==
    ASSUME NEW kinds, NEW box, NEW batch, NEW wait
    PROVE  Keeps(kinds, box, batch, wait, box, batch, wait)
BY DEF Keeps, Orders

-----------------------------------------------------------------------------
(* An inbox when entries enter it or another. *)
LEMMA EntersOther ==
    ASSUME OutboxTypeOK, NEW l \in Lines, NEW p \in Nodes, p \notin shut,
           NEW s, Enters(l[2], s)
    PROVE  inbox'[p] = IF l[2] = p THEN inbox[p] \o s ELSE inbox[p]
BY LineEnds DEF OutboxTypeOK, Enters

(* A line watched by its reader, when a writer takes a step on it or on    *)
(* another, that has nothing of what is watched.                           *)
LEMMA LineMoves ==
    ASSUME OutboxInv, NEW kinds, NEW w \in Lines, NEW l \in Lines, NEW s,
           w[2] \notin shut, Free(kinds, again[l]),
           l # w /\ l[2] = w[2] => \A m \in OnLine(l) : m.kind \notin kinds,
           \/ TakeBatch(l) \/ RetireWriter(l) \/ StopWriter(l) \/ WriteBatch(l, s)
           \/ RefuseBatch(l, s) /\ (l = w => Free(kinds, flight[l]))
           \/ CutWriter(l, s) /\ (l = w => Free(kinds, flight[l]) /\ Free(kinds, queue[l]))
    PROVE  Keeps(kinds, inbox[w[2]], flight[w], queue[w],
                 inbox'[w[2]], flight'[w], queue'[w])
<1> DEFINE p == w[2]
<1>1. /\ queue \in [Lines -> Seq(Messages)] /\ flight \in [Lines -> Seq(Messages)]
      /\ again \in [Lines -> Seq(Messages)] /\ inbox \in [Nodes -> Seq(Messages)]
      /\ p \in Nodes /\ OutboxTypeOK
  BY LineEnds DEF OutboxInv, OutboxTypeOK
<1>2. /\ inbox[p] \in Seq(Messages) /\ flight[w] \in Seq(Messages) /\ queue[w] \in Seq(Messages)
      /\ again[w] \in Seq(Messages) /\ flight[l] \in Seq(Messages)
  BY <1>1
<1> HIDE DEF p
<1>3. Free(kinds, <<>>) /\ <<>> \in Seq(Messages)
  BY EmptyElements DEF Free
<1>4. l # w /\ l[2] = p => Free(kinds, flight[l])
  BY DEF Free, OnLine, p
<1>5. ASSUME NEW part \in Parts(flight[l]), Free(kinds, flight[l])
      PROVE  part \in Seq(Messages) /\ Free(kinds, part)
  BY <1>2, <1>5, ElementsOfPart DEF Free
<1>11. ASSUME NEW more \in Seq(Messages), Free(kinds, more),
              inbox'[p] = inbox[p] \/ inbox'[p] = inbox[p] \o more,
              flight'[w] = flight[w] \/ (flight'[w] = <<>> /\ Free(kinds, flight[w])),
              queue'[w] = queue[w] \/ (queue'[w] = <<>> /\ Free(kinds, queue[w]))
       PROVE  Keeps(kinds, inbox[p], flight[w], queue[w], inbox'[p], flight'[w], queue'[w])
  <2>1. inbox[p] \o <<>> = inbox[p]
    BY <1>2, ConcatEmptySeq
  <2>2. Keeps(kinds, inbox[p], flight[w], queue[w], inbox[p] \o more, flight'[w], queue'[w])
    BY <1>2, <1>11, KeepsFree
  <2>3. Keeps(kinds, inbox[p], flight[w], queue[w], inbox[p] \o <<>>, flight'[w], queue'[w])
    BY <1>2, <1>3, <1>11, KeepsFree
  <2> QED
    BY <1>11, <2>1, <2>2, <2>3
<1>6. CASE RetireWriter(l) \/ StopWriter(l)
  BY <1>6, KeepsAll DEF RetireWriter, StopWriter, p
<1>7. CASE TakeBatch(l)
  <2> DEFINE k == IF Len(queue[l]) < Room(l) THEN Len(queue[l]) ELSE Room(l)
  <2>1. /\ flight' = [flight EXCEPT ![l] = again[l] \o SubSeq(queue[l], 1, k)]
        /\ queue' = [queue EXCEPT ![l] = SubSeq(@, k + 1, Len(@))]
        /\ inbox' = inbox
    BY <1>7 DEF TakeBatch
  <2>2. k \in 0 .. Len(queue[l])
    <3>1. Len(queue[l]) \in Nat /\ Room(l) \in Nat
      BY <1>1, OutboxAssumption DEF Room
    <3> QED
      BY <3>1
  <2> HIDE DEF k
  <2>3. CASE l = w
    <3>1. /\ flight'[w] = again[w] \o SubSeq(queue[w], 1, k)
          /\ queue'[w] = SubSeq(queue[w], k + 1, Len(queue[w]))
      BY <1>1, <2>1, <2>3
    <3>2. flight[w] = <<>>
      BY <1>7, <2>3 DEF TakeBatch, OutboxInv, WritersKept
    <3>3. ASSUME NEW ag \in Seq(Messages), Free(kinds, ag), NEW j \in 0 .. Len(queue[w])
          PROVE  Keeps(kinds, inbox[p], <<>>, queue[w], inbox[p],
                       ag \o SubSeq(queue[w], 1, j), SubSeq(queue[w], j + 1, Len(queue[w])))
      BY <1>2, <3>3, KeepsTake
    <3>4. Free(kinds, again[w]) /\ k \in 0 .. Len(queue[w])
      BY <2>2, <2>3
    <3>5. Keeps(kinds, inbox[p], <<>>, queue[w], inbox[p],
                again[w] \o SubSeq(queue[w], 1, k), SubSeq(queue[w], k + 1, Len(queue[w])))
      BY <1>2, <3>3, <3>4
    <3> QED
      BY <2>1, <3>1, <3>2, <3>5 DEF p
  <2>4. CASE l # w
    BY <1>1, <2>1, <2>4, KeepsAll DEF p
  <2> QED
    BY <2>3, <2>4
<1>8. CASE WriteBatch(l, s)
  <2>1. /\ s \in Prefixes(flight[l]) /\ Enters(l[2], s \o flight[l])
        /\ flight' = [flight EXCEPT ![l] = <<>>] /\ queue' = queue
    BY <1>8 DEF WriteBatch
  <2>2. inbox'[p] = IF l[2] = p THEN inbox[p] \o (s \o flight[l]) ELSE inbox[p]
    BY <1>1, <2>1, EntersOther DEF p
  <2>3. CASE l = w
    <3>1. inbox'[p] = inbox[p] \o (s \o flight[w]) /\ flight'[w] = <<>> /\ queue'[w] = queue[w]
      BY <1>1, <2>1, <2>2, <2>3 DEF p
    <3>2. ASSUME NEW t \in Prefixes(flight[w])
          PROVE  Keeps(kinds, inbox[p], flight[w], queue[w],
                       inbox[p] \o (t \o flight[w]), <<>>, queue[w])
      BY <1>2, KeepsWrite
    <3>3. s \in Prefixes(flight[w])
      BY <2>1, <2>3
    <3> QED
      BY <3>1, <3>2, <3>3 DEF p
  <2>4. CASE l # w
    <3>1. flight'[w] = flight[w] /\ queue'[w] = queue[w]
      BY <1>1, <2>1, <2>4
    <3>2. CASE l[2] = p
      <4>1. Free(kinds, flight[l]) /\ s \in Seq(Messages) /\ Elements(s) \subseteq Elements(flight[l])
        BY <1>2, <1>4, <2>1, <2>4, <3>2, ElementsOfPrefix
      <4>2. s \o flight[l] \in Seq(Messages)
            /\ Elements(s \o flight[l]) \subseteq Elements(s) \cup Elements(flight[l])
        BY <1>2, <4>1, ElementsConcatenated
      <4>3. Free(kinds, s \o flight[l])
        BY <4>1, <4>2 DEF Free
      <4> QED
        BY <1>11, <2>2, <3>1, <3>2, <4>2, <4>3 DEF p
    <3>3. CASE l[2] # p
      BY <1>3, <1>11, <2>2, <3>1, <3>3 DEF p
    <3> QED
      BY <3>2, <3>3
  <2> QED
    BY <2>3, <2>4
<1>9. CASE \/ RefuseBatch(l, s) /\ (l = w => Free(kinds, flight[l]))
           \/ CutWriter(l, s) /\ (l = w => Free(kinds, flight[l]) /\ Free(kinds, queue[l]))
  <2>1. /\ s \in Parts(flight[l]) /\ Enters(l[2], s)
        /\ flight' = [flight EXCEPT ![l] = <<>>]
        /\ queue' = queue \/ (queue' = [queue EXCEPT ![l] = <<>>] /\ (l = w => Free(kinds, queue[l])))
        /\ l = w => Free(kinds, flight[l])
    BY <1>9 DEF RefuseBatch, CutWriter
  <2>2. inbox'[p] = IF l[2] = p THEN inbox[p] \o s ELSE inbox[p]
    BY <1>1, <2>1, EntersOther DEF p
  <2>3. /\ flight'[w] = flight[w] \/ (flight'[w] = <<>> /\ Free(kinds, flight[w]))
        /\ queue'[w] = queue[w] \/ (queue'[w] = <<>> /\ Free(kinds, queue[w]))
    BY <1>1, <2>1
  <2>4. CASE l[2] = p
    <3>1. Free(kinds, flight[l])
      BY <1>4, <2>1, <2>4
    <3>2. s \in Seq(Messages) /\ Free(kinds, s)
      BY <1>5, <2>1, <3>1
    <3> QED
      BY <1>11, <2>2, <2>3, <2>4, <3>2 DEF p
  <2>5. CASE l[2] # p
    BY <1>3, <1>11, <2>2, <2>3, <2>5 DEF p
  <2> QED
    BY <2>4, <2>5
<1> QED
  BY <1>6, <1>7, <1>8, <1>9

-----------------------------------------------------------------------------
(* The ends of the link. *)

(* TypeOK but for the outbox. *)
EndsTypeOK ==
    /\ up \in [Nodes -> {"up", "closing", "closed", "crashed"}]
    /\ phase \in {"placing", "asking", "reading", "over"}
    /\ target \in Executors \cup {NoExecutor}
    /\ linked \in BOOLEAN /\ cOpen \in BOOLEAN
    /\ excluded \in SUBSET Executors
    /\ answer \in {"none", "taken", "refused", "failed"}
    /\ cSent \in 0 .. MaxControls
    /\ delivered \in Seq(Messages \cup {Gone})
    /\ fSeen \in 0 .. MaxFrames + 1
    /\ why \in {"none", "done", "silence", "broken", "gap", "unanswered", "unplaced", "left"}
    /\ handled \in [Executors -> {"none", "taken", "refused"}]
    /\ run \in [Executors -> {"none", "running", "ending", "gone"}]
    /\ fOpen \in [Executors -> BOOLEAN]
    /\ fSent \in [Executors -> 0 .. MaxFrames + 1]
    /\ cSeen \in [Executors -> 0 .. MaxControls]
    /\ cut \in [Executors -> {"none", "closing", "frame_lost", "owner_lost"}]
    /\ takes \in Nat
    /\ ended \in SUBSET Executors
    /\ gaps \in SUBSET Nodes
    /\ refusals \in SUBSET Lines
    /\ late \in SUBSET Executors
    /\ faults \in 0 .. MaxFaults /\ downs \in 0 .. MaxDowns

(* A turn that runs was taken; its end is the last thing sent of it; only  *)
(* one that runs, or ran, is cut.                                          *)
EndIsLast ==
    \A e \in Executors :
        /\ fOpen[e] => fSent[e] <= MaxFrames
        /\ handled[e] = "none" => run[e] = "none" /\ fSent[e] = 0
        /\ run[e] = "none" => cut[e] = "none"

(* An executor that is asked, or was, refused the turn or is the target; a *)
(* refusal, wherever it is, was made.  Nobody is released of a turn before *)
(* it is over.                                                             *)
AskedInTurn ==
    /\ phase \in {"asking", "reading"} => target \in Executors
    /\ phase = "placing" => target \in excluded \cup {NoExecutor} /\ answer = "none"
    /\ answer = "refused" => target \in Executors /\ handled[target] = "refused"
    /\ \A e \in Executors :
          /\ e \in excluded => handled[e] = "refused"
          /\ handled[e] # "none" => e \in excluded \cup {target}
          /\ \A m \in Carried(e) : m.kind = "request" => e \in excluded \cup {target}
          /\ \A m \in Carried(e) : m.kind = "released" => phase = "over"
    /\ \A m \in Carried(Owner) : m.kind = "refused" => handled[m.n] = "refused"

TakesCounted ==
    /\ takes = 0 \/ (takes = 1 /\ \E e \in Executors : handled[e] = "taken")
    /\ \A e \in Executors : handled[e] = "taken" => takes = 1

LinkInv == OutboxInv /\ EndsTypeOK /\ EndIsLast /\ AskedInTurn /\ TakesCounted

-----------------------------------------------------------------------------
LEMMA TypeParts == TypeOK <=> OutboxTypeOK /\ EndsTypeOK
BY DEF TypeOK, EndsTypeOK

LEMMA MessageKinds ==
    ASSUME NEW m \in Messages
    PROVE  /\ m.kind \in FrameKinds => m.n \in 1 .. MaxFrames + 1
           /\ m.kind = "control" => m.n \in 1 .. MaxControls
           /\ m.kind \in {"taken", "refused"} => m.n \in Executors
           /\ m.kind \in {"request", "released", "taken", "refused", "control"} \cup FrameKinds
BY DEF Messages, FrameKinds

LEMMA LinesOf ==
    ASSUME NEW e \in Executors
    PROVE  /\ ToOwner(e) \in Lines /\ ToExecutor(e) \in Lines
           /\ ToOwner(e)[2] = Owner /\ ToExecutor(e)[2] = e
           /\ Owner \in Nodes /\ e \in Nodes /\ e # Owner
BY OutboxAssumption DEF ToOwner, ToExecutor, Lines, Nodes

(* A step that asks nothing, answers nothing and takes nothing keeps who   *)
(* may be asked.                                                           *)
LEMMA AskedInTurnKept ==
    ASSUME AskedInTurn, TakesCounted, UNCHANGED <<target, excluded, handled, takes>>,
           phase' # phase => phase' \in {"reading", "over"},
           phase' = "reading" => phase \in {"asking", "reading"},
           answer' \in {answer, "none", "failed", "taken"},
           phase' = "placing" => answer' = answer,
           \A p \in Nodes : \A m \in Carried(p)' :
               \/ m \in Carried(p)
               \/ /\ m.kind \notin {"request", "refused"}
                  /\ m.kind = "released" => phase' = "over"
    PROVE  AskedInTurn' /\ TakesCounted'
<1>1. TakesCounted'
  BY DEF TakesCounted
<1>2. ASSUME NEW e \in Executors PROVE
        /\ e \in excluded' => handled'[e] = "refused"
        /\ handled'[e] # "none" => e \in excluded' \cup {target'}
        /\ \A m \in Carried(e)' : m.kind = "request" => e \in excluded' \cup {target'}
        /\ \A m \in Carried(e)' : m.kind = "released" => phase' = "over"
  BY DEF AskedInTurn, Nodes
<1>3. \A m \in Carried(Owner)' : m.kind = "refused" => handled'[m.n] = "refused"
  BY DEF AskedInTurn, Nodes
<1>4. /\ phase' \in {"asking", "reading"} => target' \in Executors
      /\ phase' = "placing" => target' \in excluded' \cup {NoExecutor} /\ answer' = "none"
      /\ answer' = "refused" => target' \in Executors /\ handled'[target'] = "refused"
  BY DEF AskedInTurn
<1> QED
  BY <1>1, <1>2, <1>3, <1>4 DEF AskedInTurn

(* A message posted to the other end, with nothing else of the outbox. *)
LEMMA PostedQuietly ==
    ASSUME OutboxInv, NEW l \in Lines, NEW m \in Messages,
           Post(l, m), UNCHANGED <<again, flight, shut, inbox>>
    PROVE  /\ OutboxInv'
           /\ \A p \in Nodes : \A x \in Carried(p)' : x \in Carried(p) \/ x = m
BY PostOnly, LineEnds

LEMMA QuietOutbox ==
    ASSUME OutboxInv, UNCHANGED outbox
    PROVE  OutboxInv' /\ NothingAdded
<1> USE DEF outbox
<1>1. OutboxInv'
  BY DEF OutboxInv, OutboxTypeOK, WritersKept
<1>2. \A p \in Nodes : Carried(p)' = Carried(p)
  BY DEF Carried, OnLine, Elements
<1>3. \A l \in Lines : OnLine(l)' = OnLine(l)
  BY DEF OnLine, Elements
<1> QED
  BY <1>1, <1>2, <1>3 DEF NothingAdded

LEMMA LinkStarts == Init => LinkInv
<1> SUFFICES ASSUME Init PROVE LinkInv
  OBVIOUS
<1>1. OutboxInv /\ \A p \in Nodes : Carried(p) = {}
  BY OutboxStarts DEF Init
<1>2. EndsTypeOK /\ EndIsLast
  <2>1. <<>> \in Seq(Messages \cup {Gone})
    OBVIOUS
  <2>2. EndsTypeOK
    <3>1. /\ 0 \in 0 .. MaxControls /\ 0 \in 0 .. MaxFrames + 1 /\ 0 \in Nat
          /\ 0 \in 0 .. MaxFaults /\ 0 \in 0 .. MaxDowns
      BY OutboxAssumption, LinkAssumption
    <3> QED
      BY <2>1, <3>1, Zenon DEF Init, EndsTypeOK
  <2>3. EndIsLast
    BY OutboxAssumption DEF Init, EndIsLast
  <2> QED
    BY <2>2, <2>3
<1>3. AskedInTurn /\ TakesCounted
  BY <1>1 DEF Init, AskedInTurn, TakesCounted, Nodes
<1> QED
  BY <1>1, <1>2, <1>3 DEF LinkInv

-----------------------------------------------------------------------------
(* The owner's steps. *)

Reasons == {"done", "silence", "broken", "gap", "unanswered", "left"}

LEMMA LetGoKeeps ==
    ASSUME LinkInv, phase \in {"asking", "reading"},
           NEW reason \in Reasons, NEW endRead \in BOOLEAN, LetGo(reason, endRead),
           UNCHANGED <<OutboxButPost, target, excluded, handled, takes>>
    PROVE  /\ OutboxInv' /\ AskedInTurn' /\ TakesCounted'
           /\ phase' = "over" /\ linked' = FALSE /\ cOpen' = FALSE /\ cSent' = 0
           /\ answer' = "none" /\ delivered' = <<>> /\ why' = reason
<1> USE DEF OutboxButPost
<1>1. /\ phase' = "over" /\ linked' = FALSE /\ cOpen' = FALSE /\ cSent' = 0
      /\ answer' = "none" /\ delivered' = <<>> /\ why' = reason
  BY DEF LetGo, Forget
<1>2. target \in Executors /\ OutboxInv /\ AskedInTurn /\ TakesCounted
  BY DEF LinkInv, AskedInTurn
<1>3. OutboxInv' /\ \A p \in Nodes : \A x \in Carried(p)' :
                       x \in Carried(p) \/ x.kind \notin {"request", "refused"}
  <2>1. CASE endRead
    <3>1. UNCHANGED outbox
      BY <2>1 DEF LetGo, outbox
    <3> QED
      BY <1>2, <3>1, QuietOutbox DEF NothingAdded
  <2>2. CASE ~endRead
    <3>1. Post(ToExecutor(target), Msg("released", 0))
      BY <2>2 DEF LetGo
    <3>2. Msg("released", 0) \in Messages /\ Msg("released", 0).kind = "released"
      BY DEF Msg, Messages
    <3> QED
      BY <1>2, <3>1, <3>2, LinesOf, PostedQuietly
  <2> QED
    BY <2>1, <2>2
<1>4. AskedInTurn' /\ TakesCounted'
  BY <1>1, <1>2, <1>3, AskedInTurnKept
<1> QED
  BY <1>1, <1>3, <1>4

LEMMA AskKeeps ==
    ASSUME LinkInv, NEW e \in Executors, Ask(e)
    PROVE  LinkInv'
<1> USE DEF OutboxButPost
<1>1. OutboxInv /\ EndsTypeOK /\ EndIsLast /\ AskedInTurn /\ TakesCounted
  BY DEF LinkInv
<1>2. /\ phase = "placing" /\ phase' = "asking" /\ e \notin excluded /\ target' = e
      /\ Post(ToExecutor(e), Msg("request", 0))
      /\ UNCHANGED <<again, flight, shut, inbox, excluded, answer, handled, takes>>
  BY DEF Ask, executorEnd, history
<1>3. Msg("request", 0) \in Messages
  BY DEF Msg, Messages
<1>4. /\ OutboxInv'
      /\ \A p \in Nodes : p # e => Carried(p)' \subseteq Carried(p)
      /\ Carried(e)' \subseteq Carried(e) \cup {Msg("request", 0)}
  BY <1>1, <1>2, <1>3, PostOnly, LinesOf
<1>5. EndsTypeOK' /\ EndIsLast'
  BY <1>1 DEF Ask, EndsTypeOK, EndIsLast, executorEnd, history
<1>6. excluded \cup {target} \subseteq excluded \cup {NoExecutor}
  BY <1>1, <1>2 DEF AskedInTurn
<1>7. ASSUME NEW x \in Executors PROVE
        /\ x \in excluded' => handled'[x] = "refused"
        /\ handled'[x] # "none" => x \in excluded' \cup {target'}
        /\ \A m \in Carried(x)' : m.kind = "request" => x \in excluded' \cup {target'}
        /\ \A m \in Carried(x)' : m.kind # "released"
  <2>1. x \in excluded \cup {target} => x \in excluded
    BY <1>6, LinkAssumption
  <2> QED
    BY <1>1, <1>2, <1>4, <2>1, LinesOf DEF AskedInTurn, Msg
<1>8. \A m \in Carried(Owner)' : m.kind = "refused" => handled'[m.n] = "refused"
  BY <1>1, <1>2, <1>4, LinesOf DEF AskedInTurn
<1>9. answer' = "none"
  BY <1>1, <1>2 DEF AskedInTurn
<1> QED
  BY <1>1, <1>2, <1>4, <1>5, <1>7, <1>8, <1>9 DEF LinkInv, AskedInTurn, TakesCounted

LEMMA NonePlacedKeeps == ASSUME LinkInv, NonePlaced PROVE LinkInv'
<1>1. OutboxInv /\ EndsTypeOK /\ EndIsLast /\ AskedInTurn /\ TakesCounted
  BY DEF LinkInv
<1>2. <<>> \in Seq(Messages \cup {Gone}) /\ 0 \in 0 .. MaxControls
  BY OutboxAssumption
<1>3. EndsTypeOK' /\ EndIsLast'
  BY <1>1, <1>2 DEF NonePlaced, Forget, EndsTypeOK, EndIsLast, executorEnd, history
<1>4. OutboxInv' /\ NothingAdded
  BY <1>1, QuietOutbox DEF NonePlaced
<1>5. AskedInTurn' /\ TakesCounted'
  BY <1>1, <1>4, AskedInTurnKept
     DEF NonePlaced, Forget, executorEnd, history, NothingAdded
<1> QED
  BY <1>3, <1>4, <1>5 DEF LinkInv

LEMMA TakenKeeps == ASSUME LinkInv, Taken PROVE LinkInv'
<1>1. OutboxInv /\ EndsTypeOK /\ EndIsLast /\ AskedInTurn /\ TakesCounted
  BY DEF LinkInv
<1>2. EndsTypeOK' /\ EndIsLast'
  BY <1>1 DEF Taken, EndsTypeOK, EndIsLast, executorEnd, history
<1>3. OutboxInv' /\ NothingAdded
  BY <1>1, QuietOutbox DEF Taken
<1>4. AskedInTurn' /\ TakesCounted'
  BY <1>1, <1>3, AskedInTurnKept DEF Taken, executorEnd, history, NothingAdded
<1> QED
  BY <1>2, <1>3, <1>4 DEF LinkInv

LEMMA RefusedKeeps == ASSUME LinkInv, Refused PROVE LinkInv'
<1>1. OutboxInv /\ EndsTypeOK /\ EndIsLast /\ AskedInTurn /\ TakesCounted
  BY DEF LinkInv
<1>2. /\ target \in Executors /\ handled[target] = "refused"
      /\ excluded' = excluded \cup {target} /\ phase' = "placing" /\ answer' = "none"
      /\ UNCHANGED <<target, handled, takes>>
  BY <1>1 DEF Refused, AskedInTurn, executorEnd, history
<1>3. EndsTypeOK' /\ EndIsLast'
  <2>1. <<>> \in Seq(Messages \cup {Gone})
    OBVIOUS
  <2> QED
    BY <1>1, <1>2, <2>1 DEF Refused, EndsTypeOK, EndIsLast, executorEnd, history
<1>4. OutboxInv' /\ NothingAdded
  BY <1>1, QuietOutbox DEF Refused
<1>5. AskedInTurn' /\ TakesCounted'
  <2>1. \A p \in Nodes : \A m \in Carried(p)' : m \in Carried(p)
    BY <1>4 DEF NothingAdded
  <2>2. phase # "over"
    BY DEF Refused
  <2> QED
    BY <1>1, <1>2, <2>1, <2>2 DEF AskedInTurn, TakesCounted, Nodes
<1> QED
  BY <1>3, <1>4, <1>5 DEF LinkInv

LEMMA SendControlKeeps == ASSUME LinkInv, SendControl PROVE LinkInv'
<1> USE DEF OutboxButPost
<1> DEFINE m == Msg("control", cSent + 1)
<1>1. OutboxInv /\ EndsTypeOK /\ EndIsLast /\ AskedInTurn /\ TakesCounted
  BY DEF LinkInv
<1>2. target \in Executors /\ cSent + 1 \in 1 .. MaxControls
  BY <1>1, OutboxAssumption DEF SendControl, AskedInTurn, EndsTypeOK
<1>3. m \in Messages /\ m.kind = "control"
  BY <1>2 DEF Msg, Messages
<1>4. EndsTypeOK' /\ EndIsLast'
  BY <1>1, <1>2 DEF SendControl, EndsTypeOK, EndIsLast, executorEnd, history
<1>5. OutboxInv' /\ \A p \in Nodes : \A x \in Carried(p)' :
                       x \in Carried(p) \/ x.kind \notin {"request", "refused", "released"}
  BY <1>1, <1>2, <1>3, LinesOf, PostedQuietly DEF SendControl
<1>6. AskedInTurn' /\ TakesCounted'
  BY <1>1, <1>5, AskedInTurnKept DEF SendControl, executorEnd, history
<1> QED
  BY <1>4, <1>5, <1>6 DEF LinkInv

(* The steps by which the owner lets a turn go. *)
LEMMA GivenUpKeeps ==
    ASSUME LinkInv, Unanswered \/ GiveUp \/ Silence PROVE LinkInv'
<1>1. OutboxInv /\ EndsTypeOK /\ EndIsLast /\ AskedInTurn /\ TakesCounted
  BY DEF LinkInv
<1>2. PICK reason \in Reasons :
        /\ phase \in {"asking", "reading"} /\ LetGo(reason, FALSE)
        /\ UNCHANGED <<OutboxButPost, up, target, excluded, fSeen, executorEnd, history,
                       faults, downs>>
  BY DEF Unanswered, GiveUp, Silence, Reasons
<1>3. /\ OutboxInv' /\ AskedInTurn' /\ TakesCounted'
      /\ phase' = "over" /\ linked' = FALSE /\ cOpen' = FALSE /\ cSent' = 0
      /\ answer' = "none" /\ delivered' = <<>> /\ why' = reason
  BY <1>2, LetGoKeeps DEF executorEnd, history
<1>4. <<>> \in Seq(Messages \cup {Gone}) /\ 0 \in 0 .. MaxControls
  BY OutboxAssumption
<1>5. EndsTypeOK' /\ EndIsLast'
  BY <1>1, <1>2, <1>3, <1>4 DEF EndsTypeOK, EndIsLast, executorEnd, history, Reasons
<1> QED
  BY <1>3, <1>5 DEF LinkInv

LEMMA ReadKeeps == ASSUME LinkInv, Read PROVE LinkInv'
<1> DEFINE m == Head(delivered)
<1>1. OutboxInv /\ EndsTypeOK /\ EndIsLast /\ AskedInTurn /\ TakesCounted
  BY DEF LinkInv
<1>2. /\ phase = "reading"
      /\ UNCHANGED <<again, flight, shut, inbox, up, target, excluded, handled, run, fOpen,
                     fSent, cSeen, cut, takes, ended, refusals, late, faults, downs>>
  BY DEF Read, OutboxButPost, executorEnd
<1>3. /\ Tail(delivered) \in Seq(Messages \cup {Gone}) /\ m \in Messages \cup {Gone}
      /\ m.kind \in FrameKinds => m.n \in 0 .. MaxFrames + 1
  <2>1. /\ Tail(delivered) \in Seq(Messages \cup {Gone}) /\ m \in Messages \cup {Gone}
    BY <1>1 DEF Read, EndsTypeOK
  <2>2. Gone.kind = "gone" /\ "gone" \notin FrameKinds
    BY DEF Gone, Msg, FrameKinds
  <2>3. 1 .. MaxFrames + 1 \subseteq 0 .. MaxFrames + 1
    OBVIOUS
  <2> QED
    BY <2>1, <2>2, <2>3, MessageKinds
<1>4. CASE /\ ReadsOn(m)
           /\ fSeen' = IF Skipped(m) THEN fSeen ELSE m.n
           /\ delivered' = Tail(delivered)
           /\ UNCHANGED <<phase, why, linked, answer, cOpen, cSent, queue, writer, gaps>>
  <2>1. EndsTypeOK' /\ EndIsLast'
    BY <1>1, <1>2, <1>3, <1>4 DEF EndsTypeOK, EndIsLast, ReadsOn
  <2>2. OutboxInv' /\ NothingAdded
    BY <1>1, <1>2, <1>4, QuietOutbox DEF outbox
  <2>3. AskedInTurn' /\ TakesCounted'
    BY <1>1, <1>2, <1>4, <2>2, AskedInTurnKept DEF NothingAdded
  <2> QED
    BY <2>1, <2>2, <2>3 DEF LinkInv
<1>5. ASSUME NEW reason \in Reasons, NEW endRead \in BOOLEAN, LetGo(reason, endRead),
             fSeen' \in 0 .. MaxFrames + 1, gaps' \in SUBSET Nodes
      PROVE  LinkInv'
  <2>1. /\ OutboxInv' /\ AskedInTurn' /\ TakesCounted'
        /\ phase' = "over" /\ linked' = FALSE /\ cOpen' = FALSE /\ cSent' = 0
        /\ answer' = "none" /\ delivered' = <<>> /\ why' = reason
    BY <1>2, <1>5, LetGoKeeps DEF OutboxButPost
  <2>2. <<>> \in Seq(Messages \cup {Gone}) /\ 0 \in 0 .. MaxControls
    BY OutboxAssumption
  <2>3. EndsTypeOK' /\ EndIsLast'
    BY <1>1, <1>2, <1>5, <2>1, <2>2 DEF EndsTypeOK, EndIsLast, Reasons
  <2> QED
    BY <2>1, <2>3 DEF LinkInv
<1>6. CASE m.kind = "end" /\ m.n = fSeen + 1 /\ fSeen' = m.n /\ LetGo("done", TRUE)
           /\ UNCHANGED gaps
  BY <1>1, <1>3, <1>5, <1>6 DEF FrameKinds, Reasons, EndsTypeOK
<1>7. CASE /\ m.kind \in FrameKinds /\ m.n > fSeen + 1
           /\ gaps' = gaps \cup {Owner} /\ LetGo("gap", FALSE) /\ UNCHANGED fSeen
  BY <1>1, <1>5, <1>7 DEF Reasons, EndsTypeOK, Nodes
<1>8. CASE m = Gone /\ LetGo("broken", FALSE) /\ UNCHANGED <<fSeen, gaps>>
  BY <1>1, <1>5, <1>8 DEF Reasons, EndsTypeOK
<1> QED
  BY <1>4, <1>6, <1>7, <1>8 DEF Read

-----------------------------------------------------------------------------
(* The executors' steps. *)

LEMMA CutTyped ==
    ASSUME EndsTypeOK, NEW e \in Executors,
           NEW reason \in {"closing", "frame_lost", "owner_lost"}, CutTurn(e, reason)
    PROVE  /\ cut' \in [Executors -> {"none", "closing", "frame_lost", "owner_lost"}]
           /\ \A x \in Executors : run[x] = "none" => cut'[x] = cut[x]
BY DEF EndsTypeOK, CutTurn, Reads

LEMMA SendFrameKeeps ==
    ASSUME LinkInv, NEW e \in Executors, SendFrame(e) PROVE LinkInv'
<1> USE DEF OutboxButPost
<1> DEFINE m == Msg("frame", fSent[e] + 1)
<1>1. OutboxInv /\ EndsTypeOK /\ EndIsLast /\ AskedInTurn /\ TakesCounted
  BY DEF LinkInv
<1>2. /\ fSent[e] + 1 \in 1 .. MaxFrames + 1 /\ fSent[e] + 1 \in 0 .. MaxFrames + 1
      /\ fSent[e] + 1 <= MaxFrames /\ handled[e] # "none"
  BY <1>1, OutboxAssumption DEF SendFrame, EndsTypeOK, EndIsLast
<1>3. m \in Messages /\ m.kind = "frame"
  BY <1>2 DEF Msg, Messages
<1>4. fSent' = [fSent EXCEPT ![e] = fSent[e] + 1]
  BY DEF SendFrame
<1>5. EndsTypeOK'
  BY <1>1, <1>2, <1>4 DEF SendFrame, EndsTypeOK, ownerEnd, history
<1>6. EndIsLast'
  BY <1>1, <1>2, <1>4 DEF SendFrame, EndIsLast, EndsTypeOK
<1>7. OutboxInv' /\ \A p \in Nodes : \A x \in Carried(p)' :
                       x \in Carried(p) \/ x.kind \notin {"request", "refused", "released"}
  BY <1>1, <1>3, LinesOf, PostedQuietly DEF SendFrame
<1>8. AskedInTurn' /\ TakesCounted'
  BY <1>1, <1>7, AskedInTurnKept DEF SendFrame, ownerEnd, history
<1> QED
  BY <1>5, <1>6, <1>7, <1>8 DEF LinkInv

LEMMA FinishTurnKeeps ==
    ASSUME LinkInv, NEW e \in Executors, FinishTurn(e) PROVE LinkInv'
<1> USE DEF OutboxButPost
<1> DEFINE m == Msg("end", fSent[e] + 1)
<1>1. OutboxInv /\ EndsTypeOK /\ EndIsLast /\ AskedInTurn /\ TakesCounted
  BY DEF LinkInv
<1>2. /\ run[e] = "running" /\ handled[e] # "none"
      /\ fOpen' = [fOpen EXCEPT ![e] = FALSE]
      /\ cSeen' = [cSeen EXCEPT ![e] = 0] /\ cut' = [cut EXCEPT ![e] = "none"]
      /\ UNCHANGED <<again, flight, shut, inbox, up, ownerEnd, handled, takes, gaps,
                     refusals, late, faults, downs>>
  BY <1>1 DEF FinishTurn, EndIsLast
<1>3. CASE EndGoesOut(e)
  <2>1. fSent[e] + 1 \in 1 .. MaxFrames + 1
    BY <1>1, <1>3, OutboxAssumption DEF EndGoesOut, EndIsLast, EndsTypeOK
  <2>2. m \in Messages /\ m.kind = "end"
    BY <2>1 DEF Msg, Messages
  <2>3. /\ fSent' = [fSent EXCEPT ![e] = fSent[e] + 1] /\ Post(ToOwner(e), m)
        /\ ended' = ended \cup {e} /\ run' = [run EXCEPT ![e] = "ending"]
    BY <1>3 DEF FinishTurn
  <2>4. EndsTypeOK'
    BY <1>1, <1>2, <2>1, <2>3, OutboxAssumption DEF EndsTypeOK, ownerEnd
  <2>5. EndIsLast'
    BY <1>1, <1>2, <2>3 DEF EndIsLast, EndsTypeOK
  <2>6. OutboxInv' /\ \A p \in Nodes : \A x \in Carried(p)' :
                         x \in Carried(p) \/ x.kind \notin {"request", "refused", "released"}
    BY <1>1, <1>2, <2>2, <2>3, LinesOf, PostedQuietly
  <2>7. AskedInTurn' /\ TakesCounted'
    BY <1>1, <1>2, <2>6, AskedInTurnKept DEF ownerEnd
  <2> QED
    BY <2>4, <2>5, <2>6, <2>7 DEF LinkInv
<1>4. CASE ~EndGoesOut(e)
  <2>1. run' = [run EXCEPT ![e] = "gone"] /\ UNCHANGED <<queue, writer, fSent, ended>>
    BY <1>4 DEF FinishTurn
  <2>2. EndsTypeOK'
    BY <1>1, <1>2, <2>1, OutboxAssumption DEF EndsTypeOK, ownerEnd
  <2>3. EndIsLast'
    BY <1>1, <1>2, <2>1 DEF EndIsLast, EndsTypeOK
  <2>4. OutboxInv' /\ NothingAdded
    BY <1>1, <1>2, <2>1, QuietOutbox DEF outbox
  <2>5. AskedInTurn' /\ TakesCounted'
    BY <1>1, <1>2, <2>4, AskedInTurnKept DEF ownerEnd, NothingAdded
  <2> QED
    BY <2>2, <2>3, <2>4, <2>5 DEF LinkInv
<1> QED
  BY <1>3, <1>4

LEMMA EndUnwrittenKeeps ==
    ASSUME LinkInv, NEW e \in Executors, EndUnwritten(e) PROVE LinkInv'
<1>1. OutboxInv /\ EndsTypeOK /\ EndIsLast /\ AskedInTurn /\ TakesCounted
  BY DEF LinkInv
<1>2. EndsTypeOK' /\ EndIsLast'
  BY <1>1, LinkAssumption DEF EndUnwritten, EndsTypeOK, EndIsLast, ownerEnd
<1>3. OutboxInv' /\ NothingAdded
  BY <1>1, QuietOutbox DEF EndUnwritten
<1>4. AskedInTurn' /\ TakesCounted'
  BY <1>1, <1>3, AskedInTurnKept DEF EndUnwritten, ownerEnd, NothingAdded
<1> QED
  BY <1>2, <1>3, <1>4 DEF LinkInv

LEMMA OwnerSilentKeeps ==
    ASSUME LinkInv, NEW e \in Executors, OwnerSilent(e) PROVE LinkInv'
<1>1. OutboxInv /\ EndsTypeOK /\ EndIsLast /\ AskedInTurn /\ TakesCounted
  BY DEF LinkInv
<1>2. /\ cut' \in [Executors -> {"none", "closing", "frame_lost", "owner_lost"}]
      /\ \A x \in Executors : run[x] = "none" => cut'[x] = cut[x]
  BY <1>1, CutTyped DEF OwnerSilent
<1>3. EndsTypeOK' /\ EndIsLast'
  BY <1>1, <1>2 DEF OwnerSilent, EndsTypeOK, EndIsLast, ownerEnd, history
<1>4. OutboxInv' /\ NothingAdded
  BY <1>1, QuietOutbox DEF OwnerSilent
<1>5. AskedInTurn' /\ TakesCounted'
  BY <1>1, <1>4, AskedInTurnKept DEF OwnerSilent, ownerEnd, history, NothingAdded
<1> QED
  BY <1>3, <1>4, <1>5 DEF LinkInv

-----------------------------------------------------------------------------
(* What an inbox hands on. *)

LEMMA HandToOwnerKeeps ==
    ASSUME LinkInv, HandOn(Owner) PROVE LinkInv'
<1> DEFINE m == Head(inbox[Owner])
<1>1. OutboxInv /\ EndsTypeOK /\ EndIsLast /\ AskedInTurn /\ TakesCounted
  BY DEF LinkInv
<1>2. /\ inbox[Owner] # <<>> /\ inbox' = [inbox EXCEPT ![Owner] = Tail(@)]
      /\ OwnerHandles(m)
      /\ UNCHANGED <<again, flight, shut, queue, writer, up, phase, target, linked, excluded,
                     cOpen, cSent, fSeen, why, executorEnd, history, faults, downs>>
  BY DEF HandOn, HandToOwner
<1>3. m \in Messages /\ m \in Carried(Owner) /\ OutboxInv' /\ NothingAdded
  BY <1>1, <1>2, HandedOn DEF Nodes
<1>4. CASE /\ m.kind \in FrameKinds
           /\ delivered' = (IF linked THEN Append(delivered, m) ELSE delivered)
           /\ UNCHANGED answer
  <2>1. delivered' \in Seq(Messages \cup {Gone})
    BY <1>1, <1>3, <1>4 DEF EndsTypeOK
  <2>2. EndsTypeOK' /\ EndIsLast'
    BY <1>1, <1>2, <1>4, <2>1 DEF EndsTypeOK, EndIsLast, executorEnd, history
  <2>3. AskedInTurn' /\ TakesCounted'
    BY <1>1, <1>2, <1>3, <1>4, AskedInTurnKept DEF executorEnd, history, NothingAdded
  <2> QED
    BY <1>3, <2>2, <2>3 DEF LinkInv
<1>5. CASE /\ m.kind \in {"taken", "refused"}
           /\ answer' = (IF phase = "asking" /\ answer = "none" /\ m.n = target
                         THEN m.kind ELSE answer)
           /\ UNCHANGED delivered
  <2>1. EndsTypeOK' /\ EndIsLast'
    BY <1>1, <1>2, <1>5 DEF EndsTypeOK, EndIsLast, executorEnd, history
  <2>2. m.kind = "refused" => handled[m.n] = "refused"
    BY <1>1, <1>3 DEF AskedInTurn
  <2>3. /\ answer' = "refused" => target \in Executors /\ handled[target] = "refused"
        /\ phase = "placing" => answer' = answer
    BY <1>1, <1>5, <2>2 DEF AskedInTurn
  <2>4. \A p \in Nodes : \A x \in Carried(p)' : x \in Carried(p)
    BY <1>3 DEF NothingAdded
  <2>5. AskedInTurn'
    BY <1>1, <1>2, <2>3, <2>4 DEF AskedInTurn, executorEnd, Nodes
  <2>6. TakesCounted'
    BY <1>1, <1>2 DEF TakesCounted, executorEnd, history
  <2> QED
    BY <1>3, <2>1, <2>5, <2>6 DEF LinkInv
<1> QED
  BY <1>2, <1>4, <1>5 DEF OwnerHandles

(* A request that is answered: the first time taken or refused, then as it *)
(* was.                                                                    *)
LEMMA RequestKeeps ==
    ASSUME LinkInv, NEW e \in Executors, HandOn(e),
           Head(inbox[e]).kind = "request", Request(e), UNCHANGED <<fSent, cSeen, cut, gaps>>
    PROVE  LinkInv'
<1> DEFINE m == Head(inbox[e])
<1>1. OutboxInv /\ EndsTypeOK /\ EndIsLast /\ AskedInTurn /\ TakesCounted
  BY DEF LinkInv
<1>2. /\ inbox[e] # <<>> /\ inbox' = [inbox EXCEPT ![e] = Tail(@)]
      /\ UNCHANGED <<again, flight, shut, up, ownerEnd, ended, refusals, late, faults, downs>>
  BY LinesOf DEF HandOn, HandToExecutor
<1>3. m \in Messages /\ m \in Carried(e)
  BY <1>1, <1>2, LinesOf, HandedOn
<1>4. e \in excluded \cup {target}
  BY <1>1, <1>3 DEF AskedInTurn
<1>5. PICK given \in {"taken", "refused"} :
        /\ Post(ToOwner(e), Msg(given, e))
        /\ handled' = [handled EXCEPT ![e] = given]
        /\ handled[e] \in {"none", given}
        /\ IF handled[e] = "none" /\ given = "taken"
           THEN /\ run' = [run EXCEPT ![e] = "running"]
                /\ fOpen' = [fOpen EXCEPT ![e] = TRUE]
                /\ takes' = takes + 1
           ELSE UNCHANGED <<run, fOpen, takes>>
  <2>1. CASE ~FirstTime(e) /\ Post(ToOwner(e), Msg(handled[e], e))
             /\ UNCHANGED <<handled, run, fOpen, takes>>
    BY <1>1, <2>1 DEF FirstTime, EndsTypeOK
  <2>2. CASE FirstTime(e) /\ up[e] = "closing" /\ handled' = [handled EXCEPT ![e] = "refused"]
             /\ Post(ToOwner(e), Msg("refused", e)) /\ UNCHANGED <<run, fOpen, takes>>
    BY <2>2 DEF FirstTime
  <2>3. CASE FirstTime(e) /\ up[e] = "up" /\ handled' = [handled EXCEPT ![e] = "taken"]
             /\ run' = [run EXCEPT ![e] = "running"] /\ fOpen' = [fOpen EXCEPT ![e] = TRUE]
             /\ takes' = takes + 1 /\ Post(ToOwner(e), Msg("taken", e))
    BY <2>3 DEF FirstTime
  <2> QED
    BY <2>1, <2>2, <2>3 DEF Request
<1>6. Msg(given, e) \in Messages /\ Msg(given, e).kind = given /\ Msg(given, e).n = e
  BY DEF Msg, Messages
<1>7. /\ OutboxInv'
      /\ \A p \in Nodes : p # Owner => Carried(p)' \subseteq Carried(p)
      /\ Carried(Owner)' \subseteq Carried(Owner) \cup {Msg(given, e)}
  BY <1>1, <1>2, <1>5, <1>6, LinesOf, HandedOn
<1>8. EndsTypeOK'
  <2>1. /\ handled' \in [Executors -> {"none", "taken", "refused"}]
        /\ run' \in [Executors -> {"none", "running", "ending", "gone"}]
        /\ fOpen' \in [Executors -> BOOLEAN] /\ takes' \in Nat
    <3>1. handled' \in [Executors -> {"none", "taken", "refused"}]
      <4>1. handled \in [Executors -> {"none", "taken", "refused"}]
        BY <1>1 DEF EndsTypeOK
      <4>2. handled' = [handled EXCEPT ![e] = given]
        BY <1>5
      <4> QED
        BY <4>1, <4>2
    <3>2. CASE handled[e] = "none" /\ given = "taken"
      <4>1. /\ run' = [run EXCEPT ![e] = "running"] /\ fOpen' = [fOpen EXCEPT ![e] = TRUE]
            /\ takes' = takes + 1
        BY <1>5, <3>2
      <4> QED
        BY <1>1, <3>1, <4>1 DEF EndsTypeOK
    <3>3. CASE ~(handled[e] = "none" /\ given = "taken")
      BY <1>1, <1>5, <3>1, <3>3 DEF EndsTypeOK
    <3> QED
      BY <3>2, <3>3
  <2> QED
    BY <1>1, <1>2, <2>1 DEF EndsTypeOK, ownerEnd
<1>9. EndIsLast'
  BY <1>1, <1>2, <1>5, OutboxAssumption DEF EndIsLast, EndsTypeOK
<1>10. /\ handled'[e] = given
       /\ \A x \in Executors : x # e => handled'[x] = handled[x]
       /\ handled[e] = "refused" => given = "refused"
  BY <1>1, <1>5 DEF EndsTypeOK
<1>11. AskedInTurn'
  <2>1. ASSUME NEW x \in Executors PROVE
          /\ x \in excluded' => handled'[x] = "refused"
          /\ handled'[x] # "none" => x \in excluded' \cup {target'}
          /\ \A k \in Carried(x)' : k.kind = "request" => x \in excluded' \cup {target'}
          /\ \A k \in Carried(x)' : k.kind = "released" => phase' = "over"
    BY <1>1, <1>2, <1>4, <1>7, <1>10, LinesOf DEF AskedInTurn, ownerEnd
  <2>2. ASSUME NEW k \in Carried(Owner)', k.kind = "refused"
        PROVE  handled'[k.n] = "refused"
    <3>1. CASE k = Msg(given, e)
      BY <1>6, <1>10, <2>2, <3>1
    <3>2. CASE k \in Carried(Owner)
      <4>1. handled[k.n] = "refused" /\ (k.n \in Executors \/ k.n \notin Executors)
        BY <1>1, <2>2, <3>2 DEF AskedInTurn
      <4>2. k.n # e => handled'[k.n] = handled[k.n]
        BY <1>1, <1>5 DEF EndsTypeOK
      <4> QED
        BY <1>10, <4>1, <4>2
    <3> QED
      BY <1>7, <2>2, <3>1, <3>2
  <2>3. answer' = "refused" => target' \in Executors /\ handled'[target'] = "refused"
    BY <1>1, <1>2, <1>10 DEF AskedInTurn, ownerEnd
  <2> QED
    BY <1>1, <1>2, <2>1, <2>2, <2>3 DEF AskedInTurn, ownerEnd
<1>12. TakesCounted'
  <2>1. CASE handled[e] = "none" /\ given = "taken"
    <3>1. e = target /\ e \notin excluded
      BY <1>1, <1>4, <2>1 DEF AskedInTurn
    <3>2. \A x \in Executors : handled[x] # "taken"
      BY <1>1, <2>1, <3>1 DEF AskedInTurn
    <3>3. takes = 0 /\ takes' = 1
      BY <1>1, <1>5, <2>1, <3>2 DEF TakesCounted
    <3> QED
      BY <1>10, <2>1, <3>3 DEF TakesCounted
  <2>2. CASE ~(handled[e] = "none" /\ given = "taken")
    <3>1. takes' = takes /\ \A x \in Executors : handled'[x] = "taken" <=> handled[x] = "taken"
      BY <1>5, <1>10, <2>2
    <3> QED
      BY <1>1, <3>1 DEF TakesCounted
  <2> QED
    BY <2>1, <2>2
<1> QED
  BY <1>7, <1>8, <1>9, <1>11, <1>12 DEF LinkInv

LEMMA HandToExecutorKeeps ==
    ASSUME LinkInv, NEW e \in Executors, HandOn(e) PROVE LinkInv'
<1> DEFINE m == Head(inbox[e])
<1>1. OutboxInv /\ EndsTypeOK /\ EndIsLast /\ AskedInTurn /\ TakesCounted
  BY DEF LinkInv
<1>2. /\ inbox[e] # <<>> /\ inbox' = [inbox EXCEPT ![e] = Tail(@)]
      /\ HandToExecutor(e, m)
      /\ UNCHANGED <<again, flight, shut, up, ownerEnd, ended, refusals, late, faults, downs>>
  BY LinesOf DEF HandOn, HandToExecutor
<1>3. m \in Messages
  BY <1>1, <1>2, LinesOf, HandedOn
<1>4. CASE m.kind = "request" /\ Request(e) /\ UNCHANGED <<fSent, cSeen, cut, gaps>>
  BY <1>4, RequestKeeps
<1>5. ASSUME UNCHANGED <<queue, writer, handled, run, fSent, takes>>,
             fOpen' \in {fOpen, [fOpen EXCEPT ![e] = FALSE]}, EndsTypeOK',
             \A x \in Executors : run[x] = "none" => cut'[x] = cut[x]
      PROVE  LinkInv'
  <2>1. OutboxInv' /\ NothingAdded
    BY <1>1, <1>2, <1>5, LinesOf, HandedOn
  <2>2. EndIsLast'
    <3>1. \A x \in Executors : fOpen'[x] => fOpen[x]
      <4>1. fOpen' = fOpen \/ fOpen' = [fOpen EXCEPT ![e] = FALSE]
        BY <1>5
      <4> QED
        BY <1>1, <4>1, Zenon DEF EndsTypeOK
    <3>2. handled' = handled /\ run' = run /\ fSent' = fSent
      BY <1>5
    <3> QED
      BY <1>1, <1>5, <3>1, <3>2, Zenon DEF EndIsLast
  <2>3. AskedInTurn' /\ TakesCounted'
    BY <1>1, <1>2, <1>5, <2>1, AskedInTurnKept DEF ownerEnd, NothingAdded
  <2> QED
    BY <1>5, <2>1, <2>2, <2>3 DEF LinkInv
<1>6. CASE m.kind = "control" /\ Control(e, m)
           /\ UNCHANGED <<queue, writer, handled, run, fOpen, fSent, takes>>
  <2>1. m.n \in 1 .. MaxControls
    BY <1>3, <1>6, MessageKinds
  <2>2. /\ cSeen' \in [Executors -> 0 .. MaxControls]
        /\ gaps' \in SUBSET Nodes
        /\ cut' \in [Executors -> {"none", "closing", "frame_lost", "owner_lost"}]
        /\ \A x \in Executors : run[x] = "none" => cut'[x] = cut[x]
    <3>1. CASE ~Reads(e)
      BY <1>1, <1>6, <3>1 DEF Control, EndsTypeOK
    <3>2. CASE Reads(e)
      <4>1. cSeen' \in [Executors -> 0 .. MaxControls]
        <5>1. m.n \in 0 .. MaxControls
          BY <2>1
        <5> QED
          BY <1>1, <1>6, <3>2, <5>1 DEF Control, EndsTypeOK
      <4>2. \/ gaps' = gaps \cup {e} /\ CutTurn(e, "frame_lost")
            \/ UNCHANGED <<gaps, cut>>
        BY <1>6, <3>2 DEF Control
      <4> QED
        BY <1>1, <4>1, <4>2, CutTyped, LinesOf DEF EndsTypeOK
    <3> QED
      BY <3>1, <3>2
  <2>3. EndsTypeOK'
    BY <1>1, <1>2, <1>6, <2>2 DEF EndsTypeOK, ownerEnd
  <2> QED
    BY <1>5, <1>6, <2>2, <2>3
<1>7. CASE m.kind = "released" /\ StopLink(e)
           /\ UNCHANGED <<queue, writer, handled, run, fSent, cSeen, takes, gaps>>
  <2>1. /\ fOpen' = [fOpen EXCEPT ![e] = FALSE]
        /\ cut' \in [Executors -> {"none", "closing", "frame_lost", "owner_lost"}]
        /\ \A x \in Executors : run[x] = "none" => cut'[x] = cut[x]
    BY <1>1, <1>7, CutTyped DEF StopLink
  <2>2. EndsTypeOK'
    BY <1>1, <1>2, <1>7, <2>1 DEF EndsTypeOK, ownerEnd
  <2> QED
    BY <1>5, <1>7, <2>1, <2>2
<1> QED
  BY <1>2, <1>4, <1>6, <1>7 DEF HandToExecutor

-----------------------------------------------------------------------------
(* The writers, and what their senders are told. *)

LEMMA TakeBatchLink ==
    ASSUME LinkInv, NEW l \in Lines, TakeBatch(l),
           UNCHANGED <<up, ownerEnd, executorEnd, history, faults, downs>>
    PROVE  LinkInv'
<1>1. OutboxInv /\ EndsTypeOK /\ EndIsLast /\ AskedInTurn /\ TakesCounted
  BY DEF LinkInv
<1>2. OutboxInv' /\ NothingAdded
  BY <1>1, TakeBatchKeeps
<1>3. EndsTypeOK' /\ EndIsLast'
  BY <1>1 DEF EndsTypeOK, EndIsLast, ownerEnd, executorEnd, history
<1>4. AskedInTurn' /\ TakesCounted'
  BY <1>1, <1>2, AskedInTurnKept DEF ownerEnd, executorEnd, history, NothingAdded
<1> QED
  BY <1>2, <1>3, <1>4 DEF LinkInv

LEMMA RetireKeeps ==
    ASSUME LinkInv, NEW l \in Lines, Retire(l) PROVE LinkInv'
<1>1. OutboxInv /\ EndsTypeOK /\ EndIsLast /\ AskedInTurn /\ TakesCounted
  BY DEF LinkInv
<1>2. OutboxInv' /\ NothingAdded
  BY <1>1, WriterKeeps DEF Retire
<1>3. faults' \in 0 .. MaxFaults
  BY <1>1, LinkAssumption DEF Retire, EndsTypeOK
<1>4. EndsTypeOK' /\ EndIsLast'
  BY <1>1, <1>3 DEF Retire, EndsTypeOK, EndIsLast, ownerEnd, executorEnd, history
<1>5. AskedInTurn' /\ TakesCounted'
  BY <1>1, <1>2, AskedInTurnKept DEF Retire, ownerEnd, executorEnd, history, NothingAdded
<1> QED
  BY <1>2, <1>4, <1>5 DEF LinkInv

LEMMA WriteKeeps ==
    ASSUME LinkInv, NEW l \in Lines, NEW twice, Write(l, twice) PROVE LinkInv'
<1>1. OutboxInv /\ EndsTypeOK /\ EndIsLast /\ AskedInTurn /\ TakesCounted
  BY DEF LinkInv
<1>2. OutboxInv' /\ NothingAdded
  BY <1>1, WriteBatchKeeps DEF Write
<1>3. UNCHANGED <<Silently, answer, cOpen, delivered, fOpen, cut, refusals>>
  BY DEF Write
<1>4. faults' \in 0 .. MaxFaults
  BY <1>1, LinkAssumption DEF Write, EndsTypeOK
<1>5. ASSUME NEW e \in Executors
      PROVE  run'[e] \in {"gone", run[e]} /\ (run[e] = "none" => run'[e] = "none")
  BY DEF Write, TellWritten
<1>6. run' \in [Executors -> {"none", "running", "ending", "gone"}]
  <2>1. run' = [e \in Executors |-> run'[e]]
    BY DEF Write, TellWritten
  <2> QED
    BY <1>1, <1>5, <2>1 DEF EndsTypeOK
<1>7. EndsTypeOK' /\ EndIsLast'
  BY <1>1, <1>3, <1>4, <1>5, <1>6 DEF Silently, EndsTypeOK, EndIsLast
<1>8. AskedInTurn' /\ TakesCounted'
  BY <1>1, <1>2, <1>3, AskedInTurnKept DEF Silently, NothingAdded
<1> QED
  BY <1>2, <1>7, <1>8 DEF LinkInv

(* What the senders on a line are told of its refused messages. *)
LEMMA TellKeeps ==
    ASSUME EndsTypeOK, EndIsLast, NEW l \in Lines, NEW ms, Tell(l, ms), UNCHANGED Silently,
           faults' \in 0 .. MaxFaults
    PROVE  /\ EndsTypeOK' /\ EndIsLast'
           /\ answer' \in {answer, "failed"}
           /\ phase = "placing" => answer' = answer
<1>1. refusals' \in SUBSET Lines
  BY DEF Tell, EndsTypeOK
<1>2. CASE l[1] = Owner
  <2>1. TellOwner(l[2], ms)
    BY <1>2 DEF Tell
  <2>2. /\ answer' \in {answer, "failed"} /\ (phase = "placing" => answer' = answer)
        /\ UNCHANGED <<run, fOpen, cut>>
    BY <2>1 DEF TellOwner
  <2>3. cOpen' \in BOOLEAN /\ delivered' \in Seq(Messages \cup {Gone})
    <3>1. /\ cOpen \in BOOLEAN /\ delivered \in Seq(Messages \cup {Gone})
          /\ Append(delivered, Gone) \in Seq(Messages \cup {Gone})
      BY DEF EndsTypeOK
    <3>2. /\ cOpen' \in {cOpen, FALSE}
          /\ delivered' \in {delivered, Append(delivered, Gone)}
      BY <2>1 DEF TellOwner
    <3> QED
      BY <3>1, <3>2
  <2>4. EndsTypeOK' /\ EndIsLast'
    BY <1>1, <2>2, <2>3 DEF Silently, EndsTypeOK, EndIsLast
  <2> QED
    BY <2>2, <2>4
<1>3. CASE l[1] # Owner
  <2> DEFINE e == l[1]
  <2>1. e \in Executors /\ TellExecutor(e, ms)
    BY <1>3 DEF Tell, Lines
  <2> HIDE DEF e
  <2>2. UNCHANGED <<answer, cOpen, delivered>>
    BY <2>1 DEF TellExecutor
  <2>3. /\ fOpen' \in {fOpen, [fOpen EXCEPT ![e] = FALSE]}
        /\ run' \in {run, [run EXCEPT ![e] = IF @ = "ending" THEN "gone" ELSE @]}
        /\ CutTurn(e, "frame_lost") \/ cut' = cut
    BY <2>1 DEF TellExecutor
  <2>4. /\ fOpen' \in [Executors -> BOOLEAN]
        /\ run' \in [Executors -> {"none", "running", "ending", "gone"}]
        /\ cut' \in [Executors -> {"none", "closing", "frame_lost", "owner_lost"}]
        /\ \A x \in Executors : run[x] = "none" => cut'[x] = cut[x]
    BY <2>1, <2>3, CutTyped DEF EndsTypeOK
  <2>5. EndsTypeOK'
    BY <1>1, <2>2, <2>4 DEF Silently, EndsTypeOK
  <2>6. EndIsLast'
    <3>1. \A x \in Executors : fOpen'[x] => fOpen[x]
      BY <2>1, <2>3, Zenon DEF EndsTypeOK
    <3>2. \A x \in Executors : run[x] = "none" <=> run'[x] = "none"
      BY <2>1, <2>3 DEF EndsTypeOK
    <3> QED
      BY <2>4, <3>1, <3>2 DEF Silently, EndIsLast
  <2> QED
    BY <2>2, <2>5, <2>6
<1> QED
  BY <1>2, <1>3

LEMMA RefuseKeeps ==
    ASSUME LinkInv, NEW l \in Lines, NEW part, Refuse(l, part) \/ CutLine(l, part)
    PROVE  LinkInv'
<1>1. OutboxInv /\ EndsTypeOK /\ EndIsLast /\ AskedInTurn /\ TakesCounted
  BY DEF LinkInv
<1>2. OutboxInv' /\ NothingAdded
  BY <1>1, RefuseBatchKeeps, CutWriterKeeps DEF Refuse, CutLine
<1>3. faults' \in 0 .. MaxFaults
  BY <1>1, LinkAssumption DEF Refuse, CutLine, EndsTypeOK
<1>4. UNCHANGED Silently /\ \E ms : Tell(l, ms)
  BY DEF Refuse, CutLine
<1>5. /\ EndsTypeOK' /\ EndIsLast'
      /\ answer' \in {answer, "failed"} /\ (phase = "placing" => answer' = answer)
  BY <1>1, <1>3, <1>4, TellKeeps
<1>6. AskedInTurn' /\ TakesCounted'
  BY <1>1, <1>2, <1>4, <1>5, AskedInTurnKept DEF Silently, NothingAdded
<1> QED
  BY <1>2, <1>5, <1>6 DEF LinkInv

-----------------------------------------------------------------------------
(* A process closes, or dies. *)

LEMMA CloseKeeps ==
    ASSUME LinkInv, NEW e \in Executors, Close(e) PROVE LinkInv'
<1>1. OutboxInv /\ EndsTypeOK /\ EndIsLast /\ AskedInTurn /\ TakesCounted
  BY DEF LinkInv
<1>2. /\ cut' \in [Executors -> {"none", "closing", "frame_lost", "owner_lost"}]
      /\ \A x \in Executors : run[x] = "none" => cut'[x] = cut[x]
  BY <1>1, CutTyped DEF Close
<1>3. /\ up' \in [Nodes -> {"up", "closing", "closed", "crashed"}]
      /\ downs' \in 0 .. MaxDowns
  <2>1. up \in [Nodes -> {"up", "closing", "closed", "crashed"}] /\ downs \in 0 .. MaxDowns
    BY <1>1 DEF EndsTypeOK
  <2>2. up' = [up EXCEPT ![e] = "closing"] /\ downs < MaxDowns /\ downs' = downs + 1
    BY DEF Close
  <2>3. e \in Nodes
    BY LinesOf
  <2>4. up' \in [Nodes -> {"up", "closing", "closed", "crashed"}]
    BY <2>1, <2>2, <2>3
  <2>5. downs' \in 0 .. MaxDowns
    BY <2>1, <2>2, LinkAssumption
  <2> QED
    BY <2>4, <2>5
<1>4. EndsTypeOK' /\ EndIsLast'
  BY <1>1, <1>2, <1>3 DEF Close, EndsTypeOK, EndIsLast, ownerEnd, history
<1>5. OutboxInv' /\ NothingAdded
  BY <1>1, QuietOutbox DEF Close
<1>6. AskedInTurn' /\ TakesCounted'
  BY <1>1, <1>5, AskedInTurnKept DEF Close, ownerEnd, history, NothingAdded
<1> QED
  BY <1>4, <1>5, <1>6 DEF LinkInv

LEMMA StopReadingKeeps ==
    ASSUME LinkInv, NEW e \in Executors, StopReading(e) PROVE LinkInv'
<1>1. OutboxInv /\ EndsTypeOK /\ EndIsLast /\ AskedInTurn /\ TakesCounted
  BY DEF LinkInv
<1>2. /\ fOpen' = [fOpen EXCEPT ![e] = FALSE] /\ up' = [up EXCEPT ![e] = "closed"]
      /\ cut' \in [Executors -> {"none", "closing", "frame_lost", "owner_lost"}]
      /\ \A x \in Executors : run[x] = "none" => cut'[x] = cut[x]
      /\ UNCHANGED <<ownerEnd, handled, run, fSent, cSeen, history, faults, downs>>
  BY <1>1, CutTyped DEF StopReading, StopLink
<1>3. EndsTypeOK'
  BY <1>1, <1>2 DEF EndsTypeOK, ownerEnd, history
<1>4. EndIsLast'
  <2>1. \A x \in Executors : fOpen'[x] => fOpen[x]
    BY <1>1, <1>2, Zenon DEF EndsTypeOK
  <2> QED
    BY <1>1, <1>2, <2>1, Zenon DEF EndIsLast
<1>5. OutboxInv' /\ NothingAdded
  BY <1>1, LinesOf, CloseOutboxKeeps DEF StopReading
<1>6. AskedInTurn' /\ TakesCounted'
  BY <1>1, <1>2, <1>5, AskedInTurnKept DEF ownerEnd, history, NothingAdded
<1> QED
  BY <1>3, <1>4, <1>5, <1>6 DEF LinkInv

LEMMA CrashKeeps ==
    ASSUME LinkInv, NEW p \in Nodes, Crash(p) PROVE LinkInv'
<1>1. OutboxInv /\ EndsTypeOK /\ EndIsLast /\ AskedInTurn /\ TakesCounted
  BY DEF LinkInv
<1>2. OutboxInv' /\ NothingAdded
  BY <1>1, LoseOutboxKeeps DEF Crash
<1>3. /\ up' \in [Nodes -> {"up", "closing", "closed", "crashed"}]
      /\ downs' \in 0 .. MaxDowns
      /\ UNCHANGED <<target, excluded, fSeen, why, takes, ended, gaps, refusals, late, faults>>
  BY <1>1, LinkAssumption DEF Crash, EndsTypeOK, history
<1>4. CASE p = Owner
  <2>1. /\ phase' = "over" /\ linked' = FALSE /\ cOpen' = FALSE /\ cSent' = 0
        /\ answer' = "none" /\ delivered' = <<>>
        /\ UNCHANGED executorEnd
    BY <1>4 DEF Crash, Forget
  <2>2. <<>> \in Seq(Messages \cup {Gone}) /\ 0 \in 0 .. MaxControls
    BY OutboxAssumption
  <2>3. EndsTypeOK' /\ EndIsLast'
    BY <1>1, <1>3, <2>1, <2>2 DEF EndsTypeOK, EndIsLast, executorEnd
  <2>4. AskedInTurn' /\ TakesCounted'
    BY <1>1, <1>2, <1>3, <2>1, AskedInTurnKept DEF executorEnd, NothingAdded
  <2> QED
    BY <1>2, <2>3, <2>4 DEF LinkInv
<1>5. CASE p # Owner
  <2>1. p \in Executors
    BY <1>5 DEF Nodes
  <2>2. /\ run' = [run EXCEPT ![p] = IF @ = "none" THEN @ ELSE "gone"]
        /\ fOpen' = [fOpen EXCEPT ![p] = FALSE]
        /\ cSeen' = [cSeen EXCEPT ![p] = 0] /\ cut' = [cut EXCEPT ![p] = "none"]
        /\ UNCHANGED <<handled, fSent, phase, linked, cOpen, cSent, answer, delivered>>
    BY <1>5 DEF Crash
  <2>3. EndsTypeOK'
    BY <1>1, <1>3, <2>1, <2>2, OutboxAssumption DEF EndsTypeOK
  <2>4. EndIsLast'
    <3>1. \A x \in Executors : fOpen'[x] => fOpen[x]
      BY <1>1, <2>2, Zenon DEF EndsTypeOK
    <3>2. \A x \in Executors : /\ run[x] = "none" <=> run'[x] = "none"
                               /\ cut'[x] \in {cut[x], "none"}
      BY <1>1, <2>2 DEF EndsTypeOK
    <3> QED
      BY <1>1, <2>2, <3>1, <3>2, Zenon DEF EndIsLast
  <2>5. AskedInTurn' /\ TakesCounted'
    BY <1>1, <1>2, <1>3, <2>2, AskedInTurnKept DEF NothingAdded
  <2> QED
    BY <1>2, <2>3, <2>4, <2>5 DEF LinkInv
<1> QED
  BY <1>4, <1>5

LEMMA StutterKeeps ==
    ASSUME LinkInv, UNCHANGED vars PROVE LinkInv'
<1> USE DEF vars
<1>1. OutboxInv /\ EndsTypeOK /\ EndIsLast /\ AskedInTurn /\ TakesCounted
  BY DEF LinkInv
<1>2. OutboxInv' /\ NothingAdded
  BY <1>1, QuietOutbox
<1>3. EndsTypeOK' /\ EndIsLast'
  BY <1>1 DEF EndsTypeOK, EndIsLast, ownerEnd, executorEnd, history
<1>4. AskedInTurn' /\ TakesCounted'
  BY <1>1, <1>2, AskedInTurnKept DEF ownerEnd, executorEnd, history, NothingAdded
<1> QED
  BY <1>2, <1>3, <1>4 DEF LinkInv

-----------------------------------------------------------------------------
LEMMA LinkInvariant == Spec => []LinkInv
<1>1. LinkInv /\ [Next]_vars => LinkInv'
  <2> SUFFICES ASSUME LinkInv, [Next]_vars PROVE LinkInv'
    OBVIOUS
  <2>1. CASE Owns
    BY <2>1, AskKeeps, NonePlacedKeeps, TakenKeeps, RefusedKeeps, GivenUpKeeps, ReadKeeps
       DEF Owns
  <2>2. CASE SendControl \/ GiveUp
    BY <2>2, SendControlKeeps, GivenUpKeeps
  <2>3. ASSUME NEW e \in Executors, SendFrame(e) \/ Runs(e) \/ EndUnwritten(e)
        PROVE  LinkInv'
    BY <2>3, SendFrameKeeps, FinishTurnKeeps, OwnerSilentKeeps, EndUnwrittenKeeps DEF Runs
  <2>4. ASSUME NEW p \in Nodes, HandOn(p) PROVE LinkInv'
    BY <2>4, HandToOwnerKeeps, HandToExecutorKeeps DEF Nodes
  <2>5. ASSUME NEW l \in Lines, Transport(l) PROVE LinkInv'
    BY <2>5, TakeBatchLink, WriteKeeps, RefuseKeeps DEF Transport
  <2>6. ASSUME NEW l \in Lines, Retire(l) PROVE LinkInv'
    BY <2>6, RetireKeeps
  <2>7. CASE Leaves
    <3>1. ASSUME NEW e \in Executors, Close(e) \/ StopReading(e) PROVE LinkInv'
      BY <3>1, CloseKeeps, StopReadingKeeps
    <3>2. ASSUME NEW l \in Lines, NEW part, CutLine(l, part) PROVE LinkInv'
      BY <3>2, RefuseKeeps
    <3>3. ASSUME NEW p \in Nodes, Crash(p) PROVE LinkInv'
      BY <3>3, CrashKeeps
    <3> QED
      BY <2>7, <3>1, <3>2, <3>3 DEF Leaves
  <2>8. CASE UNCHANGED vars
    BY <2>8, StutterKeeps
  <2> QED
    BY <2>1, <2>2, <2>3, <2>4, <2>5, <2>6, <2>7, <2>8 DEF Next
<1> QED
  BY <1>1, LinkStarts, PTL DEF Spec

(* The turn, both its ends and the lines between them keep their types. *)
THEOREM LinkTypeCorrect == Spec => []TypeOK
<1>1. LinkInv => TypeOK
  BY TypeParts DEF LinkInv, OutboxInv
<1> QED
  BY <1>1, LinkInvariant, PTL

(* Whatever is lost, refused or written twice, at most one executor takes  *)
(* the turn, once (RedisTurnBackend.submit, Routes._request).              *)
THEOREM TurnTakenOnce == Spec => []TakenOnce
<1>1. LinkInv => TakenOnce
  BY DEF LinkInv, TakesCounted, TakenOnce
<1> QED
  BY <1>1, LinkInvariant, PTL

(* What is posted on a line has a writer, through failures, idleness and   *)
(* closes (Outbox.post, _DestinationWriter).                               *)
THEOREM NothingLeftStranded == Spec => []NothingStranded
<1>1. LinkInv => NothingStranded
  BY DEF LinkInv, OutboxInv, WritersKept, NothingStranded
<1> QED
  BY <1>1, LinkInvariant, PTL
-----------------------------------------------------------------------------
(* What TurnPromise adds: what the turn's owner reads of it was sent.      *)

(* A frame the executor of the turn numbered; an end, its last one, behind *)
(* all the others.                                                         *)
WasSent(m) ==
    \E e \in Executors :
        /\ handled[e] = "taken" /\ m.n \in 1 .. fSent[e]
        /\ m.kind = "end" => e \in ended /\ m.n = fSent[e]
        /\ m.kind = "frame" /\ e \in ended => m.n < fSent[e]

FramesSent ==
    \A m \in Carried(Owner) \cup Elements(delivered) : m.kind \in FrameKinds => WasSent(m)

(* Only who took the turn runs it, and sends nothing after its end. *)
RunsTaken ==
    \A e \in Executors :
        /\ run[e] # "none" => handled[e] = "taken"
        /\ fOpen[e] => run[e] = "running"
        /\ e \in ended =>
              handled[e] = "taken" /\ run[e] \in {"ending", "gone"} /\ fSent[e] > 0

(* So much was sent, and the turn's end is more. *)
Sent(n) ==
    \E e \in Executors :
        /\ handled[e] = "taken" /\ n <= fSent[e]
        /\ e \in ended /\ phase # "over" => n < fSent[e]

(* What the owner read was sent, and until it is through it has not read   *)
(* the turn's end, and nothing is said of how the turn went.               *)
ReadsSent ==
    /\ fSeen = 0 \/ Sent(fSeen)
    /\ phase # "over" => why = "none"

FlowInv == FramesSent /\ RunsTaken /\ ReadsSent

-----------------------------------------------------------------------------
(* At most one executor took the turn: the one the promise is about. *)
LEMMA RunnerIs ==
    ASSUME LinkInv
    PROVE  /\ \A e \in Executors : handled[e] = "taken" => Runner = e
           /\ Runner # NoExecutor => Runner \in Executors /\ handled[Runner] = "taken"
<1> DEFINE chosen == CHOOSE e \in Executors : handled[e] = "taken"
<1>1. ASSUME NEW e \in Executors, handled[e] = "taken" PROVE e = target
  BY <1>1 DEF LinkInv, AskedInTurn
<1>2. (\E e \in Executors : handled[e] = "taken")
          => chosen \in Executors /\ handled[chosen] = "taken"
  BY Zenon
<1>3. Runner = IF \E e \in Executors : handled[e] = "taken" THEN chosen ELSE NoExecutor
  BY DEF Runner
<1> HIDE DEF chosen
<1> QED
  BY <1>1, <1>2, <1>3

(* What is left of the link's queue, or is put there by a broken control. *)
LEMMA DeliveredLess ==
    ASSUME EndsTypeOK,
           \/ delivered' \in {delivered, <<>>, Append(delivered, Gone)}
           \/ delivered # <<>> /\ delivered' = Tail(delivered)
    PROVE  \A m \in Elements(delivered)' : m.kind \in FrameKinds => m \in Elements(delivered)
<1> DEFINE S == Messages \cup {Gone}
<1>1. delivered \in Seq(S) /\ Gone \in S /\ Gone.kind \notin FrameKinds
  BY DEF EndsTypeOK, Gone, Msg, FrameKinds
<1> HIDE DEF S
<1>2. Elements(delivered)' = Elements(delivered')
  BY DEF Elements
<1>3. CASE delivered' = Append(delivered, Gone)
  BY <1>1, <1>2, <1>3, ElementsAppended
<1>4. CASE delivered # <<>> /\ delivered' = Tail(delivered)
  BY <1>1, <1>2, <1>4, ElementsAfterHead
<1>5. CASE delivered' \in {delivered, <<>>}
  BY <1>2, <1>5, EmptyElements
<1> QED
  BY <1>3, <1>4, <1>5

(* A step that sends nothing of the turn and takes nothing. *)
LEMMA FlowKept ==
    ASSUME FlowInv, UNCHANGED <<fSent, ended>>,
           \A e \in Executors : handled'[e] = "taken" <=> handled[e] = "taken",
           fSeen' = fSeen \/ Sent(fSeen)',
           \A e \in Executors : fOpen'[e] => fOpen[e],
           \A e \in Executors :
               \/ run'[e] = run[e]
               \/ run'[e] = "gone" /\ run[e] # "none" /\ ~fOpen'[e],
           phase' # "over" => phase # "over" /\ why' = why,
           \A m \in Carried(Owner)' \cup Elements(delivered)' :
               m.kind \in FrameKinds => m \in Carried(Owner) \cup Elements(delivered)
    PROVE  FlowInv'
<1>1. FramesSent'
  BY DEF FlowInv, FramesSent, WasSent
<1>2. RunsTaken'
  BY DEF FlowInv, RunsTaken
<1>3. ReadsSent'
  BY DEF FlowInv, ReadsSent, Sent
<1> QED
  BY <1>1, <1>2, <1>3 DEF FlowInv

LEMMA RunnerStays ==
    ASSUME LinkInv, \A e \in Executors : handled'[e] = "taken" <=> handled[e] = "taken"
    PROVE  Runner' = Runner
<1>1. CASE \E e \in Executors : handled[e] = "taken"
  <2>1. PICK e \in Executors : handled[e] = "taken"
    BY <1>1
  <2>2. \A x \in Executors : handled'[x] = "taken" => x = e
    BY <2>1, RunnerIs
  <2> DEFINE chosen == CHOOSE x \in Executors : handled'[x] = "taken"
  <2>3. chosen \in Executors /\ handled'[chosen] = "taken"
    BY <2>1, Zenon
  <2>4. Runner' = chosen
    BY <2>1, Zenon DEF Runner
  <2> HIDE DEF chosen
  <2> QED
    BY <2>1, <2>2, <2>3, <2>4, RunnerIs
<1>2. CASE ~\E e \in Executors : handled[e] = "taken"
  BY <1>2 DEF Runner
<1> QED
  BY <1>1, <1>2

(* A step in which the executors' ends are through at most, and the turn's *)
(* fate stays.                                                             *)
LEMMA Halts ==
    ASSUME LinkInv, UNCHANGED <<fSent, ended, fSeen>>, Fate' = Fate,
           \A e \in Executors : handled'[e] = "taken" <=> handled[e] = "taken",
           \A e \in Executors : run[e] = "gone" \/ ~Serves(e)
                                   => run'[e] = "gone" \/ ~(Serves(e)')
    PROVE  Promise!Stop \/ UNCHANGED Promise!vars
<1>1. Runner' = Runner
  BY RunnerStays
<1>2. Runner # NoExecutor => Runner \in Executors
  BY RunnerIs
<1>3. Serves(Runner)' <=> up'[Runner] \in {"up", "closing"}
  BY <1>1 DEF Serves
<1>4. \A e \in Executors : Serves(e)' <=> up'[e] \in {"up", "closing"}
  BY DEF Serves
<1> QED
  BY <1>1, <1>2, <1>3, <1>4 DEF Promise!Stop, Promise!vars

(* A step by which the owner is through with a turn it has not read whole. *)
LEMMA Loses ==
    ASSUME UNCHANGED <<handled, fSent, ended, fSeen, run>>, \A e \in Executors : up'[e] = up[e],
           LinkInv, Fate = "open", Fate' = "failed"
    PROVE  Promise!Fail
<1>1. Runner' = Runner
  BY DEF Runner
<1>2. Runner # NoExecutor => Runner \in Executors
  BY RunnerIs
<1>3. Serves(Runner)' <=> up'[Runner] \in {"up", "closing"}
  BY <1>1 DEF Serves
<1>4. Serves(Runner) <=> up[Runner] \in {"up", "closing"}
  BY DEF Serves
<1> QED
  BY <1>1, <1>2, <1>3, <1>4 DEF Promise!Fail

-----------------------------------------------------------------------------
(* What a step must show: what it keeps, and the step of the promise. *)
Carries == FlowInv' /\ (Promise!Next \/ UNCHANGED Promise!vars)

LEMMA PostedAway ==
    ASSUME LinkInv, NEW e \in Executors, NEW m \in Messages,
           Post(ToExecutor(e), m), UNCHANGED OutboxButPost
    PROVE  Carried(Owner)' \subseteq Carried(Owner)
BY PostOnly, LinesOf DEF OutboxButPost, LinkInv

LEMMA QuietCarried ==
    ASSUME LinkInv, UNCHANGED outbox
    PROVE  Carried(Owner)' \subseteq Carried(Owner)
BY QuietOutbox DEF LinkInv, NothingAdded, Nodes

(* The owner's steps before the turn is over for it. *)
LEMMA OwnerCarries ==
    ASSUME LinkInv, FlowInv, phase # "over", phase' # "over", why' = why, fSeen' = fSeen,
           delivered' \in {delivered, <<>>}, Carried(Owner)' \subseteq Carried(Owner),
           UNCHANGED <<up, executorEnd, history>>
    PROVE  Carries
<1>1. \A m \in Elements(delivered)' : m.kind \in FrameKinds => m \in Elements(delivered)
  BY DeliveredLess DEF LinkInv
<1>2. FlowInv'
  BY <1>1, FlowKept DEF executorEnd, history
<1>3. Fate' = Fate
  BY DEF Fate
<1>4. \A e \in Executors : Serves(e)' <=> Serves(e)
  BY DEF Serves
<1>5. Promise!Stop \/ UNCHANGED Promise!vars
  BY <1>3, <1>4, Halts DEF executorEnd, history
<1> QED
  BY <1>2, <1>5 DEF Carries, Promise!Next

LEMMA AsksCarry ==
    ASSUME LinkInv, FlowInv,
           (\E e \in Executors : Ask(e)) \/ Taken \/ Refused \/ SendControl
    PROVE  Carries
<1>1. Msg("request", 0) \in Messages
  BY DEF Msg, Messages
<1>2. CASE \E e \in Executors : Ask(e)
  BY <1>1, <1>2, PostedAway, OwnerCarries DEF Ask
<1>3. CASE Taken \/ Refused
  BY <1>3, QuietCarried, OwnerCarries DEF Taken, Refused
<1>4. CASE SendControl
  <2>1. target \in Executors /\ cSent + 1 \in 1 .. MaxControls
    BY <1>4, OutboxAssumption DEF SendControl, LinkInv, AskedInTurn, EndsTypeOK
  <2>2. Msg("control", cSent + 1) \in Messages
    BY <2>1 DEF Msg, Messages
  <2> QED
    BY <1>4, <2>1, <2>2, PostedAway, OwnerCarries DEF SendControl
<1> QED
  BY <1>2, <1>3, <1>4

(* The owner is through with a turn it did not read whole. *)
LEMMA GoneCarries ==
    ASSUME LinkInv, FlowInv, phase # "over", phase' = "over", why' # "done",
           fSeen' = fSeen, delivered' = <<>>, Carried(Owner)' \subseteq Carried(Owner),
           UNCHANGED <<handled, run, fOpen, fSent, ended>>,
           \A e \in Executors : up'[e] = up[e]
    PROVE  Carries
<1>1. \A m \in Elements(delivered)' : m.kind \in FrameKinds => m \in Elements(delivered)
  BY DeliveredLess DEF LinkInv
<1>2. FlowInv'
  BY <1>1, FlowKept
<1>3. Fate = "open" /\ Fate' = "failed"
  BY DEF Fate
<1> QED
  BY <1>2, <1>3, Loses DEF Carries, Promise!Next

LEMMA LetGoAway ==
    ASSUME LinkInv, phase \in {"asking", "reading"}, UNCHANGED OutboxButPost,
           NEW reason, NEW endRead \in BOOLEAN, LetGo(reason, endRead)
    PROVE  /\ phase' = "over" /\ why' = reason /\ delivered' = <<>>
           /\ Carried(Owner)' \subseteq Carried(Owner)
<1>1. phase' = "over" /\ why' = reason /\ delivered' = <<>>
  BY DEF LetGo, Forget
<1>2. target \in Executors
  BY DEF LinkInv, AskedInTurn
<1>3. Msg("released", 0) \in Messages
  BY DEF Msg, Messages
<1>4. CASE endRead
  BY <1>1, <1>4, QuietCarried DEF LetGo, outbox, OutboxButPost
<1>5. CASE ~endRead
  BY <1>1, <1>2, <1>3, <1>5, PostedAway DEF LetGo
<1> QED
  BY <1>1, <1>4, <1>5

LEMMA GivenUpCarries ==
    ASSUME LinkInv, FlowInv, NonePlaced \/ Unanswered \/ GiveUp \/ Silence
    PROVE  Carries
<1>1. CASE NonePlaced
  BY <1>1, QuietCarried, GoneCarries DEF NonePlaced, Forget, executorEnd, history
<1>2. CASE Unanswered \/ GiveUp \/ Silence
  <2>1. PICK reason \in {"unanswered", "left", "silence"} :
          /\ phase \in {"asking", "reading"} /\ LetGo(reason, FALSE)
          /\ UNCHANGED <<OutboxButPost, up, fSeen, executorEnd, history>>
    BY <1>2 DEF Unanswered, GiveUp, Silence
  <2>2. /\ phase' = "over" /\ why' = reason /\ delivered' = <<>>
        /\ Carried(Owner)' \subseteq Carried(Owner)
    BY <2>1, LetGoAway
  <2> QED
    BY <2>1, <2>2, GoneCarries DEF executorEnd, history
<1> QED
  BY <1>1, <1>2

LEMMA ReadCarries == ASSUME LinkInv, FlowInv, Read PROVE Carries
<1> DEFINE m == Head(delivered)
<1>1. /\ phase = "reading" /\ delivered # <<>>
      /\ UNCHANGED <<OutboxButPost, up, executorEnd, ended>>
  BY DEF Read
<1>2. /\ m \in Messages \cup {Gone} /\ m \in Elements(delivered)
      /\ fSeen \in Int /\ fSent \in [Executors -> 0 .. MaxFrames + 1]
  <2>1. delivered \in Seq(Messages \cup {Gone}) /\ fSeen \in 0 .. MaxFrames + 1
        /\ fSent \in [Executors -> 0 .. MaxFrames + 1]
    BY DEF LinkInv, EndsTypeOK
  <2> QED
    BY <1>1, <2>1, ElementsAfterHead
<1>3. m.kind \in FrameKinds => m.n \in Int
  <2>1. Gone.kind \notin FrameKinds
    BY DEF Gone, Msg, FrameKinds
  <2> QED
    BY <1>2, <2>1, MessageKinds
<1> HIDE DEF m
<1>4. m.kind \in FrameKinds => WasSent(m)
  BY <1>2 DEF FlowInv, FramesSent
<1>5. ASSUME m.kind \in FrameKinds, m.n = fSeen + 1, fSeen' = m.n,
             \/ phase' = "reading" /\ why' = why /\ delivered' = Tail(delivered) /\ m.kind = "frame"
             \/ phase' = "over" /\ why' = "done" /\ delivered' = <<>> /\ m.kind = "end",
             Carried(Owner)' \subseteq Carried(Owner)
      PROVE  Carries
  <2>1. PICK e \in Executors :
          /\ handled[e] = "taken" /\ m.n <= fSent[e]
          /\ m.kind = "end" => e \in ended /\ m.n = fSent[e]
          /\ m.kind = "frame" /\ e \in ended => m.n < fSent[e]
    BY <1>4, <1>5 DEF WasSent
  <2>2. \A x \in Elements(delivered)' : x.kind \in FrameKinds => x \in Elements(delivered)
    BY <1>1, <1>5, DeliveredLess DEF LinkInv
  <2>3. FlowInv'
    <3>1. Sent(fSeen)'
      BY <1>1, <1>5, <2>1 DEF Sent, executorEnd
    <3> QED
      BY <1>1, <1>5, <2>2, <3>1, FlowKept DEF executorEnd
  <2>4. Runner = e /\ e # NoExecutor
    BY <2>1, RunnerIs, LinkAssumption
  <2>5. Runner' = Runner
    BY <1>1 DEF Runner, executorEnd
  <2>6. (Serves(e)' <=> Serves(e)) /\ (Serves(Runner)' <=> Serves(e)')
    BY <1>1, <2>4, <2>5 DEF Serves
  <2>7. Fate = "open" /\ why = "none"
    BY <1>1 DEF Fate, FlowInv, ReadsSent
  <2>8. Fate' = "open" \/ (Fate' = "done" /\ e \in ended /\ fSeen' = fSent[e])
    BY <1>5, <2>1 DEF Fate
  <2>9. Promise!Read
    BY <1>1, <1>2, <1>5, <2>1, <2>4, <2>5, <2>6, <2>7, <2>8 DEF Promise!Read, executorEnd
  <2> QED
    BY <2>3, <2>9 DEF Carries, Promise!Next
<1>6. CASE /\ ReadsOn(m)
           /\ fSeen' = IF Skipped(m) THEN fSeen ELSE m.n
           /\ delivered' = Tail(delivered)
           /\ UNCHANGED <<phase, why, linked, answer, cOpen, cSent, queue, writer, gaps>>
  <2>1. Carried(Owner)' \subseteq Carried(Owner)
    BY <1>1, <1>6, QuietCarried DEF OutboxButPost, outbox
  <2>2. CASE Skipped(m)
    <3>1. \A x \in Elements(delivered)' : x.kind \in FrameKinds => x \in Elements(delivered)
      BY <1>1, <1>6, DeliveredLess DEF LinkInv
    <3>2. FlowInv'
      BY <1>1, <1>6, <2>1, <2>2, <3>1, FlowKept DEF executorEnd
    <3>3. Fate' = Fate /\ \A e \in Executors : Serves(e)' <=> Serves(e)
      BY <1>1, <1>6 DEF Fate, Serves
    <3>4. Promise!Stop \/ UNCHANGED Promise!vars
      BY <1>1, <1>6, <2>2, <3>3, Halts DEF executorEnd
    <3> QED
      BY <3>2, <3>4 DEF Carries, Promise!Next
  <2>3. CASE ~Skipped(m)
    <3>1. m.kind = "frame" /\ m.kind \in FrameKinds /\ m.n = fSeen + 1 /\ fSeen' = m.n
      BY <1>2, <1>3, <1>6, <2>3 DEF ReadsOn, Skipped, FrameKinds
    <3> QED
      BY <1>1, <1>5, <1>6, <2>1, <3>1
  <2> QED
    BY <2>2, <2>3
<1>7. CASE m.kind = "end" /\ m.n = fSeen + 1 /\ fSeen' = m.n /\ LetGo("done", TRUE)
           /\ UNCHANGED gaps
  <2>1. /\ phase' = "over" /\ why' = "done" /\ delivered' = <<>>
        /\ Carried(Owner)' \subseteq Carried(Owner)
    BY <1>1, <1>7, LetGoAway
  <2> QED
    BY <1>5, <1>7, <2>1 DEF FrameKinds
<1>8. ASSUME NEW reason \in {"gap", "broken"}, LetGo(reason, FALSE), UNCHANGED fSeen
      PROVE  Carries
  <2>1. /\ phase' = "over" /\ why' = reason /\ delivered' = <<>>
        /\ Carried(Owner)' \subseteq Carried(Owner)
    BY <1>1, <1>8, LetGoAway
  <2> QED
    BY <1>1, <1>8, <2>1, GoneCarries DEF executorEnd
<1> QED
  BY <1>6, <1>7, <1>8 DEF Read, m

-----------------------------------------------------------------------------
(* What an executor sends is what its owner may read. *)
LEMMA SentCarries ==
    ASSUME LinkInv, FlowInv, NEW e \in Executors, NEW m \in Messages,
           m.kind \in FrameKinds, m.n = fSent[e] + 1,
           Serves(e), run[e] = "running", Post(ToOwner(e), m),
           fSent' = [fSent EXCEPT ![e] = @ + 1],
           \/ m.kind = "frame" /\ UNCHANGED <<run, fOpen, ended>>
           \/ /\ m.kind = "end" /\ ended' = ended \cup {e}
              /\ run' = [run EXCEPT ![e] = "ending"] /\ fOpen' = [fOpen EXCEPT ![e] = FALSE],
           UNCHANGED <<again, flight, shut, inbox, up, ownerEnd, handled>>
    PROVE  Carries
<1>1. /\ fSent \in [Executors -> 0 .. MaxFrames + 1]
      /\ run \in [Executors -> {"none", "running", "ending", "gone"}]
      /\ fOpen \in [Executors -> BOOLEAN]
  BY DEF LinkInv, EndsTypeOK
<1>2. handled[e] = "taken" /\ e \notin ended
  BY DEF FlowInv, RunsTaken
<1>3. /\ fSent'[e] = fSent[e] + 1 /\ fSent[e] \in Int
      /\ \A x \in Executors : x # e => fSent'[x] = fSent[x]
  BY <1>1
<1>4. Carried(Owner)' \subseteq Carried(Owner) \cup {m}
  BY LinesOf, PostOnly DEF LinkInv
<1>5. Elements(delivered)' = Elements(delivered)
  BY DEF ownerEnd, Elements
<1>6. \A x : WasSent(x) => WasSent(x)'
  BY <1>1, <1>2, <1>3 DEF WasSent
<1>7. WasSent(m)'
  BY <1>1, <1>2, <1>3 DEF WasSent
<1>8. FramesSent'
  BY <1>4, <1>5, <1>6, <1>7 DEF FlowInv, FramesSent
<1>9. RunsTaken'
  BY <1>1, <1>2 DEF FlowInv, RunsTaken
<1>10. ReadsSent'
  BY <1>1, <1>2, <1>3 DEF FlowInv, ReadsSent, Sent, ownerEnd, LinkInv, EndsTypeOK
<1>11. Runner = e /\ Runner' = Runner /\ e # NoExecutor
  BY <1>2, RunnerIs, LinkAssumption DEF Runner
<1>12. Serves(e)' /\ Serves(Runner)' /\ Fate' = Fate /\ fSeen' = fSeen
  BY <1>11 DEF Serves, Fate, ownerEnd
<1>13. run'[e] # "gone" /\ run[e] # "gone"
  BY <1>1
<1>14. Promise!Send
  BY <1>2, <1>3, <1>11, <1>12, <1>13 DEF Promise!Send
<1> QED
  BY <1>8, <1>9, <1>10, <1>14 DEF FlowInv, Carries, Promise!Next

LEMMA SendFrameCarries ==
    ASSUME LinkInv, FlowInv, NEW e \in Executors, SendFrame(e) PROVE Carries
<1>1. fSent[e] + 1 \in 1 .. MaxFrames + 1
  BY OutboxAssumption DEF SendFrame, LinkInv, EndsTypeOK
<1>2. /\ Msg("frame", fSent[e] + 1) \in Messages
      /\ Msg("frame", fSent[e] + 1).kind = "frame" /\ Msg("frame", fSent[e] + 1).n = fSent[e] + 1
  BY <1>1 DEF Msg, Messages
<1> QED
  BY <1>2, SentCarries DEF SendFrame, FrameKinds, OutboxButPost, history

(* A step by which executors come to their end at most. *)
LEMMA HaltsCarry ==
    ASSUME LinkInv, FlowInv, Carried(Owner)' \subseteq Carried(Owner),
           delivered' \in {delivered, <<>>, Append(delivered, Gone)},
           \A e \in Executors : fOpen'[e] => fOpen[e],
           \A e \in Executors :
               \/ run'[e] = run[e]
               \/ run'[e] = "gone" /\ run[e] # "none" /\ ~fOpen'[e],
           \A e \in Executors : Serves(e)' => Serves(e),
           UNCHANGED <<phase, why, fSeen, handled, fSent, ended>>
    PROVE  Carries
<1>1. \A m \in Elements(delivered)' : m.kind \in FrameKinds => m \in Elements(delivered)
  BY DeliveredLess DEF LinkInv
<1>2. FlowInv'
  BY <1>1, FlowKept
<1>3. Fate' = Fate
  BY DEF Fate
<1>4. Promise!Stop \/ UNCHANGED Promise!vars
  BY <1>3, Halts
<1> QED
  BY <1>2, <1>4 DEF Carries, Promise!Next

LEMMA FinishTurnCarries ==
    ASSUME LinkInv, FlowInv, NEW e \in Executors, FinishTurn(e) PROVE Carries
<1>1. /\ run[e] = "running" /\ fOpen' = [fOpen EXCEPT ![e] = FALSE] /\ Serves(e)
      /\ UNCHANGED <<again, flight, shut, inbox, up, ownerEnd, handled>>
      /\ run \in [Executors -> {"none", "running", "ending", "gone"}]
      /\ fOpen \in [Executors -> BOOLEAN]
  BY DEF FinishTurn, OutboxButPost, LinkInv, EndsTypeOK
<1>2. CASE EndGoesOut(e)
  <2>1. fSent[e] + 1 \in 1 .. MaxFrames + 1
    BY <1>2, OutboxAssumption DEF EndGoesOut, EndIsLast, LinkInv, EndsTypeOK
  <2>2. /\ Msg("end", fSent[e] + 1) \in Messages
        /\ Msg("end", fSent[e] + 1).kind = "end" /\ Msg("end", fSent[e] + 1).n = fSent[e] + 1
    BY <2>1 DEF Msg, Messages
  <2>3. /\ fSent' = [fSent EXCEPT ![e] = @ + 1] /\ Post(ToOwner(e), Msg("end", fSent[e] + 1))
        /\ ended' = ended \cup {e} /\ run' = [run EXCEPT ![e] = "ending"]
    BY <1>2 DEF FinishTurn
  <2> QED
    BY <1>1, <2>2, <2>3, SentCarries DEF FrameKinds
<1>3. CASE ~EndGoesOut(e)
  <2>1. run' = [run EXCEPT ![e] = "gone"] /\ UNCHANGED <<queue, writer, fSent, ended>>
    BY <1>3 DEF FinishTurn
  <2>2. Carried(Owner)' \subseteq Carried(Owner)
    BY <1>1, <2>1, QuietCarried DEF outbox
  <2>3. \A x \in Executors : /\ fOpen'[x] => fOpen[x]
                             /\ run'[x] = run[x] \/ (x = e /\ run'[x] = "gone" /\ ~fOpen'[x])
    BY <1>1, <2>1
  <2> QED
    BY <1>1, <2>1, <2>2, <2>3, HaltsCarry DEF ownerEnd, Serves
<1> QED
  BY <1>2, <1>3

LEMMA ExecutorEndsCarry ==
    ASSUME LinkInv, FlowInv, NEW e \in Executors,
           EndUnwritten(e) \/ OwnerSilent(e) \/ Close(e) \/ StopReading(e)
    PROVE  Carries
<1>1. /\ run \in [Executors -> {"none", "running", "ending", "gone"}]
      /\ fOpen \in [Executors -> BOOLEAN]
      /\ up \in [Nodes -> {"up", "closing", "closed", "crashed"}]
  BY DEF LinkInv, EndsTypeOK
<1>2. CASE EndUnwritten(e)
  <2>1. \A x \in Executors : run'[x] = run[x] \/ (run'[x] = "gone" /\ run[x] # "none" /\ ~fOpen[x])
    BY <1>1, <1>2 DEF EndUnwritten, FlowInv, RunsTaken
  <2> QED
    BY <1>2, <2>1, QuietCarried, HaltsCarry DEF EndUnwritten, ownerEnd, Serves
<1>3. CASE OwnerSilent(e)
  BY <1>3, QuietCarried, HaltsCarry DEF OwnerSilent, ownerEnd, history, Serves
<1>4. CASE Close(e)
  <2>1. \A x \in Executors : Serves(x)' => Serves(x)
    BY <1>1, <1>4, LinesOf DEF Close, Serves
  <2> QED
    BY <1>4, <2>1, QuietCarried, HaltsCarry DEF Close, ownerEnd, history
<1>5. CASE StopReading(e)
  <2>1. \A x \in Executors : Serves(x)' => Serves(x)
    BY <1>1, <1>5, LinesOf DEF StopReading, Serves
  <2>2. Carried(Owner)' \subseteq Carried(Owner)
    BY <1>5, LinesOf, CloseOutboxKeeps DEF StopReading, LinkInv, NothingAdded
  <2>3. \A x \in Executors : fOpen'[x] => fOpen[x]
    BY <1>1, <1>5 DEF StopReading, StopLink
  <2> QED
    BY <1>5, <2>1, <2>2, <2>3, HaltsCarry DEF StopReading, ownerEnd, history
<1> QED
  BY <1>2, <1>3, <1>4, <1>5

-----------------------------------------------------------------------------
(* What an inbox hands on. *)
LEMMA HandToOwnerCarries ==
    ASSUME LinkInv, FlowInv, HandOn(Owner) PROVE Carries
<1> DEFINE m == Head(inbox[Owner])
<1>1. /\ inbox[Owner] # <<>> /\ inbox' = [inbox EXCEPT ![Owner] = Tail(@)]
      /\ delivered' \in {delivered, Append(delivered, m)}
      /\ UNCHANGED <<again, flight, shut, queue, writer, up, phase, fSeen, why, executorEnd,
                     history>>
  BY DEF HandOn, HandToOwner, OwnerHandles
<1>2. m \in Messages /\ m \in Carried(Owner) /\ Carried(Owner)' \subseteq Carried(Owner)
  BY <1>1, HandedOn DEF Nodes, LinkInv, NothingAdded
<1>3. Elements(delivered)' \subseteq Elements(delivered) \cup {m}
  <2>1. delivered \in Seq(Messages \cup {Gone}) /\ m \in Messages \cup {Gone}
    BY <1>2 DEF LinkInv, EndsTypeOK
  <2>2. Elements(Append(delivered, m)) = Elements(delivered) \cup {m}
    BY <2>1, ElementsAppended
  <2>3. Elements(delivered)' = Elements(delivered')
    BY DEF Elements
  <2> QED
    BY <1>1, <2>2, <2>3
<1>4. FlowInv'
  BY <1>1, <1>2, <1>3, FlowKept DEF executorEnd, history
<1>5. Fate' = Fate /\ \A e \in Executors : Serves(e)' <=> Serves(e)
  BY <1>1 DEF Fate, Serves
<1>6. Promise!Stop \/ UNCHANGED Promise!vars
  BY <1>1, <1>5, Halts DEF executorEnd, history
<1> QED
  BY <1>4, <1>6 DEF Carries, Promise!Next

(* The request taken begins the turn; any other answer changes nothing. *)
LEMMA RequestCarries ==
    ASSUME LinkInv, FlowInv, NEW e \in Executors, HandOn(e),
           Head(inbox[e]).kind = "request", Request(e), UNCHANGED <<fSent, cSeen, cut, gaps>>
    PROVE  Carries
<1>1. /\ inbox[e] # <<>> /\ inbox' = [inbox EXCEPT ![e] = Tail(@)] /\ Serves(e)
      /\ UNCHANGED <<again, flight, shut, up, ownerEnd, ended>>
  BY LinesOf DEF HandOn, HandToExecutor
<1>2. /\ handled \in [Executors -> {"none", "taken", "refused"}]
      /\ run \in [Executors -> {"none", "running", "ending", "gone"}]
      /\ fOpen \in [Executors -> BOOLEAN] /\ ended \in SUBSET Executors
  BY DEF LinkInv, EndsTypeOK
<1>3. Elements(delivered)' = Elements(delivered)
  BY <1>1 DEF ownerEnd, Elements
<1>4. Fate' = Fate /\ fSeen' = fSeen /\ phase' = phase /\ why' = why
      /\ \A x \in Executors : Serves(x)' <=> Serves(x)
  BY <1>1 DEF Fate, ownerEnd, Serves
<1>5. ASSUME NEW given \in {"taken", "refused"}, Post(ToOwner(e), Msg(given, e))
      PROVE  \A m \in Carried(Owner)' : m.kind \in FrameKinds => m \in Carried(Owner)
  <2>1. Msg(given, e) \in Messages /\ Msg(given, e).kind \notin FrameKinds
    BY DEF Msg, Messages, FrameKinds
  <2>2. Carried(Owner)' \subseteq Carried(Owner) \cup {Msg(given, e)}
    BY <1>1, <1>5, <2>1, LinesOf, HandedOn DEF LinkInv
  <2> QED
    BY <2>1, <2>2
<1>6. ASSUME NEW given \in {"taken", "refused"}, Post(ToOwner(e), Msg(given, e)),
             UNCHANGED <<run, fOpen>>,
             handled' = handled \/ handled' = [handled EXCEPT ![e] = "refused"],
             handled[e] \in {"none", given}, given = "refused" \/ handled' = handled
      PROVE  Carries
  <2>1. \A x \in Executors : handled'[x] = "taken" <=> handled[x] = "taken"
    BY <1>2, <1>6
  <2>2. FlowInv'
    BY <1>1, <1>3, <1>4, <1>5, <1>6, <2>1, FlowKept
  <2>3. Promise!Stop \/ UNCHANGED Promise!vars
    BY <1>1, <1>4, <1>6, <2>1, Halts
  <2> QED
    BY <2>2, <2>3 DEF Carries, Promise!Next
<1>7. CASE ~FirstTime(e) /\ Post(ToOwner(e), Msg(handled[e], e))
           /\ UNCHANGED <<handled, run, fOpen, takes>>
  <2>1. handled[e] \in {"taken", "refused"}
    BY <1>2, <1>7 DEF FirstTime
  <2> QED
    BY <1>6, <1>7, <2>1
<1>8. CASE FirstTime(e) /\ handled' = [handled EXCEPT ![e] = "refused"]
           /\ Post(ToOwner(e), Msg("refused", e)) /\ UNCHANGED <<run, fOpen, takes>>
  BY <1>6, <1>8 DEF FirstTime
<1>9. CASE FirstTime(e) /\ handled' = [handled EXCEPT ![e] = "taken"]
           /\ run' = [run EXCEPT ![e] = "running"] /\ fOpen' = [fOpen EXCEPT ![e] = TRUE]
           /\ takes' = takes + 1 /\ Post(ToOwner(e), Msg("taken", e))
  <2>1. Head(inbox[e]) \in Carried(e)
    BY <1>1, LinesOf, HandedOn DEF LinkInv
  <2>2. \A x \in Executors : handled[x] # "taken"
    BY <1>9, <2>1 DEF FirstTime, LinkInv, AskedInTurn
  <2>3. /\ \A x \in Executors : handled'[x] = "taken" <=> x = e
        /\ handled[e] = "none" /\ fSent[e] = 0 /\ e \notin ended
    BY <1>2, <1>9, <2>2 DEF FirstTime, LinkInv, EndIsLast, FlowInv, RunsTaken
  <2>4. FramesSent'
    <3>1. \A m : ~WasSent(m)
      BY <2>2 DEF WasSent
    <3> QED
      BY <1>3, <1>5, <1>9, <3>1 DEF FlowInv, FramesSent
  <2>5. RunsTaken'
    <3>1. \A x \in Executors : x # e => /\ run'[x] = run[x] /\ fOpen'[x] = fOpen[x]
                                         /\ handled'[x] = handled[x]
      BY <1>2, <1>9
    <3>2. run'[e] = "running" /\ fOpen'[e] /\ handled'[e] = "taken"
      BY <1>2, <1>9
    <3> QED
      BY <1>1, <2>3, <3>1, <3>2 DEF FlowInv, RunsTaken
  <2>6. ReadsSent'
    BY <1>4, <2>2 DEF FlowInv, ReadsSent, Sent
  <2>7. Runner = NoExecutor
    BY <2>2 DEF Runner
  <2>8. Runner' = e
    <3> DEFINE chosen == CHOOSE x \in Executors : handled'[x] = "taken"
    <3>1. chosen \in Executors /\ handled'[chosen] = "taken"
      BY <2>3, Zenon
    <3>2. Runner' = chosen
      BY <2>3, Zenon DEF Runner
    <3> HIDE DEF chosen
    <3> QED
      BY <2>3, <3>1, <3>2
  <2>9. Serves(Runner)' /\ run'[e] = "running" /\ e # NoExecutor /\ NoExecutor \notin ended
    BY <1>1, <1>2, <1>9, <2>8, LinkAssumption DEF Serves
  <2>10. Promise!Begin(e)
    BY <1>1, <1>4, <2>3, <2>7, <2>8, <2>9 DEF Promise!Begin
  <2> QED
    BY <2>4, <2>5, <2>6, <2>10 DEF FlowInv, Carries, Promise!Next
<1> QED
  BY <1>7, <1>8, <1>9 DEF Request

LEMMA HandToExecutorCarries ==
    ASSUME LinkInv, FlowInv, NEW e \in Executors, HandOn(e) PROVE Carries
<1> DEFINE m == Head(inbox[e])
<1>1. /\ inbox[e] # <<>> /\ inbox' = [inbox EXCEPT ![e] = Tail(@)] /\ HandToExecutor(e, m)
      /\ UNCHANGED <<again, flight, shut, up, ownerEnd, ended>>
  BY LinesOf DEF HandOn, HandToExecutor
<1>2. CASE m.kind = "request" /\ Request(e) /\ UNCHANGED <<fSent, cSeen, cut, gaps>>
  BY <1>2, RequestCarries
<1>3. ASSUME UNCHANGED <<queue, writer, handled, run, fSent>>,
             fOpen' \in {fOpen, [fOpen EXCEPT ![e] = FALSE]}
      PROVE  Carries
  <2>1. Carried(Owner)' \subseteq Carried(Owner)
    BY <1>1, <1>3, LinesOf, HandedOn DEF LinkInv, NothingAdded
  <2>2. \A x \in Executors : fOpen'[x] => fOpen[x]
    BY <1>3 DEF LinkInv, EndsTypeOK
  <2> QED
    BY <1>1, <1>3, <2>1, <2>2, HaltsCarry DEF ownerEnd, Serves
<1> QED
  BY <1>1, <1>2, <1>3 DEF HandToExecutor, StopLink

-----------------------------------------------------------------------------
(* The writers; a process that dies. *)
LEMMA TransportCarries ==
    ASSUME LinkInv, FlowInv, NEW l \in Lines, NEW s,
           \/ TakeBatch(l) /\ UNCHANGED <<up, ownerEnd, executorEnd, history, faults, downs>>
           \/ Retire(l) \/ Write(l, s) \/ Refuse(l, s) \/ CutLine(l, s)
    PROVE  Carries
<1>1. /\ run \in [Executors -> {"none", "running", "ending", "gone"}]
      /\ fOpen \in [Executors -> BOOLEAN] /\ OutboxInv
  BY DEF LinkInv, EndsTypeOK
<1>2. Carried(Owner)' \subseteq Carried(Owner)
  BY <1>1, TakeBatchKeeps, WriterKeeps, WriteBatchKeeps, RefuseBatchKeeps, CutWriterKeeps
     DEF Retire, Write, Refuse, CutLine, NothingAdded, Nodes
<1>3. CASE (TakeBatch(l) /\ UNCHANGED <<up, ownerEnd, executorEnd, history, faults, downs>>)
           \/ Retire(l)
  BY <1>2, <1>3, HaltsCarry DEF Retire, ownerEnd, executorEnd, history, Serves
<1>4. CASE Write(l, s)
  <2>1. ASSUME NEW e \in Executors
        PROVE  run'[e] = run[e] \/ (run'[e] = "gone" /\ run[e] = "ending")
    BY <1>4 DEF Write, TellWritten
  <2>2. \A e \in Executors : run[e] = "ending" => ~fOpen[e]
    BY DEF FlowInv, RunsTaken
  <2> QED
    BY <1>2, <1>4, <2>1, <2>2, HaltsCarry DEF Write, Silently, Serves
<1>5. CASE Refuse(l, s) \/ CutLine(l, s)
  <2>1. PICK ms : Tell(l, ms)
    BY <1>5 DEF Refuse, CutLine
  <2>2. UNCHANGED <<up, phase, why, fSeen, handled, fSent, ended>>
    BY <1>5 DEF Refuse, CutLine, Silently
  <2>3. CASE l[1] = Owner
    BY <1>2, <2>1, <2>2, <2>3, HaltsCarry DEF Tell, TellOwner, Serves
  <2>4. CASE l[1] # Owner
    <3>1. l[1] \in Executors /\ TellExecutor(l[1], ms) /\ delivered' = delivered
      BY <2>1, <2>4 DEF Tell, Lines, TellExecutor
    <3>2. ASSUME NEW e \in Executors
          PROVE  /\ fOpen'[e] => fOpen[e]
                 /\ run'[e] = run[e] \/ (run'[e] = "gone" /\ run[e] = "ending")
      BY <1>1, <3>1 DEF TellExecutor
    <3>3. \A e \in Executors : run[e] = "ending" => ~fOpen[e]
      BY DEF FlowInv, RunsTaken
    <3> QED
      BY <1>2, <2>2, <3>1, <3>2, <3>3, HaltsCarry DEF Serves
  <2> QED
    BY <2>3, <2>4
<1> QED
  BY <1>3, <1>4, <1>5

LEMMA CrashCarries ==
    ASSUME LinkInv, FlowInv, NEW p \in Nodes, Crash(p) PROVE Carries
<1>1. /\ run \in [Executors -> {"none", "running", "ending", "gone"}]
      /\ fOpen \in [Executors -> BOOLEAN]
      /\ up \in [Nodes -> {"up", "closing", "closed", "crashed"}]
  BY DEF LinkInv, EndsTypeOK
<1>2. Carried(Owner)' \subseteq Carried(Owner)
  BY LoseOutboxKeeps DEF Crash, LinkInv, NothingAdded, Nodes
<1>3. up' = [up EXCEPT ![p] = "crashed"] /\ UNCHANGED <<fSeen, why, ended>>
  BY DEF Crash, history
<1>4. \A e \in Executors : (e # p => up'[e] = up[e]) /\ (Serves(e)' => Serves(e))
  BY <1>1, <1>3, LinesOf DEF Serves
<1>5. CASE p = Owner
  <2>1. phase' = "over" /\ delivered' = <<>> /\ UNCHANGED <<handled, run, fOpen, fSent>>
    BY <1>5 DEF Crash, Forget, executorEnd
  <2>2. CASE phase = "over"
    BY <1>2, <1>3, <1>4, <2>1, <2>2, HaltsCarry
  <2>3. CASE phase # "over"
    <3>1. why' # "done"
      BY <1>3, <2>3 DEF FlowInv, ReadsSent
    <3>2. \A e \in Executors : up'[e] = up[e]
      BY <1>4, <1>5, OutboxAssumption
    <3> QED
      BY <1>2, <1>3, <2>1, <2>3, <3>1, <3>2, GoneCarries
  <2> QED
    BY <2>2, <2>3
<1>6. CASE p # Owner
  <2>1. /\ p \in Executors /\ UNCHANGED <<handled, fSent, phase, delivered>>
        /\ run' = [run EXCEPT ![p] = IF @ = "none" THEN @ ELSE "gone"]
        /\ fOpen' = [fOpen EXCEPT ![p] = FALSE]
    BY <1>6 DEF Crash, Nodes
  <2>2. ASSUME NEW e \in Executors
        PROVE  /\ fOpen'[e] => fOpen[e]
               /\ run'[e] = run[e] \/ (run'[e] = "gone" /\ run[e] # "none" /\ ~fOpen'[e])
    BY <1>1, <2>1
  <2> QED
    BY <1>2, <1>3, <1>4, <2>1, <2>2, HaltsCarry
<1> QED
  BY <1>5, <1>6

LEMMA StepCarries ==
    ASSUME LinkInv, FlowInv, [Next]_vars PROVE Carries
<1>1. CASE Owns
  BY <1>1, AsksCarry, GivenUpCarries, ReadCarries DEF Owns
<1>2. CASE SendControl \/ GiveUp
  BY <1>2, AsksCarry, GivenUpCarries
<1>3. ASSUME NEW e \in Executors, SendFrame(e) \/ Runs(e) \/ EndUnwritten(e) PROVE Carries
  BY <1>3, SendFrameCarries, FinishTurnCarries, ExecutorEndsCarry DEF Runs
<1>4. ASSUME NEW p \in Nodes, HandOn(p) PROVE Carries
  BY <1>4, HandToOwnerCarries, HandToExecutorCarries DEF Nodes
<1>5. ASSUME NEW l \in Lines, Transport(l) \/ Retire(l) PROVE Carries
  BY <1>5, TransportCarries DEF Transport
<1>6. CASE Leaves
  <2>1. ASSUME NEW e \in Executors, Close(e) \/ StopReading(e) PROVE Carries
    BY <2>1, ExecutorEndsCarry
  <2>2. ASSUME NEW l \in Lines, NEW part, CutLine(l, part) PROVE Carries
    BY <2>2, TransportCarries
  <2> QED
    BY <1>6, <2>1, <2>2, CrashCarries DEF Leaves
<1>7. CASE UNCHANGED vars
  BY <1>7, QuietCarried, HaltsCarry DEF vars, ownerEnd, executorEnd, history, Serves
<1> QED
  BY <1>1, <1>2, <1>3, <1>4, <1>5, <1>6, <1>7 DEF Next

LEMMA FlowStarts == Init => FlowInv /\ Promise!Init
<1> SUFFICES ASSUME Init PROVE FlowInv /\ Promise!Init
  OBVIOUS
<1>1. Carried(Owner) = {} /\ Elements(delivered) = {}
  BY OutboxStarts, EmptyElements DEF Init, Nodes
<1>2. FlowInv
  BY <1>1 DEF Init, FlowInv, FramesSent, RunsTaken, ReadsSent
<1>3. Runner = NoExecutor
  BY DEF Init, Runner
<1>4. Promise!Init
  BY <1>3 DEF Init, Fate, Promise!Init
<1> QED
  BY <1>2, <1>4

(* The link does what turns/base.py promises of a turn: what the owner     *)
(* reads is what one executor sent, one by one and without a gap, and a    *)
(* turn is done only once its end was read (RedisTurnLink, MessageOrder).  *)
THEOREM LinkImplements == Spec => Promise!Safe
<1>1. LinkInv /\ FlowInv /\ [Next]_vars => FlowInv' /\ [Promise!Next]_(Promise!vars)
  BY StepCarries DEF Carries
<1> QED
  BY <1>1, FlowStarts, LinkInvariant, PTL DEF Spec, Promise!Safe
-----------------------------------------------------------------------------
(* What is behind GapMeansRefusal: what is numbered at one end reaches the *)
(* other one behind the other, unless one was refused.                     *)

Controls == {"control"}

(* What the owner has of the frames: those it admitted, and those its link *)
(* was handed.                                                             *)
Has == 0 .. fSeen \cup Nums(FrameKinds, delivered)

FrameOrder(e) ==
    LET l == ToOwner(e)
    IN  /\ Steady(FrameKinds, delivered, 0 .. fSeen)
        /\ Along(FrameKinds, inbox[Owner], flight[l], queue[l], Has)
        /\ fOpen[e] => fSent[e] \in Has \cup
              Underway(FrameKinds, inbox[Owner], flight[l], queue[l])

ControlOrder(e) ==
    LET l == ToExecutor(e)
    IN  /\ Along(Controls, inbox[e], flight[l], queue[l], 0 .. cSeen[e])
        /\ phase = "reading" /\ target = e => cSent \in 0 .. cSeen[e] \cup
              Underway(Controls, inbox[e], flight[l], queue[l])

FramesWatched(e) == handled[e] = "taken" /\ phase # "over" /\ ToOwner(e) \notin refusals
ControlsWatched(e) == run[e] = "running" /\ Serves(e) /\ ToExecutor(e) \notin refusals

FramesInOrder == \A e \in Executors : FramesWatched(e) => FrameOrder(e)
ControlsInOrder == \A e \in Executors : ControlsWatched(e) => ControlOrder(e)

(* Only who took the turn sends frames, only its owner's line to it has    *)
(* controls; what is written again is answers.                             *)
OfTheTurn ==
    /\ \A l \in Lines : \A m \in Elements(again[l]) : ~Once(m)
    /\ \A e \in Executors :
          /\ \A m \in OnLine(ToOwner(e)) : m.kind \in FrameKinds => handled[e] = "taken"
          /\ \A m \in Carried(e) : m.kind \in Controls => handled[e] = "taken"

(* The owner reads of an executor that took the turn, as it was told. *)
TakenAsTold ==
    /\ phase = "reading" => handled[target] = "taken"
    /\ answer = "taken" => target \in Executors /\ handled[target] = "taken"
    /\ \A m \in Carried(Owner) : m.kind = "taken" => handled[m.n] = "taken"
    /\ phase \in {"placing", "asking"} => cSent = 0
    /\ phase \in {"asking", "reading"} => linked

(* Who closed or died takes no part; without its owner the turn is over. *)
ShutServes ==
    /\ \A p \in shut : ~Serves(p)
    /\ ~OwnerUp => phase = "over"
    /\ Owner \in gaps => phase = "over" /\ ToOwner(target) \in refusals
    /\ \A e \in gaps \ {Owner} : ToExecutor(e) \in refusals

OrderInv == FramesInOrder /\ ControlsInOrder /\ OfTheTurn /\ TakenAsTold /\ ShutServes

LEMMA AlongOn ==
    ASSUME NEW kinds, NEW b1, NEW f1, NEW q1, NEW b2, NEW f2, NEW q2,
           Keeps(kinds, b1, f1, q1, b2, f2, q2), NEW S, Along(kinds, b1, f1, q1, S)
    PROVE  /\ Along(kinds, b2, f2, q2, S)
           /\ S \cup Underway(kinds, b1, f1, q1) \subseteq S \cup Underway(kinds, b2, f2, q2)
BY DEF Keeps, Orders

(* A step that neither adds nor loses anything numbered on the lines to    *)
(* the owner; on those to the executors.                                   *)
FramesCalm ==
    \A e \in Executors :
        LET l == ToOwner(e)
        IN  FramesWatched(e) /\ FramesWatched(e)' =>
               /\ Orders(FrameKinds, inbox[Owner], flight[l], queue[l],
                         inbox'[Owner], flight'[l], queue'[l])
               /\ fOpen'[e] => Keeps(FrameKinds, inbox[Owner], flight[l], queue[l],
                                     inbox'[Owner], flight'[l], queue'[l])

ControlsCalm ==
    \A e \in Executors :
        LET l == ToExecutor(e)
        IN  ControlsWatched(e) /\ ControlsWatched(e)' =>
               Keeps(Controls, inbox[e], flight[l], queue[l],
                     inbox'[e], flight'[l], queue'[l])

(* What a step adds to the lines is of an executor that took the turn.     *)
TurnCalm ==
    /\ \A l \in Lines : \A m \in Elements(again'[l]) : m \in Elements(again[l]) \/ ~Once(m)
    /\ \A e \in Executors :
          /\ \A m \in OnLine(ToOwner(e))' :
                m \in OnLine(ToOwner(e)) \/ m.kind \notin FrameKinds \/ handled'[e] = "taken"
          /\ \A m \in Carried(e)' :
                m \in Carried(e) \/ m.kind \notin Controls \/ handled'[e] = "taken"

LEMMA FramesKept ==
    ASSUME FramesInOrder, EndsTypeOK, refusals \subseteq refusals',
           \A e \in Executors : handled'[e] = "taken" => handled[e] = "taken",
           \A e \in Executors : fOpen'[e] => fOpen[e] /\ fSent'[e] = fSent[e],
           phase' # "over" => /\ phase # "over" /\ fSeen' = fSeen
                              /\ delivered' \in {delivered, Append(delivered, Gone)},
           FramesCalm
    PROVE  FramesInOrder'
<1>1. SUFFICES ASSUME NEW e \in Executors, FramesWatched(e)' PROVE FrameOrder(e)'
  BY DEF FramesInOrder
<1>2. FramesWatched(e) /\ FrameOrder(e)
  BY <1>1 DEF FramesInOrder, FramesWatched
<1>3. fSeen' = fSeen /\ delivered' \in {delivered, Append(delivered, Gone)}
  BY <1>1 DEF FramesWatched
<1>4. /\ Nums(FrameKinds, delivered') = Nums(FrameKinds, delivered)
      /\ \A S : Steady(FrameKinds, delivered, S) => Steady(FrameKinds, delivered', S)
  <2> DEFINE M == Messages \cup {Gone}
  <2>1. delivered \in Seq(M) /\ Gone \in M /\ Gone.kind \notin FrameKinds
    BY DEF EndsTypeOK, Gone, Msg, FrameKinds
  <2> HIDE DEF M
  <2>2. Nums(FrameKinds, Append(delivered, Gone)) =
           Nums(FrameKinds, delivered) \cup (IF Gone.kind \in FrameKinds THEN {Gone.n} ELSE {})
    BY <2>1, SteadyAppend
  <2>3. \A S : Steady(FrameKinds, Append(delivered, Gone), S) <=>
           /\ Steady(FrameKinds, delivered, S)
           /\ Gone.kind \in FrameKinds => Gone.n - 1 \in S \cup Nums(FrameKinds, delivered)
    BY <2>1, SteadyAppend
  <2> QED
    BY <1>3, <2>1, <2>2, <2>3
<1>5. Steady(FrameKinds, delivered', 0 .. fSeen')
  BY <1>2, <1>3, <1>4 DEF FrameOrder
<1>6. Has' = Has
  BY <1>3, <1>4 DEF Has
<1> DEFINE l == ToOwner(e)
<1>7. Along(FrameKinds, inbox'[Owner], flight'[l], queue'[l], Has)
  BY <1>1, <1>2 DEF FramesCalm, FrameOrder, Orders
<1>8. ASSUME fOpen'[e]
      PROVE  fSent'[e] \in Has \cup Underway(FrameKinds, inbox'[Owner], flight'[l], queue'[l])
  <2>1. Keeps(FrameKinds, inbox[Owner], flight[l], queue[l], inbox'[Owner], flight'[l], queue'[l])
    BY <1>1, <1>2, <1>8 DEF FramesCalm
  <2>2. Underway(FrameKinds, inbox[Owner], flight[l], queue[l])
            \subseteq Underway(FrameKinds, inbox'[Owner], flight'[l], queue'[l])
    BY <2>1 DEF Keeps
  <2> QED
    BY <1>2, <1>8, <2>2 DEF FrameOrder
<1> QED
  BY <1>5, <1>6, <1>7, <1>8 DEF FrameOrder

LEMMA ControlsKept ==
    ASSUME ControlsInOrder, refusals \subseteq refusals',
           \A e \in Executors : Serves(e)' => Serves(e),
           \A e \in Executors : run'[e] = "running" => run[e] = "running" /\ cSeen'[e] = cSeen[e],
           \A e \in Executors : phase' = "reading" /\ target' = e =>
               cSent' \in 0 .. cSeen[e] \/ (phase = "reading" /\ target = e /\ cSent' = cSent),
           ControlsCalm
    PROVE  ControlsInOrder'
<1>1. SUFFICES ASSUME NEW e \in Executors, ControlsWatched(e)' PROVE ControlOrder(e)'
  BY DEF ControlsInOrder
<1>2. ControlsWatched(e) /\ ControlOrder(e)
  BY <1>1 DEF ControlsInOrder, ControlsWatched
<1>3. cSeen'[e] = cSeen[e]
  BY <1>1 DEF ControlsWatched
<1> DEFINE l == ToExecutor(e)
<1>4. /\ Along(Controls, inbox'[e], flight'[l], queue'[l], 0 .. cSeen[e])
      /\ 0 .. cSeen[e] \cup Underway(Controls, inbox[e], flight[l], queue[l])
            \subseteq 0 .. cSeen[e] \cup Underway(Controls, inbox'[e], flight'[l], queue'[l])
  <2>1. Keeps(Controls, inbox[e], flight[l], queue[l], inbox'[e], flight'[l], queue'[l])
    BY <1>1, <1>2 DEF ControlsCalm
  <2>2. Along(Controls, inbox[e], flight[l], queue[l], 0 .. cSeen[e])
    BY <1>2 DEF ControlOrder
  <2> DEFINE S == 0 .. cSeen[e]
  <2> HIDE DEF S, l
  <2> SUFFICES /\ Along(Controls, inbox'[e], flight'[l], queue'[l], S)
               /\ S \cup Underway(Controls, inbox[e], flight[l], queue[l])
                     \subseteq S \cup Underway(Controls, inbox'[e], flight'[l], queue'[l])
    BY DEF S
  <2>3. Along(Controls, inbox[e], flight[l], queue[l], S)
    BY <2>2 DEF S
  <2> QED
    BY <2>1, <2>3, AlongOn
<1>5. phase' = "reading" /\ target' = e => cSent' \in 0 .. cSeen[e] \cup
         Underway(Controls, inbox'[e], flight'[l], queue'[l])
  BY <1>2, <1>4 DEF ControlOrder
<1> QED
  BY <1>3, <1>4, <1>5 DEF ControlOrder

LEMMA OfTheTurnKept ==
    ASSUME OfTheTurn, TurnCalm, \A e \in Executors : handled[e] = "taken" => handled'[e] = "taken"
    PROVE  OfTheTurn'
<1>1. \A l \in Lines : Elements(again[l])' = Elements(again'[l])
  BY DEF Elements
<1>2. \A l \in Lines : \A m \in Elements(again[l])' : ~Once(m)
  BY <1>1 DEF OfTheTurn, TurnCalm
<1>3. ASSUME NEW e \in Executors
      PROVE  /\ \A m \in OnLine(ToOwner(e))' : m.kind \in FrameKinds => handled'[e] = "taken"
             /\ \A m \in Carried(e)' : m.kind \in Controls => handled'[e] = "taken"
  BY DEF OfTheTurn, TurnCalm
<1> QED
  BY <1>2, <1>3 DEF OfTheTurn, ToOwner, Once

(* What a message posted leaves calm. *)
LEMMA KeepsPost ==
    ASSUME OutboxTypeOK, NEW kinds, NEW w \in Lines, NEW l \in Lines, NEW m \in Messages,
           Post(l, m), flight' = flight, inbox'[w[2]] = inbox[w[2]],
           l = w => m.kind \notin kinds
    PROVE  Keeps(kinds, inbox[w[2]], flight[w], queue[w], inbox'[w[2]], flight'[w], queue'[w])
<1> DEFINE p == w[2]
<1>1. queue \in [Lines -> Seq(Messages)] /\ queue[w] \in Seq(Messages)
  BY DEF OutboxTypeOK
<1>2. queue'[w] = queue[w] \/ (l = w /\ queue'[w] = Append(queue[w], m))
  BY <1>1 DEF Post
<1>3. ASSUME l = w
      PROVE  Keeps(kinds, inbox[p], flight[w], queue[w],
                   inbox[p], flight[w], Append(queue[w], m))
  <2>1. m.kind \notin kinds
    BY <1>3
  <2>2. Nums(kinds, Append(queue[w], m)) =
           Nums(kinds, queue[w]) \cup (IF m.kind \in kinds THEN {m.n} ELSE {})
    BY <1>1, SteadyAppend
  <2>3. \A X : Steady(kinds, Append(queue[w], m), X) <=>
                  /\ Steady(kinds, queue[w], X)
                  /\ m.kind \in kinds => m.n - 1 \in X \cup Nums(kinds, queue[w])
    BY <1>1, SteadyAppend
  <2>4. /\ Nums(kinds, Append(queue[w], m)) = Nums(kinds, queue[w])
        /\ \A X : Steady(kinds, queue[w], X) => Steady(kinds, Append(queue[w], m), X)
    BY <2>1, <2>2, <2>3
  <2> HIDE DEF p
  <2> QED
    BY <2>4 DEF Keeps, Orders, Along, Underway
<1>4. Keeps(kinds, inbox[p], flight[w], queue[w], inbox[p], flight[w], queue[w])
  BY KeepsAll
<1> QED
  BY <1>2, <1>3, <1>4

LEMMA PostCalm ==
    ASSUME LinkInv, NEW l \in Lines, NEW m \in Messages, Post(l, m), UNCHANGED OutboxButPost
    PROVE  /\ m.kind \notin FrameKinds => FramesCalm
           /\ m.kind \notin Controls => ControlsCalm
           /\ ((\E e \in Executors : l = ToOwner(e) /\ handled'[e] = "taken")
                 \/ m.kind \notin FrameKinds)
               /\ ((\E e \in Executors : l = ToExecutor(e) /\ handled'[e] = "taken")
                     \/ m.kind \notin Controls)
               => TurnCalm
<1>1. OutboxInv /\ OutboxTypeOK /\ UNCHANGED <<again, flight, shut, inbox>>
  BY DEF LinkInv, OutboxInv, OutboxButPost
<1>2. ASSUME m.kind \notin FrameKinds PROVE FramesCalm
  <2>1. ASSUME NEW e \in Executors
        PROVE  Keeps(FrameKinds, inbox[Owner], flight[ToOwner(e)], queue[ToOwner(e)],
                     inbox'[Owner], flight'[ToOwner(e)], queue'[ToOwner(e)])
    <3>1. ASSUME NEW w \in Lines, w[2] = Owner
          PROVE  Keeps(FrameKinds, inbox[Owner], flight[w], queue[w],
                       inbox'[Owner], flight'[w], queue'[w])
      <4>1. Keeps(FrameKinds, inbox[w[2]], flight[w], queue[w],
                  inbox'[w[2]], flight'[w], queue'[w])
        BY <1>1, <1>2, KeepsPost
      <4> QED
        BY <3>1, <4>1
    <3> QED
      BY <3>1, LinesOf
  <2> QED
    BY <2>1 DEF FramesCalm, Keeps
<1>3. ASSUME m.kind \notin Controls PROVE ControlsCalm
  <2>1. ASSUME NEW e \in Executors
        PROVE  Keeps(Controls, inbox[e], flight[ToExecutor(e)], queue[ToExecutor(e)],
                     inbox'[e], flight'[ToExecutor(e)], queue'[ToExecutor(e)])
    <3>1. ASSUME NEW w \in Lines, w[2] = e
          PROVE  Keeps(Controls, inbox[e], flight[w], queue[w],
                       inbox'[e], flight'[w], queue'[w])
      <4>1. Keeps(Controls, inbox[w[2]], flight[w], queue[w],
                  inbox'[w[2]], flight'[w], queue'[w])
        BY <1>1, <1>3, KeepsPost
      <4> QED
        BY <3>1, <4>1
    <3> QED
      BY <3>1, LinesOf
  <2> QED
    BY <2>1 DEF ControlsCalm
<1>4. /\ \A k \in Lines : k # l => OnLine(k)' \subseteq OnLine(k)
      /\ OnLine(l)' \subseteq OnLine(l) \cup {m}
      /\ \A p \in Nodes : p # l[2] => Carried(p)' \subseteq Carried(p)
      /\ Carried(l[2])' \subseteq Carried(l[2]) \cup {m}
  BY <1>1, PostKeeps, PostOnly
<1>5. ASSUME \/ \E e \in Executors : l = ToOwner(e) /\ handled'[e] = "taken"
             \/ m.kind \notin FrameKinds,
             \/ \E e \in Executors : l = ToExecutor(e) /\ handled'[e] = "taken"
             \/ m.kind \notin Controls
      PROVE  TurnCalm
  <2>1. ASSUME NEW e \in Executors, NEW x \in OnLine(ToOwner(e))'
        PROVE  x \in OnLine(ToOwner(e)) \/ x.kind \notin FrameKinds \/ handled'[e] = "taken"
    <3>1. CASE ToOwner(e) = l
      <4>1. \A f \in Executors : l = ToOwner(f) => f = e
        BY <3>1 DEF ToOwner
      <4> QED
        BY <1>4, <1>5, <2>1, <3>1, <4>1
    <3>2. CASE ToOwner(e) # l
      BY <1>4, <2>1, <3>2, LinesOf
    <3> QED
      BY <3>1, <3>2
  <2>2. ASSUME NEW e \in Executors, NEW x \in Carried(e)'
        PROVE  x \in Carried(e) \/ x.kind \notin Controls \/ handled'[e] = "taken"
    <3>1. CASE l[2] = e
      <4>1. \A f \in Executors : l = ToExecutor(f) => f = e
        BY <3>1, LinesOf
      <4> QED
        BY <1>4, <1>5, <2>2, <3>1, <4>1
    <3>2. CASE l[2] # e
      BY <1>4, <2>2, <3>2, LinesOf
    <3> QED
      BY <3>1, <3>2
  <2> QED
    BY <1>1, <2>1, <2>2 DEF TurnCalm
<1> QED
  BY <1>2, <1>3, <1>5

LEMMA QuietCalm ==
    ASSUME LinkInv, UNCHANGED outbox
    PROVE  FramesCalm /\ ControlsCalm /\ TurnCalm
<1>1. UNCHANGED <<queue, again, flight, inbox>>
  BY DEF outbox
<1>2. NothingAdded
  BY QuietOutbox DEF LinkInv
<1>3. FramesCalm /\ ControlsCalm
  BY <1>1, KeepsAll DEF FramesCalm, ControlsCalm, Keeps
<1>4. TurnCalm
  BY <1>1, <1>2, LinesOf DEF TurnCalm, NothingAdded
<1> QED
  BY <1>3, <1>4
-----------------------------------------------------------------------------
(* The owner's steps. *)
LEMMA NoneTaken ==
    ASSUME LinkInv, phase = "placing" \/ (target \in Executors /\ handled[target] # "taken")
    PROVE  \A e \in Executors : handled[e] # "taken"
BY LinkAssumption DEF LinkInv, AskedInTurn

LEMMA AskOrder ==
    ASSUME LinkInv, OrderInv, NEW e \in Executors, Ask(e) PROVE OrderInv'
<1> DEFINE m == Msg("request", 0)
<1>1. m \in Messages /\ m.kind \notin FrameKinds /\ m.kind \notin Controls
  BY DEF Msg, Messages, FrameKinds, Controls
<1>2. /\ Post(ToExecutor(e), m) /\ UNCHANGED OutboxButPost /\ ToExecutor(e) \in Lines
      /\ OwnerUp /\ phase = "placing" /\ phase' = "asking" /\ linked'
      /\ UNCHANGED <<up, answer, cSent, delivered, fSeen, handled, run, fOpen, fSent, cSeen,
                     gaps, refusals, shut>>
  BY LinesOf DEF Ask, executorEnd, history, OutboxButPost
<1> HIDE DEF m
<1>3. FramesCalm /\ ControlsCalm /\ TurnCalm
  BY <1>1, <1>2, PostCalm
<1>4. Carried(Owner)' \subseteq Carried(Owner)
  BY <1>1, <1>2, PostedAway
<1>5. FramesInOrder'
  BY <1>2, <1>3, FramesKept DEF LinkInv, OrderInv
<1>6. ControlsInOrder'
  BY <1>2, <1>3, ControlsKept DEF OrderInv, Serves
<1>7. OfTheTurn'
  BY <1>2, <1>3, OfTheTurnKept DEF OrderInv
<1>8. TakenAsTold'
  BY <1>2, <1>4 DEF OrderInv, TakenAsTold, LinkInv, AskedInTurn
<1>9. ShutServes'
  BY <1>2 DEF OrderInv, ShutServes, OwnerUp, Serves
<1> QED
  BY <1>5, <1>6, <1>7, <1>8, <1>9 DEF OrderInv

LEMMA TakenOrder == ASSUME LinkInv, OrderInv, Taken PROVE OrderInv'
<1>1. /\ UNCHANGED outbox /\ OwnerUp /\ phase = "asking" /\ answer = "taken" /\ phase' = "reading"
      /\ UNCHANGED <<up, target, answer, linked, cSent, delivered, fSeen, handled, run, fOpen,
                     fSent, cSeen, gaps, refusals, shut>>
  BY DEF Taken, executorEnd, history, outbox
<1>2. FramesCalm /\ ControlsCalm /\ TurnCalm /\ NothingAdded
  BY <1>1, QuietCalm, QuietOutbox DEF LinkInv
<1>3. FramesInOrder'
  BY <1>1, <1>2, FramesKept DEF LinkInv, OrderInv
<1>4. ControlsInOrder'
  <2>1. \A e \in Executors : cSent' \in 0 .. cSeen[e]
    BY <1>1 DEF OrderInv, TakenAsTold, LinkInv, EndsTypeOK
  <2> QED
    BY <1>1, <1>2, <2>1, ControlsKept DEF OrderInv, Serves
<1>5. OfTheTurn'
  BY <1>1, <1>2, OfTheTurnKept DEF OrderInv
<1>6. TakenAsTold'
  BY <1>1, <1>2 DEF OrderInv, TakenAsTold, NothingAdded, Nodes
<1>7. ShutServes'
  BY <1>1 DEF OrderInv, ShutServes, OwnerUp, Serves
<1> QED
  BY <1>3, <1>4, <1>5, <1>6, <1>7 DEF OrderInv

LEMMA RefusedOrder == ASSUME LinkInv, OrderInv, Refused PROVE OrderInv'
<1>1. /\ UNCHANGED outbox /\ OwnerUp /\ phase = "asking" /\ answer = "refused"
      /\ phase' = "placing" /\ answer' = "none"
      /\ UNCHANGED <<up, target, cSent, handled, run, cSeen, gaps, refusals, shut>>
  BY DEF Refused, executorEnd, history, outbox
<1>2. ControlsCalm /\ TurnCalm /\ NothingAdded
  BY <1>1, QuietCalm, QuietOutbox DEF LinkInv
<1>3. FramesInOrder'
  <2>1. \A e \in Executors : handled'[e] # "taken"
    BY <1>1, NoneTaken DEF LinkInv, AskedInTurn
  <2> QED
    BY <2>1 DEF FramesInOrder, FramesWatched
<1>4. ControlsInOrder'
  BY <1>1, <1>2, ControlsKept DEF OrderInv, Serves
<1>5. OfTheTurn'
  BY <1>1, <1>2, OfTheTurnKept DEF OrderInv
<1>6. TakenAsTold'
  BY <1>1, <1>2 DEF OrderInv, TakenAsTold, NothingAdded, Nodes
<1>7. ShutServes'
  BY <1>1 DEF OrderInv, ShutServes, OwnerUp, Serves
<1> QED
  BY <1>3, <1>4, <1>5, <1>6, <1>7 DEF OrderInv

(* A step by which the turn is over for its owner. *)
LEMMA OverOrder ==
    ASSUME LinkInv, OrderInv, phase' = "over", answer' = "none",
           \/ UNCHANGED <<queue, writer>>
           \/ target \in Executors /\ Post(ToExecutor(target), Msg("released", 0)),
           UNCHANGED <<OutboxButPost, up, target, executorEnd, refusals>>,
           gaps' = gaps \/ (gaps' = gaps \cup {Owner} /\ ToOwner(target) \in refusals)
    PROVE  OrderInv'
<1> DEFINE m == Msg("released", 0)
<1>1. m \in Messages /\ m.kind \notin FrameKinds /\ m.kind \notin Controls
  BY DEF Msg, Messages, FrameKinds, Controls
<1> HIDE DEF m
<1>2. FramesCalm /\ ControlsCalm /\ TurnCalm /\ Carried(Owner)' \subseteq Carried(Owner)
  <2>1. CASE UNCHANGED <<queue, writer>>
    <3>1. UNCHANGED outbox
      BY <2>1 DEF outbox, OutboxButPost
    <3> QED
      BY <3>1, QuietCalm, QuietCarried
  <2>2. CASE target \in Executors /\ Post(ToExecutor(target), m)
    BY <1>1, <2>2, LinesOf, PostCalm, PostedAway
  <2> QED
    BY <2>1, <2>2 DEF m
<1>3. UNCHANGED <<handled, run, fOpen, fSent, cSeen, shut>>
  BY DEF executorEnd, OutboxButPost
<1>4. FramesInOrder'
  BY DEF FramesInOrder, FramesWatched
<1>5. ControlsInOrder'
  BY <1>2, <1>3, ControlsKept DEF OrderInv, Serves
<1>6. OfTheTurn'
  BY <1>2, <1>3, OfTheTurnKept DEF OrderInv
<1>7. TakenAsTold'
  BY <1>2, <1>3 DEF OrderInv, TakenAsTold
<1>8. ShutServes'
  BY <1>3 DEF OrderInv, ShutServes, OwnerUp, Serves
<1> QED
  BY <1>4, <1>5, <1>6, <1>7, <1>8 DEF OrderInv

LEMMA GivenUpOrder ==
    ASSUME LinkInv, OrderInv, NonePlaced \/ Unanswered \/ GiveUp \/ Silence PROVE OrderInv'
<1>1. phase \in {"asking", "reading"} => target \in Executors
  BY DEF LinkInv, AskedInTurn
<1> QED
  BY <1>1, OverOrder DEF NonePlaced, Unanswered, GiveUp, Silence, LetGo, Forget, history,
                         outbox, OutboxButPost

(* A control numbered behind the one before it. *)
LEMMA SendControlOrder == ASSUME LinkInv, OrderInv, SendControl PROVE OrderInv'
<1> DEFINE m == Msg("control", cSent + 1)
           l == ToExecutor(target)
<1>1. /\ target \in Executors /\ cSent + 1 \in 1 .. MaxControls /\ cSent \in Nat
      /\ handled[target] = "taken"
  BY OutboxAssumption DEF SendControl, LinkInv, AskedInTurn, EndsTypeOK, OrderInv, TakenAsTold
<1>2. m \in Messages /\ m.kind = "control" /\ m.n = cSent + 1 /\ "control" \notin FrameKinds
      /\ m.n - 1 = cSent
  BY <1>1 DEF Msg, Messages, FrameKinds
<1>3. /\ Post(l, m) /\ UNCHANGED OutboxButPost /\ l \in Lines
      /\ OwnerUp /\ phase = "reading" /\ phase' = "reading" /\ cSent' = cSent + 1
      /\ UNCHANGED <<up, target, answer, linked, delivered, fSeen, handled, run, fOpen, fSent,
                     cSeen, gaps, refusals, shut, flight, inbox>>
  BY <1>1, LinesOf DEF SendControl, executorEnd, history, OutboxButPost
<1> HIDE DEF m
<1>4. FramesCalm /\ TurnCalm /\ Carried(Owner)' \subseteq Carried(Owner)
  BY <1>1, <1>2, <1>3, PostCalm, PostedAway
<1>5. FramesInOrder'
  BY <1>3, <1>4, FramesKept DEF LinkInv, OrderInv
<1>6. ASSUME NEW e \in Executors, ControlsWatched(e)' PROVE ControlOrder(e)'
  <2>1. ControlsWatched(e) /\ ControlOrder(e)
    BY <1>3, <1>6 DEF ControlsWatched, Serves, OrderInv, ControlsInOrder
  <2>2. queue \in [Lines -> Seq(Messages)] /\ ToExecutor(e) \in Lines
    BY LinesOf DEF LinkInv, OutboxInv, OutboxTypeOK
  <2>3. CASE e # target
    <3>1. ToExecutor(e) # l
      BY <2>3 DEF ToExecutor
    <3>2. queue'[ToExecutor(e)] = queue[ToExecutor(e)]
      BY <1>3, <2>2, <3>1 DEF Post
    <3> QED
      BY <1>3, <2>1, <2>3, <3>2 DEF ControlOrder
  <2>4. CASE e = target
    <3>1. Owner \notin shut
      BY <1>3 DEF OrderInv, ShutServes, Serves, OwnerUp
    <3>2. queue'[l] = Append(queue[l], m) /\ queue[l] \in Seq(Messages)
      BY <1>3, <2>2, <2>4, <3>1 DEF Post, ToExecutor
    <3> DEFINE S == 0 .. cSeen[e]
    <3>3. /\ Along(Controls, inbox[e], flight[l], queue[l], S)
          /\ cSent \in S \cup Underway(Controls, inbox[e], flight[l], queue[l])
      BY <1>3, <2>1, <2>4 DEF ControlOrder
    <3> HIDE DEF S, l
    <3>4. /\ Along(Controls, inbox[e], flight[l], Append(queue[l], m), S)
          /\ m.kind \in Controls =>
                m.n \in Underway(Controls, inbox[e], flight[l], Append(queue[l], m))
      BY <1>2, <3>2, <3>3, AlongPost
    <3>5. cSent + 1 \in Underway(Controls, inbox[e], flight[l], Append(queue[l], m))
      BY <1>2, <3>4 DEF Controls
    <3> QED
      BY <1>3, <2>4, <3>2, <3>4, <3>5 DEF ControlOrder, S, l
  <2> QED
    BY <2>3, <2>4
<1>7. OfTheTurn'
  BY <1>3, <1>4, OfTheTurnKept DEF OrderInv
<1>8. TakenAsTold'
  BY <1>3, <1>4 DEF OrderInv, TakenAsTold
<1>9. ShutServes'
  BY <1>3 DEF OrderInv, ShutServes, OwnerUp, Serves
<1> QED
  BY <1>5, <1>6, <1>7, <1>8, <1>9 DEF OrderInv, ControlsInOrder

(* The owner reads: what comes next is the frame behind the last. *)
LEMMA ReadOrder == ASSUME LinkInv, OrderInv, Read PROVE OrderInv'
<1> DEFINE m == Head(delivered)
           e == target
<1>1. /\ OwnerUp /\ phase = "reading" /\ delivered # <<>> /\ e \in Executors
      /\ handled[e] = "taken" /\ delivered \in Seq(Messages \cup {Gone}) /\ fSeen \in Nat
      /\ UNCHANGED <<OutboxButPost, up, target, executorEnd, refusals>>
      /\ UNCHANGED <<handled, run, fOpen, fSent, cSeen, shut, again, flight, inbox>>
  BY OutboxAssumption DEF Read, LinkInv, AskedInTurn, EndsTypeOK, OrderInv, TakenAsTold,
                          executorEnd, OutboxButPost
<1>2. /\ m \in Messages \cup {Gone} /\ Tail(delivered) \in Seq(Messages \cup {Gone})
      /\ m.kind \in FrameKinds => m.n \in Nat
      /\ Nums(FrameKinds, delivered) = Nums(FrameKinds, <<m>>) \cup Nums(FrameKinds, Tail(delivered))
      /\ \A S : Steady(FrameKinds, delivered, S) <=>
                  /\ m.kind \in FrameKinds => m.n - 1 \in S
                  /\ Steady(FrameKinds, Tail(delivered), S \cup Nums(FrameKinds, <<m>>))
      /\ Nums(FrameKinds, <<m>>) = IF m.kind \in FrameKinds THEN {m.n} ELSE {}
  <2> DEFINE M == Messages \cup {Gone}
  <2>1. delivered \in Seq(M)
    BY <1>1
  <2> HIDE DEF M
  <2>2. /\ m \in M /\ Tail(delivered) \in Seq(M)
        /\ Nums(FrameKinds, delivered)
              = Nums(FrameKinds, <<m>>) \cup Nums(FrameKinds, Tail(delivered))
    BY <1>1, <2>1, SteadyTail
  <2>3. \A S : Steady(FrameKinds, delivered, S) <=>
                  /\ m.kind \in FrameKinds => m.n - 1 \in S
                  /\ Steady(FrameKinds, Tail(delivered), S \cup Nums(FrameKinds, <<m>>))
    BY <1>1, <2>1, SteadyTail
  <2>4. Nums(FrameKinds, <<m>>) = IF m.kind \in FrameKinds THEN {m.n} ELSE {}
    BY SteadyOne
  <2>5. m \in Messages \cup {Gone}
    BY <2>2 DEF M
  <2>6. m.kind \in FrameKinds => m.n \in Nat
    BY <2>5, MessageKinds, OutboxAssumption DEF Gone, Msg, FrameKinds
  <2> QED
    BY <2>2, <2>3, <2>4, <2>5, <2>6 DEF M
<1> HIDE DEF m
<1>3. CASE /\ ReadsOn(m) /\ fSeen' = IF Skipped(m) THEN fSeen ELSE m.n
           /\ delivered' = Tail(delivered)
           /\ UNCHANGED <<phase, why, linked, answer, cOpen, cSent, queue, writer, gaps>>
  <2>1. UNCHANGED outbox
    BY <1>1, <1>3 DEF outbox
  <2>2. ControlsCalm /\ TurnCalm /\ NothingAdded
    BY <2>1, QuietCalm, QuietOutbox DEF LinkInv
  <2>3. /\ m.kind \in FrameKinds /\ m.n <= fSeen + 1 /\ m.n \in Nat
        /\ fSeen' = IF m.n <= fSeen THEN fSeen ELSE m.n
    BY <1>2, <1>3 DEF ReadsOn, Skipped
  <2>4. 0 .. fSeen' = 0 .. fSeen \cup {m.n}
    BY <1>1, <2>3
  <2>5. Has' = Has
    BY <1>2, <1>3, <2>3, <2>4 DEF Has
  <2>6. ASSUME NEW x \in Executors, FramesWatched(x)' PROVE FrameOrder(x)'
    <3>1. FrameOrder(x)
      BY <1>1, <1>3, <2>6 DEF FramesWatched, OrderInv, FramesInOrder
    <3>2. Steady(FrameKinds, delivered', 0 .. fSeen')
      BY <1>2, <1>3, <2>3, <2>4, <3>1 DEF FrameOrder
    <3> QED
      BY <1>1, <1>3, <2>5, <3>1, <3>2 DEF FrameOrder
  <2>7. ControlsInOrder'
    BY <1>1, <1>3, <2>2, ControlsKept DEF OrderInv, Serves
  <2>8. OfTheTurn'
    BY <1>1, <2>2, OfTheTurnKept DEF OrderInv
  <2>9. TakenAsTold'
    BY <1>1, <1>3, <2>2 DEF OrderInv, TakenAsTold, NothingAdded, Nodes
  <2>10. ShutServes'
    BY <1>1, <1>3 DEF OrderInv, ShutServes, OwnerUp, Serves
  <2> QED
    BY <2>6, <2>7, <2>8, <2>9, <2>10 DEF OrderInv, FramesInOrder
<1>4. CASE m.kind \in FrameKinds /\ m.n > fSeen + 1 /\ gaps' = gaps \cup {Owner}
           /\ LetGo("gap", FALSE)
  <2>1. ASSUME ToOwner(e) \notin refusals PROVE FALSE
    <3>1. FrameOrder(e)
      BY <1>1, <2>1 DEF FramesWatched, OrderInv, FramesInOrder
    <3>2. m.n - 1 \in 0 .. fSeen
      BY <1>2, <1>4, <3>1 DEF FrameOrder
    <3> QED
      BY <1>1, <1>2, <1>4, <3>2
  <2> QED
    BY <1>1, <1>4, <2>1, OverOrder DEF LetGo, Forget
<1>5. CASE \/ m.kind = "end" /\ LetGo("done", TRUE) /\ UNCHANGED gaps
           \/ LetGo("broken", FALSE) /\ UNCHANGED gaps
  BY <1>1, <1>5, OverOrder DEF LetGo, Forget
<1> QED
  BY <1>3, <1>4, <1>5 DEF Read, m
-----------------------------------------------------------------------------
(* The executors' steps. *)
LEMMA CarriedTyped ==
    ASSUME OutboxTypeOK, NEW p \in Nodes
    PROVE  Carried(p) \subseteq Messages
<1>1. \A s \in Seq(Messages) : Elements(s) \subseteq Messages
  BY DEF Elements
<1> QED
  BY <1>1 DEF OutboxTypeOK, Carried, OnLine

(* A step that sends nothing of the turn, reads nothing of it and takes    *)
(* nothing.                                                                *)
LEMMA HaltOrder ==
    ASSUME LinkInv, OrderInv, FramesCalm, ControlsCalm, TurnCalm,
           \A x \in Carried(Owner)' :
               x \in Carried(Owner) \/ x.kind # "taken" \/ handled'[x.n] = "taken",
           UNCHANGED <<phase, target, linked, cSent, fSeen, fSent, gaps>>,
           \A e \in Executors : handled'[e] = "taken" <=> handled[e] = "taken",
           answer' \in {answer, "failed"}, delivered' \in {delivered, Append(delivered, Gone)},
           refusals \subseteq refusals', up'[Owner] = up[Owner],
           \A e \in Executors : fOpen'[e] => fOpen[e],
           \A e \in Executors : Serves(e)' => Serves(e),
           \A e \in Executors : run'[e] = "running" => run[e] = "running" /\ cSeen'[e] = cSeen[e],
           \A p \in shut' : ~(Serves(p)')
    PROVE  OrderInv'
<1>1. FramesInOrder'
  BY FramesKept DEF LinkInv, OrderInv
<1>2. ControlsInOrder'
  BY ControlsKept DEF OrderInv
<1>3. OfTheTurn'
  BY OfTheTurnKept DEF OrderInv
<1>4. TakenAsTold'
  <2>1. \A m \in Carried(Owner) : m.kind = "taken" => m.n \in Executors
    BY CarriedTyped, MessageKinds DEF LinkInv, OutboxInv, Nodes
  <2>2. phase = "reading" => target \in Executors
    BY DEF LinkInv, AskedInTurn
  <2> QED
    BY <2>1, <2>2 DEF OrderInv, TakenAsTold
<1>5. ShutServes'
  BY DEF OrderInv, ShutServes, OwnerUp
<1> QED
  BY <1>1, <1>2, <1>3, <1>4, <1>5 DEF OrderInv

LEMMA ExecutorTypes ==
    ASSUME LinkInv
    PROVE  /\ run \in [Executors -> {"none", "running", "ending", "gone"}]
           /\ fOpen \in [Executors -> BOOLEAN] /\ fSent \in [Executors -> 0 .. MaxFrames + 1]
           /\ cSeen \in [Executors -> 0 .. MaxControls]
           /\ handled \in [Executors -> {"none", "taken", "refused"}]
           /\ up \in [Nodes -> {"up", "closing", "closed", "crashed"}]
           /\ queue \in [Lines -> Seq(Messages)] /\ flight \in [Lines -> Seq(Messages)]
           /\ again \in [Lines -> Seq(Messages)] /\ inbox \in [Nodes -> Seq(Messages)]
           /\ OutboxInv /\ OutboxTypeOK /\ EndsTypeOK
BY DEF LinkInv, EndsTypeOK, OutboxInv, OutboxTypeOK

LEMMA ExecutorEndsOrder ==
    ASSUME LinkInv, OrderInv, NEW e \in Executors,
           \/ EndUnwritten(e) \/ OwnerSilent(e) \/ Close(e)
           \/ FinishTurn(e) /\ ~EndGoesOut(e)
    PROVE  OrderInv'
<1>1. UNCHANGED outbox
  BY DEF EndUnwritten, OwnerSilent, Close, FinishTurn, outbox, OutboxButPost
<1>2. FramesCalm /\ ControlsCalm /\ TurnCalm /\ Carried(Owner)' \subseteq Carried(Owner)
  BY <1>1, QuietCalm, QuietCarried
<1>3. /\ UNCHANGED <<phase, target, linked, cSent, fSeen, handled, fSent, gaps, answer,
                     delivered, refusals, shut>>
  BY <1>1 DEF EndUnwritten, OwnerSilent, Close, FinishTurn, ownerEnd, history, outbox
<1>4. /\ up' = up \/ (up' = [up EXCEPT ![e] = "closing"] /\ up[e] = "up")
      /\ \/ run' = run /\ cSeen' = cSeen
         \/ run' = [run EXCEPT ![e] = "gone"] /\ cSeen' \in {cSeen, [cSeen EXCEPT ![e] = 0]}
      /\ fOpen' \in {fOpen, [fOpen EXCEPT ![e] = FALSE]}
  <2>1. CASE EndUnwritten(e)
    BY <2>1 DEF EndUnwritten
  <2>2. CASE OwnerSilent(e) \/ Close(e)
    BY <2>2 DEF OwnerSilent, Close
  <2>3. CASE FinishTurn(e) /\ ~EndGoesOut(e)
    BY <2>3 DEF FinishTurn
  <2> QED
    BY <2>1, <2>2, <2>3
<1>5. ASSUME NEW p \in Nodes PROVE Serves(p)' <=> Serves(p)
  <2>1. CASE up' = up
    BY <2>1 DEF Serves
  <2>2. CASE up' = [up EXCEPT ![e] = "closing"] /\ up[e] = "up"
    BY <2>2, LinesOf, ExecutorTypes DEF Serves
  <2> QED
    BY <1>4, <2>1, <2>2
<1>6. \A x \in Executors : /\ fOpen'[x] => fOpen[x]
                           /\ run'[x] = "running" => run[x] = "running" /\ cSeen'[x] = cSeen[x]
  BY <1>4, ExecutorTypes
<1>7. up'[Owner] = up[Owner] /\ \A p \in shut' : ~(Serves(p)')
  <2>1. shut \in SUBSET Nodes
    BY ExecutorTypes DEF OutboxTypeOK
  <2> QED
    BY <1>3, <1>4, <1>5, <2>1, LinesOf, ExecutorTypes DEF OrderInv, ShutServes
<1> QED
  BY <1>2, <1>3, <1>5, <1>6, <1>7, LinesOf, HaltOrder

LEMMA StopReadingOrder ==
    ASSUME LinkInv, OrderInv, NEW e \in Executors, StopReading(e) PROVE OrderInv'
<1>1. /\ up' = [up EXCEPT ![e] = "closed"] /\ fOpen' = [fOpen EXCEPT ![e] = FALSE]
      /\ CloseOutbox(e) /\ UNCHANGED <<queue, again, flight>>
      /\ shut' = shut \cup {e} /\ inbox' = [inbox EXCEPT ![e] = <<>>]
      /\ UNCHANGED <<phase, target, linked, cSent, fSeen, handled, fSent, gaps, answer,
                     delivered, refusals, run, cSeen>>
  BY DEF StopReading, StopLink, CloseOutbox, ownerEnd, history
<1>2. \A x \in Executors : /\ fOpen'[x] => fOpen[x]
                           /\ Serves(x)' => Serves(x) /\ x # e
  BY <1>1, LinesOf, ExecutorTypes DEF Serves
<1>3. \A p \in Nodes : p # e => inbox'[p] = inbox[p] /\ (Serves(p)' <=> Serves(p))
  BY <1>1, LinesOf, ExecutorTypes DEF Serves
<1>4. NothingAdded
  BY <1>1, LinesOf, CloseOutboxKeeps, ExecutorTypes
<1>5. FramesCalm
  BY <1>1, <1>3, LinesOf, KeepsAll DEF FramesCalm, Keeps
<1>6. ControlsCalm
  BY <1>1, <1>2, <1>3, LinesOf, KeepsAll DEF ControlsCalm, ControlsWatched
<1>7. TurnCalm
  BY <1>1, <1>4, LinesOf DEF TurnCalm, NothingAdded
<1>8. \A p \in shut' : ~(Serves(p)')
  <2>1. shut \in SUBSET Nodes
    BY ExecutorTypes DEF OutboxTypeOK
  <2> QED
    BY <1>1, <1>2, <1>3, <2>1 DEF OrderInv, ShutServes
<1>9. up'[Owner] = up[Owner] /\ Carried(Owner)' \subseteq Carried(Owner)
  BY <1>1, <1>4, LinesOf, ExecutorTypes DEF NothingAdded
<1> QED
  BY <1>1, <1>2, <1>5, <1>6, <1>7, <1>8, <1>9, HaltOrder

(* A frame, or the turn's end, numbered behind the one before it. *)
LEMMA SentOrder ==
    ASSUME LinkInv, FlowInv, OrderInv, NEW e \in Executors, NEW m \in Messages,
           run[e] = "running", Serves(e), fOpen[e], m.kind \in FrameKinds, m.n = fSent[e] + 1,
           Post(ToOwner(e), m), UNCHANGED <<OutboxButPost, up, ownerEnd, handled, gaps, refusals>>,
           fSent' = [fSent EXCEPT ![e] = @ + 1],
           fOpen' \in {fOpen, [fOpen EXCEPT ![e] = FALSE]},
           \A x \in Executors : run'[x] = "running" => run[x] = "running" /\ cSeen'[x] = cSeen[x]
    PROVE  OrderInv'
<1> DEFINE l == ToOwner(e)
<1>1. /\ UNCHANGED <<phase, target, linked, cSent, fSeen, answer, delivered, shut, flight, inbox>>
      /\ handled[e] = "taken" /\ m.kind \notin Controls /\ m.kind # "taken" /\ l \in Lines
      /\ l[2] = Owner
  BY LinesOf DEF ownerEnd, OutboxButPost, FlowInv, RunsTaken, Controls, FrameKinds
<1>2. ControlsCalm /\ TurnCalm
  BY <1>1, PostCalm
<1>3. Carried(Owner)' \subseteq Carried(Owner) \cup {m}
  BY <1>1, PostOnly, ExecutorTypes DEF OutboxButPost
<1>4. ASSUME NEW x \in Executors, FramesWatched(x)' PROVE FrameOrder(x)'
  <2>1. FrameOrder(x)
    BY <1>1, <1>4 DEF FramesWatched, OrderInv, FramesInOrder
  <2>2. Has' = Has
    BY <1>1 DEF Has
  <2>3. CASE x # e
    <3>1. ToOwner(x) # l
      BY <2>3 DEF ToOwner
    <3>2. queue'[ToOwner(x)] = queue[ToOwner(x)] /\ fSent'[x] = fSent[x] /\ fOpen'[x] = fOpen[x]
      BY <2>3, <3>1, LinesOf, ExecutorTypes DEF Post
    <3> QED
      BY <1>1, <2>1, <2>2, <3>2 DEF FrameOrder
  <2>4. CASE x = e
    <3>1. e \notin shut
      BY DEF OrderInv, ShutServes
    <3>2. queue'[l] = Append(queue[l], m) /\ queue[l] \in Seq(Messages)
      <4>1. l[1] = e /\ Post(l, m)
        BY DEF ToOwner
      <4> HIDE DEF l
      <4> QED
        BY <1>1, <3>1, <4>1, ExecutorTypes DEF Post
    <3>3. fSent'[e] = m.n /\ m.n - 1 = fSent[e]
      BY ExecutorTypes
    <3>4. /\ Along(FrameKinds, inbox[Owner], flight[l], queue[l], Has)
          /\ fSent[e] \in Has \cup Underway(FrameKinds, inbox[Owner], flight[l], queue[l])
      BY <2>1, <2>4 DEF FrameOrder
    <3> HIDE DEF l
    <3>5. /\ Along(FrameKinds, inbox[Owner], flight[l], Append(queue[l], m), Has)
          /\ m.n \in Underway(FrameKinds, inbox[Owner], flight[l], Append(queue[l], m))
      BY <3>2, <3>3, <3>4, AlongPost
    <3> QED
      BY <1>1, <2>1, <2>2, <2>4, <3>2, <3>3, <3>5 DEF FrameOrder, l
  <2> QED
    BY <2>3, <2>4
<1>5. ControlsInOrder'
  BY <1>1, <1>2, ControlsKept DEF OrderInv, Serves
<1>6. OfTheTurn'
  BY <1>2, OfTheTurnKept DEF OrderInv
<1>7. TakenAsTold'
  BY <1>1, <1>3 DEF OrderInv, TakenAsTold
<1>8. ShutServes'
  BY <1>1 DEF OrderInv, ShutServes, OwnerUp, Serves
<1> QED
  BY <1>4, <1>5, <1>6, <1>7, <1>8 DEF OrderInv, FramesInOrder

LEMMA SendsOrder ==
    ASSUME LinkInv, FlowInv, OrderInv, NEW e \in Executors, SendFrame(e) \/ FinishTurn(e)
    PROVE  OrderInv'
<1>1. CASE SendFrame(e)
  <2> DEFINE m == Msg("frame", fSent[e] + 1)
  <2>1. fSent[e] + 1 \in 1 .. MaxFrames + 1
    BY <1>1, OutboxAssumption, ExecutorTypes DEF SendFrame
  <2>2. m \in Messages /\ m.kind \in FrameKinds /\ m.n = fSent[e] + 1
    BY <2>1 DEF Msg, Messages, FrameKinds
  <2> HIDE DEF m
  <2>3. /\ run[e] = "running" /\ Serves(e) /\ fOpen[e] /\ Post(ToOwner(e), m)
        /\ UNCHANGED <<OutboxButPost, up, ownerEnd, handled, gaps, refusals, run, cSeen, fOpen>>
        /\ fSent' = [fSent EXCEPT ![e] = @ + 1]
    BY <1>1 DEF SendFrame, history, m
  <2> QED
    BY <2>2, <2>3, SentOrder
<1>2. CASE FinishTurn(e) /\ EndGoesOut(e)
  <2> DEFINE m == Msg("end", fSent[e] + 1)
  <2>1. fSent[e] + 1 \in 1 .. MaxFrames + 1
    BY <1>2, OutboxAssumption, ExecutorTypes DEF EndGoesOut, EndIsLast, LinkInv
  <2>2. m \in Messages /\ m.kind \in FrameKinds /\ m.n = fSent[e] + 1
    BY <2>1 DEF Msg, Messages, FrameKinds
  <2> HIDE DEF m
  <2>3. /\ run[e] = "running" /\ Serves(e) /\ fOpen[e] /\ Post(ToOwner(e), m)
        /\ UNCHANGED <<OutboxButPost, up, ownerEnd, handled, gaps, refusals>>
        /\ fSent' = [fSent EXCEPT ![e] = @ + 1] /\ fOpen' = [fOpen EXCEPT ![e] = FALSE]
        /\ run' = [run EXCEPT ![e] = "ending"] /\ cSeen' = [cSeen EXCEPT ![e] = 0]
    BY <1>2 DEF FinishTurn, EndGoesOut, m
  <2>4. \A x \in Executors : run'[x] = "running" => run[x] = "running" /\ cSeen'[x] = cSeen[x]
    BY <2>3, ExecutorTypes
  <2> QED
    BY <2>2, <2>3, <2>4, SentOrder
<1> QED
  BY <1>1, <1>2, ExecutorEndsOrder

-----------------------------------------------------------------------------
(* The writers. *)
LEMMA TransportCalm ==
    ASSUME LinkInv, OrderInv, NEW l \in Lines, NEW s,
           \/ TakeBatch(l) /\ UNCHANGED <<up, ownerEnd, executorEnd, history, faults, downs>>
           \/ Retire(l) \/ Write(l, s) \/ Refuse(l, s) \/ CutLine(l, s)
    PROVE  FramesCalm /\ ControlsCalm /\ TurnCalm /\ NothingAdded
<1>1. /\ NothingAdded /\ OutboxInv /\ shut' = shut
      /\ UNCHANGED <<up, handled, phase>>
  BY TakeBatchKeeps, WriterKeeps, WriteBatchKeeps, RefuseBatchKeeps, CutWriterKeeps
     DEF Retire, Write, Refuse, CutLine, LinkInv, TakeBatch, RetireWriter, StopWriter,
         WriteBatch, RefuseBatch, CutWriter, Silently, ownerEnd, executorEnd
<1>2. \A m \in Elements(again[l]) : m.kind \in {"taken", "refused"}
  BY DEF OrderInv, OfTheTurn, Once
<1>3. ASSUME NEW kinds \in {FrameKinds, Controls}, NEW w \in Lines, w[2] \notin shut,
             w \notin refusals',
             l # w /\ l[2] = w[2] => \A m \in OnLine(l) : m.kind \notin kinds
      PROVE  Keeps(kinds, inbox[w[2]], flight[w], queue[w],
                   inbox'[w[2]], flight'[w], queue'[w])
  <2>1. Free(kinds, again[l])
    BY <1>2, <1>3 DEF Free, FrameKinds, Controls
  <2>2. \A m : m.kind \in kinds => Once(m) /\ m.kind \in TurnKinds
    BY <1>3 DEF Once, TurnKinds, FrameKinds, Controls
  <2>3. ASSUME Refuse(l, s), l = w PROVE Free(kinds, flight[l])
    BY <1>3, <2>2, <2>3 DEF Refuse, Tell, Free
  <2>4. ASSUME CutLine(l, s), l = w PROVE Free(kinds, flight[l]) /\ Free(kinds, queue[l])
    BY <1>3, <2>2, <2>4 DEF CutLine, Tell, Free
  <2>5. \/ TakeBatch(l) \/ RetireWriter(l) \/ StopWriter(l) \/ WriteBatch(l, s)
        \/ RefuseBatch(l, s) /\ (l = w => Free(kinds, flight[l]))
        \/ CutWriter(l, s) /\ (l = w => Free(kinds, flight[l]) /\ Free(kinds, queue[l]))
    BY <2>3, <2>4 DEF Retire, Write, Refuse, CutLine
  <2> QED
    BY <1>1, <1>3, <2>1, <2>5, LineMoves
<1>4. FramesCalm
  <2> SUFFICES ASSUME NEW e \in Executors, FramesWatched(e), FramesWatched(e)'
               PROVE  Keeps(FrameKinds, inbox[Owner], flight[ToOwner(e)], queue[ToOwner(e)],
                            inbox'[Owner], flight'[ToOwner(e)], queue'[ToOwner(e)])
    BY DEF FramesCalm, Keeps
  <2>1. Owner \notin shut
    BY DEF OrderInv, ShutServes, FramesWatched, Serves, OwnerUp
  <2>2. ASSUME l # ToOwner(e), l[2] = Owner PROVE \A m \in OnLine(l) : m.kind \notin FrameKinds
    <3>1. PICK x \in Executors : l = ToOwner(x)
      BY <2>2, OutboxAssumption DEF Lines, ToOwner
    <3>2. x # e
      BY <2>2, <3>1
    <3>3. handled[x] # "taken"
      BY <3>2, RunnerIs DEF FramesWatched
    <3> QED
      BY <3>1, <3>3 DEF OrderInv, OfTheTurn
  <2>3. ToOwner(e) \in Lines /\ ToOwner(e)[2] = Owner /\ ToOwner(e) \notin refusals'
    BY LinesOf DEF FramesWatched, ToOwner
  <2>4. ASSUME NEW w \in Lines, w = ToOwner(e)
        PROVE  Keeps(FrameKinds, inbox[w[2]], flight[w], queue[w],
                     inbox'[w[2]], flight'[w], queue'[w])
    BY <1>3, <2>1, <2>2, <2>3, <2>4
  <2> QED
    BY <2>3, <2>4
<1>5. ControlsCalm
  <2> SUFFICES ASSUME NEW e \in Executors, ControlsWatched(e), ControlsWatched(e)'
               PROVE  Keeps(Controls, inbox[e], flight[ToExecutor(e)], queue[ToExecutor(e)],
                            inbox'[e], flight'[ToExecutor(e)], queue'[ToExecutor(e)])
    BY DEF ControlsCalm
  <2>1. e \notin shut
    BY DEF OrderInv, ShutServes, ControlsWatched
  <2>2. l[2] = e => l = ToExecutor(e)
    BY OutboxAssumption DEF Lines, ToExecutor
  <2>3. ToExecutor(e) \in Lines /\ ToExecutor(e)[2] = e /\ ToExecutor(e) \notin refusals'
    BY LinesOf DEF ControlsWatched, ToExecutor
  <2>4. ASSUME NEW w \in Lines, w = ToExecutor(e)
        PROVE  Keeps(Controls, inbox[w[2]], flight[w], queue[w],
                     inbox'[w[2]], flight'[w], queue'[w])
    BY <1>3, <2>1, <2>2, <2>3, <2>4
  <2> QED
    BY <2>3, <2>4
<1>6. \A k \in Lines : \A m \in Elements(again'[k]) : m \in Elements(again[k]) \/ ~Once(m)
  <2>1. again \in [Lines -> Seq(Messages)]
    BY ExecutorTypes
  <2>2. CASE again' = again \/ again' = [again EXCEPT ![l] = <<>>]
    BY <2>1, <2>2, EmptyElements
  <2>3. ASSUME NEW t \in WrittenAgain(flight[l]), again' = [again EXCEPT ![l] = t]
        PROVE  \A k \in Lines : \A m \in Elements(again'[k]) :
                   m \in Elements(again[k]) \/ ~Once(m)
    <3>1. \A m \in Elements(t) : ~Once(m)
      BY DEF WrittenAgain, Elements
    <3> QED
      BY <2>1, <2>3, <3>1
  <2>4. \/ again' = again \/ again' = [again EXCEPT ![l] = <<>>]
        \/ \E t \in WrittenAgain(flight[l]) : again' = [again EXCEPT ![l] = t]
    BY DEF Retire, Write, Refuse, CutLine, TakeBatch, RetireWriter, StopWriter, WriteBatch,
           RefuseBatch, CutWriter
  <2> QED
    BY <2>2, <2>3, <2>4
<1>7. TurnCalm
  BY <1>1, <1>6, LinesOf DEF TurnCalm, NothingAdded
<1> QED
  BY <1>1, <1>4, <1>5, <1>7

LEMMA TransportOrder ==
    ASSUME LinkInv, OrderInv, NEW l \in Lines, NEW s,
           \/ TakeBatch(l) /\ UNCHANGED <<up, ownerEnd, executorEnd, history, faults, downs>>
           \/ Retire(l) \/ Write(l, s) \/ Refuse(l, s) \/ CutLine(l, s)
    PROVE  OrderInv'
<1>1. FramesCalm /\ ControlsCalm /\ TurnCalm /\ Carried(Owner)' \subseteq Carried(Owner)
  BY TransportCalm, LinesOf DEF NothingAdded, Nodes
<1>2. /\ UNCHANGED <<up, phase, target, linked, cSent, fSeen, handled, fSent, gaps, cSeen, shut>>
  BY DEF Retire, Write, Refuse, CutLine, TakeBatch, RetireWriter, StopWriter, WriteBatch,
         RefuseBatch, CutWriter, Silently, ownerEnd, executorEnd, history
<1>3. refusals \subseteq refusals'
  BY DEF Retire, Write, Refuse, CutLine, Tell, history
<1>4. answer' \in {answer, "failed"} /\ delivered' \in {delivered, Append(delivered, Gone)}
  BY DEF Retire, Write, Refuse, CutLine, Tell, TellOwner, TellExecutor, ownerEnd
<1>5. ASSUME NEW e \in Executors
      PROVE  (fOpen'[e] => fOpen[e]) /\ (run'[e] = "running" => run[e] = "running")
  <2>1. CASE UNCHANGED <<run, fOpen>>
    BY <2>1
  <2>2. CASE Write(l, s)
    BY <2>2 DEF Write, TellWritten
  <2>3. ASSUME NEW x \in Executors, NEW ms, TellExecutor(x, ms)
        PROVE  (fOpen'[e] => fOpen[e]) /\ (run'[e] = "running" => run[e] = "running")
    BY <2>3, ExecutorTypes DEF TellExecutor
  <2>4. \/ UNCHANGED <<run, fOpen>> \/ Write(l, s)
        \/ \E x \in Executors : \E ms : TellExecutor(x, ms)
    BY DEF Retire, Refuse, CutLine, Tell, TellOwner, executorEnd, Lines
  <2> QED
    BY <2>1, <2>2, <2>3, <2>4
<1> QED
  BY <1>1, <1>2, <1>3, <1>4, <1>5, HaltOrder DEF Serves, OrderInv, ShutServes
-----------------------------------------------------------------------------
(* What an inbox hands on: a message numbered behind those before it. *)
(* The next numbered message of an inbox comes behind what its reader has. *)
LEMMA ReadsNext ==
    ASSUME NEW kinds, NEW M, NEW box \in Seq(M), box # <<>>, NEW batch, NEW wait, NEW S,
           Along(kinds, box, batch, wait, S), Head(box).kind \in kinds
    PROVE  /\ Along(kinds, Tail(box), batch, wait, S \cup {Head(box).n})
           /\ S \cup Underway(kinds, box, batch, wait)
                 = S \cup {Head(box).n} \cup Underway(kinds, Tail(box), batch, wait)
           /\ Head(box).n - 1 \in S
<1>1. Nums(kinds, <<Head(box)>>) = {Head(box).n}
  <2>1. Nums(kinds, <<Head(box)>>) = IF Head(box).kind \in kinds THEN {Head(box).n} ELSE {}
    BY SteadyOne
  <2> QED
    BY <2>1
<1>2. /\ Along(kinds, Tail(box), batch, wait, S \cup Nums(kinds, <<Head(box)>>))
      /\ S \cup Underway(kinds, box, batch, wait) =
            S \cup Nums(kinds, <<Head(box)>>) \cup Underway(kinds, Tail(box), batch, wait)
      /\ Head(box).kind \in kinds => Head(box).n - 1 \in S
  BY AlongRead, Zenon
<1> QED
  BY <1>1, <1>2, Zenon

(* The link's queue when something is put on it. *)
LEMMA DeliveredMore ==
    ASSUME EndsTypeOK, NEW m \in Messages \cup {Gone}
    PROVE  /\ Nums(FrameKinds, Append(delivered, m)) =
                 Nums(FrameKinds, delivered) \cup (IF m.kind \in FrameKinds THEN {m.n} ELSE {})
           /\ \A S : Steady(FrameKinds, Append(delivered, m), S) <=>
                 /\ Steady(FrameKinds, delivered, S)
                 /\ m.kind \in FrameKinds => m.n - 1 \in S \cup Nums(FrameKinds, delivered)
<1> DEFINE M == Messages \cup {Gone}
<1>1. delivered \in Seq(M) /\ m \in M
  BY DEF EndsTypeOK
<1> HIDE DEF M
<1>2. Nums(FrameKinds, Append(delivered, m)) =
         Nums(FrameKinds, delivered) \cup (IF m.kind \in FrameKinds THEN {m.n} ELSE {})
  BY <1>1, SteadyAppend
<1>3. \A S : Steady(FrameKinds, Append(delivered, m), S) <=>
         /\ Steady(FrameKinds, delivered, S)
         /\ m.kind \in FrameKinds => m.n - 1 \in S \cup Nums(FrameKinds, delivered)
  BY <1>1, SteadyAppend
<1> QED
  BY <1>2, <1>3

(* A frame goes behind those the link was handed. *)
LEMMA FrameHanded ==
    ASSUME LinkInv, OrderInv, NEW e \in Executors, FramesWatched(e), inbox[Owner] # <<>>,
           inbox'[Owner] = Tail(inbox[Owner]), Head(inbox[Owner]).kind \in FrameKinds,
           delivered' = Append(delivered, Head(inbox[Owner])),
           UNCHANGED <<queue, flight, fSeen, fOpen, fSent>>
    PROVE  FrameOrder(e)'
<1> DEFINE l == ToOwner(e)
           m == Head(inbox[Owner])
           t == Tail(inbox[Owner])
<1>1. inbox[Owner] \in Seq(Messages)
  BY LinesOf, ExecutorTypes
<1>2. m \in Messages \cup {Gone}
  BY <1>1
<1>3. /\ Along(FrameKinds, inbox[Owner], flight[l], queue[l], Has)
      /\ Steady(FrameKinds, delivered, 0 .. fSeen)
      /\ fOpen[e] => fSent[e] \in Has \cup
            Underway(FrameKinds, inbox[Owner], flight[l], queue[l])
  BY DEF OrderInv, FramesInOrder, FrameOrder
<1>4. m.kind \in FrameKinds /\ inbox'[Owner] = t /\ delivered' = Append(delivered, m)
  OBVIOUS
<1>5. /\ Along(FrameKinds, t, flight[l], queue[l], Has \cup {m.n})
      /\ Has \cup Underway(FrameKinds, inbox[Owner], flight[l], queue[l])
            = Has \cup {m.n} \cup Underway(FrameKinds, t, flight[l], queue[l])
      /\ m.n - 1 \in Has
  BY <1>1, <1>3, ReadsNext
<1> HIDE DEF m, t
<1>6. Nums(FrameKinds, delivered') = Nums(FrameKinds, delivered) \cup {m.n}
  <2>1. Nums(FrameKinds, Append(delivered, m)) =
           Nums(FrameKinds, delivered) \cup (IF m.kind \in FrameKinds THEN {m.n} ELSE {})
    BY <1>2, DeliveredMore DEF LinkInv
  <2> QED
    BY <1>4, <2>1
<1>7. Has' = Has \cup {m.n}
  BY <1>6 DEF Has
<1>8. Steady(FrameKinds, delivered', 0 .. fSeen')
  <2> DEFINE S == 0 .. fSeen
  <2>1. Steady(FrameKinds, delivered, S) /\ m.n - 1 \in S \cup Nums(FrameKinds, delivered)
    BY <1>3, <1>5 DEF Has
  <2> HIDE DEF S
  <2>2. \A X : Steady(FrameKinds, Append(delivered, m), X) <=>
           /\ Steady(FrameKinds, delivered, X)
           /\ m.kind \in FrameKinds => m.n - 1 \in X \cup Nums(FrameKinds, delivered)
    BY <1>2, DeliveredMore DEF LinkInv
  <2>3. Steady(FrameKinds, delivered', S)
    BY <1>4, <2>1, <2>2
  <2> QED
    BY <2>3 DEF S
<1> QED
  BY <1>3, <1>4, <1>5, <1>7, <1>8 DEF FrameOrder

LEMMA HandToOwnerOrder ==
    ASSUME LinkInv, OrderInv, HandOn(Owner) PROVE OrderInv'
<1> DEFINE m == Head(inbox[Owner])
           t == Tail(inbox[Owner])
<1>1. /\ inbox[Owner] # <<>> /\ inbox' = [inbox EXCEPT ![Owner] = Tail(@)]
      /\ OwnerHandles(m)
      /\ UNCHANGED <<again, flight, shut, queue, writer, up, phase, target, linked, cSent,
                     fSeen, handled, run, fOpen, fSent, cSeen, gaps, refusals>>
  BY DEF HandOn, HandToOwner, executorEnd, history
<1>2. /\ m \in Messages /\ m \in Carried(Owner) /\ NothingAdded /\ Owner \in Nodes
  BY <1>1, HandedOn DEF Nodes, LinkInv
<1>3. /\ inbox'[Owner] = t /\ inbox[Owner] \in Seq(Messages)
      /\ \A p \in Nodes : p # Owner => inbox'[p] = inbox[p]
  BY <1>1, <1>2, ExecutorTypes
<1>4. ControlsCalm
  BY <1>1, <1>3, LinesOf, KeepsAll DEF ControlsCalm
<1>5. TurnCalm
  BY <1>1, <1>2, LinesOf DEF TurnCalm, NothingAdded
<1>6. Carried(Owner)' \subseteq Carried(Owner)
  BY <1>2 DEF NothingAdded
<1>7. ControlsInOrder'
  BY <1>1, <1>4, ControlsKept DEF OrderInv, Serves
<1>8. OfTheTurn'
  BY <1>1, <1>5, OfTheTurnKept DEF OrderInv
<1>9. ShutServes'
  BY <1>1 DEF OrderInv, ShutServes, OwnerUp, Serves
<1> HIDE DEF m, t
<1>10. CASE m.kind \in FrameKinds /\ UNCHANGED answer
            /\ delivered' = IF linked THEN Append(delivered, m) ELSE delivered
  <2>1. ASSUME NEW e \in Executors, FramesWatched(e)' PROVE FrameOrder(e)'
    <3>1. FramesWatched(e)
      BY <1>1, <2>1 DEF FramesWatched
    <3>2. phase \in {"placing", "asking", "reading"} /\ handled[e] = "taken"
      BY <3>1 DEF FramesWatched, LinkInv, EndsTypeOK
    <3>3. linked
      BY <3>2, NoneTaken DEF OrderInv, TakenAsTold
    <3>4. delivered' = Append(delivered, m)
      BY <1>10, <3>3
    <3> QED
      BY <1>1, <1>3, <1>10, <3>1, <3>4, FrameHanded DEF m, t
  <2>2. TakenAsTold'
    BY <1>1, <1>6, <1>10 DEF OrderInv, TakenAsTold
  <2> QED
    BY <1>7, <1>8, <1>9, <2>1, <2>2 DEF OrderInv, FramesInOrder
<1>11. CASE /\ m.kind \in {"taken", "refused"} /\ UNCHANGED delivered
            /\ answer' = (IF phase = "asking" /\ answer = "none" /\ m.n = target
                          THEN m.kind ELSE answer)
  <2>1. m.kind \notin FrameKinds
    BY <1>11 DEF FrameKinds
  <2>2. FramesCalm
    <3>1. ASSUME NEW batch, NEW wait
          PROVE  Keeps(FrameKinds, inbox[Owner], batch, wait, t, batch, wait)
      BY <1>1, <1>3, <2>1, KeepsRead DEF m, t
    <3>2. \A e \in Executors : LET l == ToOwner(e)
             IN Keeps(FrameKinds, inbox[Owner], flight[l], queue[l],
                      inbox'[Owner], flight'[l], queue'[l])
      BY <1>1, <1>3, <3>1
    <3> QED
      BY <3>2 DEF FramesCalm, Keeps
  <2>3. FramesInOrder'
    BY <1>1, <1>11, <2>2, FramesKept DEF LinkInv, OrderInv
  <2>4. m.n \in Executors /\ (m.kind = "taken" => handled[m.n] = "taken")
    BY <1>2, <1>11, MessageKinds DEF OrderInv, TakenAsTold
  <2>5. TakenAsTold'
    BY <1>1, <1>6, <1>11, <2>4 DEF OrderInv, TakenAsTold
  <2> QED
    BY <1>7, <1>8, <1>9, <2>3, <2>5 DEF OrderInv
<1> QED
  BY <1>1, <1>10, <1>11 DEF OwnerHandles

(* An executor is handed an entry, and may post an answer: of the turn it  *)
(* loses nothing but a control.                                            *)
LEMMA HandedCalm ==
    ASSUME LinkInv, NEW e \in Executors, inbox[e] # <<>>,
           inbox' = [inbox EXCEPT ![e] = Tail(@)], UNCHANGED <<again, flight, shut>>,
           NEW given \in {"taken", "refused"},
           UNCHANGED <<queue, writer>> \/ Post(ToOwner(e), Msg(given, e))
    PROVE  /\ FramesCalm /\ TurnCalm /\ Carried(e)' \subseteq Carried(e)
           /\ inbox'[e] = Tail(inbox[e]) /\ queue'[ToExecutor(e)] = queue[ToExecutor(e)]
           /\ (ControlsWatched(e)' => Head(inbox[e]).kind \notin Controls) => ControlsCalm
           /\ Carried(Owner)' \subseteq Carried(Owner) \cup {Msg(given, e)}
<1>1. /\ inbox \in [Nodes -> Seq(Messages)] /\ inbox[e] \in Seq(Messages)
      /\ queue \in [Lines -> Seq(Messages)] /\ OutboxInv /\ OutboxTypeOK
  BY LinesOf, ExecutorTypes
<1>2. inbox'[e] = Tail(inbox[e]) /\ \A p \in Nodes : p # e => inbox'[p] = inbox[p]
  BY <1>1, LinesOf
<1>3. /\ Msg(given, e) \in Messages /\ Msg(given, e).kind \notin FrameKinds
      /\ Msg(given, e).kind \notin Controls
  BY DEF Msg, Messages, FrameKinds, Controls
<1>4. ASSUME NEW kinds \in {FrameKinds, Controls}, NEW w \in Lines, inbox'[w[2]] = inbox[w[2]]
      PROVE  Keeps(kinds, inbox[w[2]], flight[w], queue[w], inbox'[w[2]], flight'[w], queue'[w])
  <2>1. CASE UNCHANGED <<queue, writer>>
    BY <1>4, <2>1, KeepsAll
  <2>2. CASE Post(ToOwner(e), Msg(given, e))
    <3>1. Msg(given, e) \in Messages /\ Msg(given, e).kind \notin kinds /\ flight' = flight
      BY <1>3, <1>4
    <3>2. ASSUME NEW l \in Lines, NEW m \in Messages, Post(l, m), m.kind \notin kinds
          PROVE  Keeps(kinds, inbox[w[2]], flight[w], queue[w],
                       inbox'[w[2]], flight'[w], queue'[w])
      BY <1>1, <1>4, <3>2, KeepsPost
    <3> QED
      BY <2>2, <3>1, <3>2, LinesOf
  <2> QED
    BY <2>1, <2>2
<1>5. FramesCalm
  <2>1. ASSUME NEW x \in Executors, NEW w \in Lines, w = ToOwner(x)
        PROVE  Keeps(FrameKinds, inbox[Owner], flight[w], queue[w],
                     inbox'[Owner], flight'[w], queue'[w])
    <3>1. w[2] = Owner /\ inbox'[Owner] = inbox[Owner]
      BY <1>2, <2>1, LinesOf
    <3>2. Keeps(FrameKinds, inbox[w[2]], flight[w], queue[w],
                inbox'[w[2]], flight'[w], queue'[w])
      BY <1>4, <3>1
    <3> QED
      BY <3>1, <3>2
  <2> QED
    BY <2>1, LinesOf DEF FramesCalm, Keeps
<1>6. queue'[ToExecutor(e)] = queue[ToExecutor(e)]
  <2>1. ToExecutor(e) # ToOwner(e) /\ ToExecutor(e) \in Lines
    BY LinesOf DEF ToExecutor, ToOwner
  <2>2. ASSUME NEW l, NEW m, Post(l, m), l # ToExecutor(e)
        PROVE  queue'[ToExecutor(e)] = queue[ToExecutor(e)]
    BY <1>1, <2>1, <2>2 DEF Post
  <2> QED
    BY <2>1, <2>2
<1>7. ASSUME ControlsWatched(e)' => Head(inbox[e]).kind \notin Controls PROVE ControlsCalm
  <2>1. ASSUME NEW x \in Executors, x # e
        PROVE  Keeps(Controls, inbox[x], flight[ToExecutor(x)], queue[ToExecutor(x)],
                     inbox'[x], flight'[ToExecutor(x)], queue'[ToExecutor(x)])
    <3>1. ASSUME NEW w \in Lines, w[2] = x
          PROVE  Keeps(Controls, inbox[x], flight[w], queue[w],
                       inbox'[x], flight'[w], queue'[w])
      <4>1. inbox'[w[2]] = inbox[w[2]]
        BY <1>2, <2>1, <3>1, LinesOf
      <4>2. Keeps(Controls, inbox[w[2]], flight[w], queue[w],
                  inbox'[w[2]], flight'[w], queue'[w])
        BY <1>4, <4>1
      <4> QED
        BY <3>1, <4>2
    <3> QED
      BY <3>1, LinesOf
  <2>2. ASSUME Head(inbox[e]).kind \notin Controls
        PROVE  Keeps(Controls, inbox[e], flight[ToExecutor(e)], queue[ToExecutor(e)],
                     inbox'[e], flight'[ToExecutor(e)], queue'[ToExecutor(e)])
    <3>1. ASSUME NEW batch, NEW wait
          PROVE  Keeps(Controls, inbox[e], batch, wait, Tail(inbox[e]), batch, wait)
      BY <1>1, <2>2, KeepsRead
    <3> QED
      BY <1>2, <1>6, <3>1
  <2> QED
    BY <1>7, <2>1, <2>2 DEF ControlsCalm
<1>8. CASE UNCHANGED <<queue, writer>>
  <2>1. NothingAdded
    BY <1>1, <1>8, LinesOf, HandedOn
  <2>2. TurnCalm
    BY <2>1, LinesOf DEF TurnCalm, NothingAdded
  <2> QED
    BY <1>2, <1>5, <1>6, <1>7, <2>1, <2>2, LinesOf DEF NothingAdded
<1>9. ASSUME Post(ToOwner(e), Msg(given, e))
      PROVE  /\ TurnCalm /\ Carried(e)' \subseteq Carried(e)
             /\ Carried(Owner)' \subseteq Carried(Owner) \cup {Msg(given, e)}
  <2> DEFINE m == Msg(given, e)
  <2>1. m \in Messages /\ m.kind \notin FrameKinds /\ m.kind \notin Controls /\ Post(ToOwner(e), m)
    BY <1>3, <1>9
  <2> HIDE DEF m
  <2>2. /\ \A p \in Nodes : p # Owner => Carried(p)' \subseteq Carried(p)
        /\ Carried(Owner)' \subseteq Carried(Owner) \cup {m}
    BY <1>1, <2>1, LinesOf, HandedOn
  <2>3. \A k \in Lines : OnLine(k)' \subseteq OnLine(k) \cup {m}
    BY <1>1, <2>1, LinesOf, PostKeeps
  <2>4. TurnCalm
    BY <2>1, <2>2, <2>3, LinesOf DEF TurnCalm
  <2> QED
    BY <2>2, <2>4, LinesOf DEF m
<1> QED
  BY <1>2, <1>5, <1>6, <1>7, <1>8, <1>9

(* The turn begins: nothing of it was sent yet. *)
LEMMA TakenBegins ==
    ASSUME LinkInv, FlowInv, OrderInv, NEW e \in Executors, HandOn(e),
           \A x \in Executors : handled[x] # "taken", handled[e] = "none",
           handled' = [handled EXCEPT ![e] = "taken"], run' = [run EXCEPT ![e] = "running"],
           UNCHANGED <<fSent, cSeen, gaps>>, Post(ToOwner(e), Msg("taken", e))
    PROVE  OrderInv'
<1>1. /\ inbox[e] # <<>> /\ inbox' = [inbox EXCEPT ![e] = Tail(@)]
      /\ UNCHANGED <<again, flight, shut, up, phase, target, linked, answer, cSent, delivered,
                     fSeen, refusals>>
  BY LinesOf DEF HandOn, HandToExecutor, ownerEnd
<1>2. /\ TurnCalm /\ Carried(e)' \subseteq Carried(e)
      /\ Carried(Owner)' \subseteq Carried(Owner) \cup {Msg("taken", e)}
  BY <1>1, HandedCalm
<1>3. handled'[e] = "taken" /\ \A x \in Executors : x # e => handled'[x] # "taken"
  BY ExecutorTypes
<1>4. OfTheTurn'
  BY <1>2, OfTheTurnKept DEF OrderInv
<1>5. \A x \in Executors : run[x] = "none"
  BY DEF FlowInv, RunsTaken
<1>6. fSent[e] = 0
  BY DEF LinkInv, EndIsLast
<1>7. Free(FrameKinds, delivered) /\ \A m \in Carried(Owner)' : m.kind \notin FrameKinds
  <2>1. \A m : ~WasSent(m)
    BY DEF WasSent
  <2>2. \A m \in Carried(Owner) \cup Elements(delivered) : m.kind \notin FrameKinds
    BY <2>1 DEF FlowInv, FramesSent
  <2> QED
    BY <1>2, <2>2 DEF Free, Msg, FrameKinds
<1>8. \A m \in Carried(e)' : m.kind \notin Controls
  BY <1>2 DEF OrderInv, OfTheTurn
<1>9. ASSUME NEW kinds, NEW l \in Lines, \A m \in Carried(l[2])' : m.kind \notin kinds
      PROVE  Free(kinds, inbox'[l[2]]) /\ Free(kinds, flight'[l]) /\ Free(kinds, queue'[l])
  BY <1>9 DEF Free, Carried, OnLine, Elements
<1>10. FrameOrder(e)'
  <2> DEFINE l == ToOwner(e)
  <2>1. /\ Free(FrameKinds, inbox'[Owner]) /\ Free(FrameKinds, flight'[l])
        /\ Free(FrameKinds, queue'[l])
    BY <1>7, <1>9, LinesOf
  <2> HIDE DEF l
  <2>2. \A S : Along(FrameKinds, inbox'[Owner], flight'[l], queue'[l], S)
    BY <2>1, AlongFree
  <2>3. \A S : Steady(FrameKinds, delivered', S)
    BY <1>1, <1>7, FreeOf
  <2>4. fSent'[e] \in Has'
    <3>1. fSeen \in Nat
      BY OutboxAssumption DEF LinkInv, EndsTypeOK
    <3>2. 0 \in 0 .. fSeen'
      BY <1>1, <3>1
    <3> QED
      BY <1>6, <3>2 DEF Has
  <2> QED
    BY <2>2, <2>3, <2>4 DEF FrameOrder, l
<1>11. ControlOrder(e)'
  <2> DEFINE l == ToExecutor(e)
  <2>1. Free(Controls, inbox'[e]) /\ Free(Controls, flight'[l]) /\ Free(Controls, queue'[l])
    BY <1>8, <1>9, LinesOf
  <2> HIDE DEF l
  <2>2. \A S : Along(Controls, inbox'[e], flight'[l], queue'[l], S)
    BY <2>1, AlongFree
  <2>3. phase' # "reading"
    BY <1>1, NoneTaken DEF OrderInv, TakenAsTold, LinkInv, AskedInTurn
  <2> QED
    BY <2>2, <2>3 DEF ControlOrder, l
<1>12. FramesInOrder'
  BY <1>3, <1>10 DEF FramesInOrder, FramesWatched
<1>13. ControlsInOrder'
  <2>1. \A x \in Executors : x # e => run'[x] # "running"
    BY <1>5, ExecutorTypes
  <2> QED
    BY <1>11, <2>1 DEF ControlsInOrder, ControlsWatched
<1>14. TakenAsTold'
  <2>1. \A m \in Carried(Owner) : m.kind # "taken"
    <3>1. \A m \in Carried(Owner) : m.kind = "taken" => m.n \in Executors /\ handled[m.n] = "taken"
      BY CarriedTyped, MessageKinds, LinesOf, ExecutorTypes DEF OrderInv, TakenAsTold
    <3> QED
      BY <3>1
  <2>2. \A m \in Carried(Owner)' : m.kind = "taken" => handled'[m.n] = "taken"
    BY <1>2, <1>3, <2>1 DEF Msg
  <2>3. phase # "reading" /\ answer # "taken"
    BY DEF OrderInv, TakenAsTold, LinkInv, AskedInTurn
  <2> QED
    BY <1>1, <2>2, <2>3 DEF OrderInv, TakenAsTold
<1>15. ShutServes'
  BY <1>1 DEF OrderInv, ShutServes, OwnerUp, Serves
<1> QED
  BY <1>4, <1>12, <1>13, <1>14, <1>15 DEF OrderInv
-----------------------------------------------------------------------------
(* A control read by a turn that runs: it is the one behind the last. *)
LEMMA ControlRead ==
    ASSUME LinkInv, OrderInv, NEW e \in Executors, ControlsWatched(e), inbox[e] # <<>>,
           Head(inbox[e]).kind = "control"
    PROVE  /\ Head(inbox[e]).n \in Nat /\ Head(inbox[e]).n <= cSeen[e] + 1
           /\ Along(Controls, Tail(inbox[e]), flight[ToExecutor(e)], queue[ToExecutor(e)],
                    0 .. cSeen[e] \cup {Head(inbox[e]).n})
           /\ 0 .. cSeen[e] \cup Underway(Controls, inbox[e], flight[ToExecutor(e)],
                                          queue[ToExecutor(e)])
                 = 0 .. cSeen[e] \cup {Head(inbox[e]).n}
                      \cup Underway(Controls, Tail(inbox[e]), flight[ToExecutor(e)],
                                    queue[ToExecutor(e)])
<1> DEFINE l == ToExecutor(e)  S == 0 .. cSeen[e]
<1>1. Along(Controls, inbox[e], flight[l], queue[l], S)
  BY DEF OrderInv, ControlsInOrder, ControlOrder
<1>2. inbox[e] \in Seq(Messages) /\ Head(inbox[e]) \in Messages
  BY LinesOf, ExecutorTypes
<1>3. Head(inbox[e]).n \in 1 .. MaxControls /\ cSeen[e] \in Nat
  BY <1>2, MessageKinds, OutboxAssumption, ExecutorTypes
<1>4. Head(inbox[e]).kind \in Controls
  BY DEF Controls
<1> HIDE DEF l, S
<1>5. /\ Along(Controls, Tail(inbox[e]), flight[l], queue[l], S \cup {Head(inbox[e]).n})
      /\ S \cup Underway(Controls, inbox[e], flight[l], queue[l])
            = S \cup {Head(inbox[e]).n} \cup Underway(Controls, Tail(inbox[e]), flight[l], queue[l])
      /\ Head(inbox[e]).n - 1 \in S
  BY <1>1, <1>2, <1>4, ReadsNext
<1>6. Head(inbox[e]).n \in Nat /\ Head(inbox[e]).n <= cSeen[e] + 1
  <2>1. Head(inbox[e]).n - 1 \in 0 .. cSeen[e]
    BY <1>5 DEF S
  <2> QED
    BY <1>3, <2>1, OutboxAssumption
<1> QED
  BY <1>5, <1>6 DEF l, S

LEMMA ReadControlOrder ==
    ASSUME LinkInv, OrderInv, NEW e \in Executors, HandOn(e), Head(inbox[e]).kind = "control",
           Control(e, Head(inbox[e])), Reads(e),
           UNCHANGED <<queue, writer, handled, run, fOpen, fSent>>
    PROVE  OrderInv'
<1> DEFINE m == Head(inbox[e])
<1>1. /\ inbox[e] # <<>> /\ inbox' = [inbox EXCEPT ![e] = Tail(@)]
      /\ UNCHANGED <<again, flight, shut, up, phase, target, linked, answer, cSent, delivered,
                     fSeen, refusals>>
      /\ cSeen' = [cSeen EXCEPT ![e] = IF m.n = @ + 1 THEN m.n ELSE @]
      /\ gaps' = gaps \/ (gaps' = gaps \cup {e} /\ m.n > cSeen[e] + 1)
      /\ run[e] = "running" /\ Serves(e)
  BY LinesOf DEF HandOn, HandToExecutor, ownerEnd, Control, Reads
<1>2. /\ FramesCalm /\ TurnCalm /\ NothingAdded /\ inbox'[e] = Tail(inbox[e])
      /\ \A p \in Nodes : p # e => inbox'[p] = inbox[p]
  BY <1>1, LinesOf, ExecutorTypes, HandedCalm, HandedOn
<1>3. cSeen'[e] = IF m.n = cSeen[e] + 1 THEN m.n ELSE cSeen[e]
  BY <1>1, ExecutorTypes
<1>4. \A x \in Executors : x # e => cSeen'[x] = cSeen[x]
  BY <1>1, ExecutorTypes
<1>5. ToExecutor(e) \notin refusals => m.n \in Nat /\ m.n <= cSeen[e] + 1
  BY <1>1, ControlRead DEF ControlsWatched
<1>6. ASSUME NEW x \in Executors, ControlsWatched(x)' PROVE ControlOrder(x)'
  <2>1. ControlsWatched(x) /\ ControlOrder(x)
    BY <1>1, <1>6 DEF ControlsWatched, Serves, OrderInv, ControlsInOrder
  <2>2. CASE x # e
    BY <1>1, <1>2, <1>4, <2>1, <2>2, LinesOf DEF ControlOrder
  <2>3. CASE x = e
    <3> DEFINE l == ToExecutor(e)  S == 0 .. cSeen[e]  n == m.n  t == Tail(inbox[e])
    <3>1. 0 .. cSeen'[e] = S \cup {n}
      <4>1. n \in Nat /\ n <= cSeen[e] + 1 /\ cSeen[e] \in Nat
        <5>1. ControlsWatched(e) /\ cSeen[e] \in Nat
          BY <2>1, <2>3, OutboxAssumption, ExecutorTypes
        <5> QED
          BY <1>1, <5>1, ControlRead
      <4> HIDE DEF n
      <4>2. cSeen'[e] = IF n = cSeen[e] + 1 THEN n ELSE cSeen[e]
        BY <1>3 DEF n
      <4> QED
        BY <4>1, <4>2
    <3>2. /\ Along(Controls, t, flight[l], queue[l], S \cup {n})
          /\ S \cup Underway(Controls, inbox[e], flight[l], queue[l])
                = S \cup {n} \cup Underway(Controls, t, flight[l], queue[l])
      BY <1>1, <2>1, <2>3, ControlRead
    <3>3. phase = "reading" /\ target = e => cSent \in S \cup
             Underway(Controls, inbox[e], flight[l], queue[l])
      BY <2>1, <2>3 DEF ControlOrder
    <3>4. inbox'[e] = t
      BY <1>2
    <3> HIDE DEF l, S, n, t
    <3> QED
      BY <1>1, <2>3, <3>1, <3>2, <3>3, <3>4 DEF ControlOrder, l
  <2> QED
    BY <2>2, <2>3
<1>7. FramesInOrder'
  BY <1>1, <1>2, FramesKept DEF LinkInv, OrderInv
<1>8. OfTheTurn'
  BY <1>2, OfTheTurnKept DEF OrderInv
<1>9. TakenAsTold'
  BY <1>1, <1>2, LinesOf DEF OrderInv, TakenAsTold, NothingAdded
<1>10. ShutServes'
  <2>1. gaps' = gaps \/ (gaps' = gaps \cup {e} /\ ToExecutor(e) \in refusals)
    <3>1. cSeen[e] \in Nat
      BY OutboxAssumption, ExecutorTypes
    <3> HIDE DEF m
    <3> QED
      BY <1>1, <1>5, <3>1
  <2> QED
    BY <1>1, <2>1, LinesOf DEF OrderInv, ShutServes, OwnerUp, Serves
<1> QED
  BY <1>6, <1>7, <1>8, <1>9, <1>10 DEF OrderInv, ControlsInOrder

LEMMA HandToExecutorOrder ==
    ASSUME LinkInv, FlowInv, OrderInv, NEW e \in Executors, HandOn(e) PROVE OrderInv'
<1> DEFINE m == Head(inbox[e])
<1>1. /\ inbox[e] # <<>> /\ inbox' = [inbox EXCEPT ![e] = Tail(@)] /\ HandToExecutor(e, m)
      /\ UNCHANGED <<again, flight, shut, up, phase, target, linked, answer, cSent, delivered,
                     fSeen, refusals>>
  BY LinesOf DEF HandOn, HandToExecutor, ownerEnd
<1>2. m.kind = "request" => \A x \in Executors : handled[e] = "none" => handled[x] # "taken"
  BY <1>1, LinesOf, HandedOn, ExecutorTypes DEF LinkInv, AskedInTurn
<1>3. ASSUME NEW given \in {"taken", "refused"}, UNCHANGED <<fSent, gaps, run, cSeen>>,
             \A x \in Executors : handled'[x] = "taken" <=> handled[x] = "taken",
             \A x \in Executors : fOpen'[x] => fOpen[x],
             m.kind \notin Controls \/ ~Reads(e),
             \/ UNCHANGED <<queue, writer>>
             \/ Post(ToOwner(e), Msg(given, e)) /\ (given = "taken" => handled[e] = "taken")
      PROVE  OrderInv'
  <2>1. ControlsWatched(e)' => m.kind \notin Controls
    BY <1>1, <1>3 DEF ControlsWatched, Reads
  <2>2. FramesCalm /\ TurnCalm /\ ControlsCalm
    BY <1>1, <1>3, <2>1, HandedCalm
  <2>3. \A x \in Carried(Owner)' :
            x \in Carried(Owner) \/ x.kind # "taken" \/ handled'[x.n] = "taken"
    <3>1. CASE UNCHANGED <<queue, writer>>
      <4>1. NothingAdded
        BY <1>1, <3>1, LinesOf, HandedOn, ExecutorTypes
      <4> QED
        BY <4>1, LinesOf DEF NothingAdded
    <3>2. CASE Post(ToOwner(e), Msg(given, e)) /\ (given = "taken" => handled[e] = "taken")
      <4>1. Carried(Owner)' \subseteq Carried(Owner) \cup {Msg(given, e)}
        BY <1>1, <3>2, HandedCalm
      <4>2. Msg(given, e).kind = given /\ Msg(given, e).n = e
        BY DEF Msg
      <4> QED
        BY <1>3, <3>2, <4>1, <4>2
    <3> QED
      BY <1>3, <3>1, <3>2
  <2> QED
    BY <1>1, <1>3, <2>2, <2>3, HaltOrder DEF Serves, OrderInv, ShutServes
<1>4. CASE /\ m.kind = "request" /\ Request(e)
           /\ UNCHANGED <<fSent, cSeen, cut, gaps>>
  <2>1. m.kind \notin Controls
    BY <1>4 DEF Controls
  <2>2. CASE ~FirstTime(e) /\ Post(ToOwner(e), Msg(handled[e], e))
             /\ UNCHANGED <<handled, run, fOpen, takes>>
    <3>1. handled[e] \in {"taken", "refused"}
      BY <2>2, ExecutorTypes DEF FirstTime
    <3> QED
      BY <1>3, <1>4, <2>1, <2>2, <3>1
  <2>3. CASE FirstTime(e) /\ handled' = [handled EXCEPT ![e] = "refused"]
             /\ Post(ToOwner(e), Msg("refused", e)) /\ UNCHANGED <<run, fOpen, takes>>
    <3>1. \A x \in Executors : handled'[x] = "taken" <=> handled[x] = "taken"
      BY <2>3, ExecutorTypes DEF FirstTime
    <3> QED
      BY <1>3, <1>4, <2>1, <2>3, <3>1
  <2>4. CASE FirstTime(e) /\ handled' = [handled EXCEPT ![e] = "taken"]
             /\ run' = [run EXCEPT ![e] = "running"] /\ Post(ToOwner(e), Msg("taken", e))
    BY <1>2, <1>4, <2>4, TakenBegins DEF FirstTime
  <2> QED
    BY <1>4, <2>2, <2>3, <2>4 DEF Request
<1>5. CASE /\ m.kind = "control" /\ Control(e, m)
           /\ UNCHANGED <<queue, writer, handled, run, fOpen, fSent, takes>>
  <2>1. CASE Reads(e)
    BY <1>5, <2>1, ReadControlOrder
  <2>2. CASE ~Reads(e)
    BY <1>3, <1>5, <2>2 DEF Control
  <2> QED
    BY <2>1, <2>2
<1>6. CASE /\ m.kind = "released" /\ StopLink(e)
           /\ UNCHANGED <<queue, writer, handled, run, fSent, cSeen, takes, gaps>>
  <2>1. m.kind \notin Controls
    BY <1>6 DEF Controls
  <2>2. \A x \in Executors : fOpen'[x] => fOpen[x]
    BY <1>6, ExecutorTypes DEF StopLink
  <2> QED
    BY <1>3, <1>6, <2>1, <2>2
<1> QED
  BY <1>1, <1>4, <1>5, <1>6 DEF HandToExecutor

-----------------------------------------------------------------------------
(* A process that dies. *)
LEMMA Emptied ==
    ASSUME NEW kinds, NEW box, NEW batch, NEW wait
    PROVE  Orders(kinds, box, batch, wait, box, <<>>, <<>>)
<1>1. Free(kinds, <<>>)
  BY EmptyElements DEF Free
<1>2. Nums(kinds, <<>>) = {} /\ \A S : Steady(kinds, <<>>, S)
  BY <1>1, FreeOf
<1> QED
  BY <1>2 DEF Orders, Along

LEMMA CrashOrder ==
    ASSUME LinkInv, OrderInv, NEW p \in Nodes, Crash(p) PROVE OrderInv'
<1>1. /\ queue' = [l \in Lines |-> IF l[1] = p THEN <<>> ELSE queue[l]]
      /\ again' = [l \in Lines |-> IF l[1] = p THEN <<>> ELSE again[l]]
      /\ flight' = [l \in Lines |-> IF l[1] = p THEN <<>> ELSE flight[l]]
      /\ shut' = shut \cup {p} /\ inbox' = [inbox EXCEPT ![p] = <<>>]
      /\ up' = [up EXCEPT ![p] = "crashed"]
      /\ UNCHANGED <<target, fSeen, gaps, refusals, handled, fSent>>
  BY DEF Crash, LoseOutbox, history, executorEnd
<1>2. NothingAdded
  BY LoseOutboxKeeps DEF Crash, LinkInv
<1>3. TurnCalm
  <2>1. ASSUME NEW l \in Lines, NEW m \in Elements(again'[l]) PROVE m \in Elements(again[l])
    BY <1>1, <2>1, EmptyElements
  <2> QED
    BY <1>2, <2>1, LinesOf DEF TurnCalm, NothingAdded
<1>4. ~(Serves(p)') /\ \A q \in Nodes : q # p => (Serves(q)' <=> Serves(q)) /\ inbox'[q] = inbox[q]
  BY <1>1, ExecutorTypes DEF Serves
<1>5. \A q \in shut' : ~(Serves(q)')
  <2>1. shut \in SUBSET Nodes
    BY ExecutorTypes DEF OutboxTypeOK
  <2> QED
    BY <1>1, <1>4, <2>1 DEF OrderInv, ShutServes
<1>6. OfTheTurn'
  BY <1>1, <1>3, OfTheTurnKept DEF OrderInv
<1>7. CASE p = Owner
  <2>1. /\ phase' = "over" /\ answer' = "none" /\ UNCHANGED <<run, fOpen, cSeen>>
    BY <1>7 DEF Crash, Forget, executorEnd
  <2>2. ASSUME NEW e \in Executors, ControlsWatched(e)' PROVE ControlOrder(e)'
    <3>1. ControlOrder(e) /\ inbox'[e] = inbox[e]
      BY <1>1, <1>4, <1>7, <2>1, <2>2, LinesOf
         DEF ControlsWatched, OrderInv, ControlsInOrder
    <3>2. flight'[ToExecutor(e)] = <<>> /\ queue'[ToExecutor(e)] = <<>>
      BY <1>1, <1>7, LinesOf DEF ToExecutor
    <3> DEFINE S == 0 .. cSeen[e]
    <3>3. Along(Controls, inbox[e], flight[ToExecutor(e)], queue[ToExecutor(e)], S)
      BY <3>1 DEF ControlOrder
    <3> HIDE DEF S
    <3>4. Along(Controls, inbox[e], <<>>, <<>>, S)
      BY <3>3, Emptied DEF Orders
    <3> QED
      BY <2>1, <3>1, <3>2, <3>4 DEF ControlOrder, S
  <2>3. TakenAsTold'
    BY <1>1, <1>2, <2>1 DEF OrderInv, TakenAsTold, NothingAdded, Nodes
  <2>4. ShutServes'
    BY <1>1, <1>5, <2>1 DEF OrderInv, ShutServes
  <2>5. FramesInOrder'
    BY <2>1 DEF FramesInOrder, FramesWatched
  <2> QED
    BY <1>6, <2>2, <2>3, <2>4, <2>5 DEF OrderInv, ControlsInOrder
<1>8. CASE p # Owner
  <2>1. /\ p \in Executors /\ UNCHANGED <<phase, linked, cSent, answer, delivered>>
        /\ run' = [run EXCEPT ![p] = IF @ = "none" THEN @ ELSE "gone"]
        /\ fOpen' = [fOpen EXCEPT ![p] = FALSE] /\ cSeen' = [cSeen EXCEPT ![p] = 0]
    BY <1>8 DEF Crash, Nodes
  <2>2. ASSUME NEW x \in Executors
        PROVE  /\ fOpen'[x] => fOpen[x] /\ x # p
               /\ run'[x] = "running" => run[x] = "running" /\ cSeen'[x] = cSeen[x]
               /\ x # p => flight'[ToOwner(x)] = flight[ToOwner(x)]
                           /\ queue'[ToOwner(x)] = queue[ToOwner(x)]
               /\ flight'[ToExecutor(x)] = flight[ToExecutor(x)]
               /\ queue'[ToExecutor(x)] = queue[ToExecutor(x)]
    <3>1. ToOwner(x)[1] = x /\ ToExecutor(x)[1] = Owner
      BY DEF ToOwner, ToExecutor
    <3> QED
      BY <1>1, <1>8, <2>1, <3>1, LinesOf, ExecutorTypes
  <2>3. inbox'[Owner] = inbox[Owner] /\ up'[Owner] = up[Owner]
    BY <1>1, <1>4, <1>8, <2>1, LinesOf, ExecutorTypes
  <2>4. flight'[ToOwner(p)] = <<>> /\ queue'[ToOwner(p)] = <<>>
    BY <1>1, <2>1, LinesOf DEF ToOwner
  <2>5. FramesCalm
    <3>1. ASSUME NEW x \in Executors, x # p
          PROVE  Keeps(FrameKinds, inbox[Owner], flight[ToOwner(x)], queue[ToOwner(x)],
                       inbox'[Owner], flight'[ToOwner(x)], queue'[ToOwner(x)])
      BY <2>2, <2>3, <3>1, KeepsAll
    <3>2. Orders(FrameKinds, inbox[Owner], flight[ToOwner(p)], queue[ToOwner(p)],
                 inbox'[Owner], flight'[ToOwner(p)], queue'[ToOwner(p)])
      BY <2>3, <2>4, Emptied
    <3> QED
      BY <2>2, <3>1, <3>2 DEF FramesCalm, Keeps
  <2>6. ControlsCalm
    BY <1>4, <2>2, LinesOf, KeepsAll DEF ControlsCalm, ControlsWatched
  <2>7. Carried(Owner)' \subseteq Carried(Owner)
    BY <1>2 DEF NothingAdded, Nodes
  <2>8. \A x \in Executors : Serves(x)' => Serves(x)
    BY <1>4, LinesOf
  <2> QED
    BY <1>1, <1>3, <1>5, <2>1, <2>2, <2>3, <2>5, <2>6, <2>7, <2>8, HaltOrder
<1> QED
  BY <1>7, <1>8

LEMMA StutterOrder == ASSUME LinkInv, OrderInv, UNCHANGED vars PROVE OrderInv'
<1>1. /\ UNCHANGED outbox
      /\ UNCHANGED <<up, phase, target, linked, answer, cSent, delivered, fSeen, handled, run,
                     fOpen, fSent, cSeen, gaps, refusals, shut>>
  BY DEF vars, outbox, ownerEnd, executorEnd, history
<1>2. FramesCalm /\ ControlsCalm /\ TurnCalm /\ Carried(Owner)' \subseteq Carried(Owner)
  BY <1>1, QuietCalm, QuietCarried
<1> QED
  BY <1>1, <1>2, HaltOrder DEF Serves, OrderInv, ShutServes

LEMMA OrderStarts == Init => OrderInv
<1> SUFFICES ASSUME Init PROVE OrderInv
  OBVIOUS
<1>1. \A e \in Executors : handled[e] = "none" /\ run[e] = "none"
  BY DEF Init
<1>2. \A p \in Nodes : Carried(p) = {}
  BY OutboxStarts DEF Init
<1>3. \A l \in Lines : OnLine(l) = {} /\ Elements(again[l]) = {}
  BY <1>2, LineEnds, LineCarried DEF OnLine
<1>4. OfTheTurn
  BY <1>2, <1>3, LinesOf DEF OfTheTurn
<1>5. TakenAsTold
  BY <1>2 DEF Init, TakenAsTold, Nodes
<1>6. ShutServes
  BY DEF Init, OutboxInit, ShutServes, OwnerUp, Nodes
<1> QED
  BY <1>1, <1>4, <1>5, <1>6 DEF OrderInv, FramesInOrder, ControlsInOrder, FramesWatched,
                                ControlsWatched

LEMMA StepOrder == ASSUME LinkInv, FlowInv, OrderInv, [Next]_vars PROVE OrderInv'
<1>1. CASE Owns
  BY <1>1, AskOrder, TakenOrder, RefusedOrder, GivenUpOrder, ReadOrder DEF Owns
<1>2. CASE SendControl \/ GiveUp
  BY <1>2, SendControlOrder, GivenUpOrder
<1>3. ASSUME NEW e \in Executors, SendFrame(e) \/ Runs(e) \/ EndUnwritten(e) PROVE OrderInv'
  BY <1>3, SendsOrder, ExecutorEndsOrder DEF Runs
<1>4. ASSUME NEW p \in Nodes, HandOn(p) PROVE OrderInv'
  BY <1>4, HandToOwnerOrder, HandToExecutorOrder DEF Nodes
<1>5. ASSUME NEW l \in Lines, Transport(l) \/ Retire(l) PROVE OrderInv'
  BY <1>5, TransportOrder DEF Transport
<1>6. CASE Leaves
  <2>1. ASSUME NEW e \in Executors, Close(e) \/ StopReading(e) PROVE OrderInv'
    BY <2>1, ExecutorEndsOrder, StopReadingOrder
  <2>2. ASSUME NEW l \in Lines, NEW part, CutLine(l, part) PROVE OrderInv'
    BY <2>2, TransportOrder
  <2> QED
    BY <1>6, <2>1, <2>2, CrashOrder DEF Leaves
<1>7. CASE UNCHANGED vars
  BY <1>7, StutterOrder
<1> QED
  BY <1>1, <1>2, <1>3, <1>4, <1>5, <1>6, <1>7 DEF Next

(* A gap in a turn's numbers means that Redis refused a message of it, or  *)
(* that its line was cut: batches written twice, lines that start anew and *)
(* answers written again never make one (RedisOutbox._write, MessageOrder).*)
THEOREM GapsAreRefusals == Spec => []GapMeansRefusal
<1>1. OrderInv => GapMeansRefusal
  BY DEF OrderInv, ShutServes, GapMeansRefusal
<1>2. LinkInv /\ FlowInv /\ [Next]_vars => FlowInv'
  BY StepCarries DEF Carries
<1>3. LinkInv /\ FlowInv /\ OrderInv /\ [Next]_vars => OrderInv'
  BY StepOrder
<1>4. Init => FlowInv /\ OrderInv
  BY FlowStarts, OrderStarts
<1> QED
  BY <1>1, <1>2, <1>3, <1>4, LinkInvariant, PTL DEF Spec
-----------------------------------------------------------------------------
(* What is behind SilenceMeansLoss: an executor that took the turn, whose  *)
(* process is there and of whose frames none was refused, runs the turn    *)
(* until its end is where the owner will read it.                          *)

(* The turn's end came to its owner's process, and was not read. *)
EndAtHand ==
    \E m \in Elements(inbox[Owner]) \cup Elements(delivered) : m.kind = "end"

(* The executor the owner holds the turn of, with nothing of it lost. *)
Sound(e) ==
    /\ handled[e] = "taken" /\ phase # "over"
    /\ Serves(e) /\ ToOwner(e) \notin refusals /\ e \notin late

(* The turn goes on: nothing keeps its end from being sent, or it was. *)
Going(e) ==
    \/ run[e] = "running" /\ fOpen[e] /\ cut[e] # "owner_lost"
    \/ run[e] = "ending"
    \/ run[e] = "gone" /\ EndAtHand

SoundGoOn == \A e \in Executors : Sound(e) => Going(e)

(* What was lost stays lost, what is over is over. *)
Lasting ==
    /\ refusals \subseteq refusals' /\ late \subseteq late'
    /\ \A e \in Executors : Serves(e)' => Serves(e)
    /\ phase = "over" => phase' = "over" /\ target' = target
    /\ why' = "silence" => why = "silence" \/ Silence

LEMMA StepLasts == ASSUME LinkInv, [Next]_vars PROVE Lasting
<1>1. /\ up \in [Nodes -> {"up", "closing", "closed", "crashed"}]
      /\ \A e \in Executors : e \in Nodes
  BY DEF LinkInv, EndsTypeOK, Nodes
<1> USE DEF Lasting, Serves
<1>2. CASE (\E e \in Executors : Ask(e)) \/ NonePlaced \/ Taken \/ Refused \/ Unanswered
  BY <1>2 DEF Ask, NonePlaced, Taken, Refused, Unanswered, LetGo, Forget, history
<1>3. CASE Read \/ Silence
  BY <1>3 DEF Read, Silence, LetGo, Forget, history
<1>4. CASE SendControl \/ GiveUp
  BY <1>4 DEF SendControl, GiveUp, LetGo, Forget, history
<1>5. CASE \E e \in Executors : SendFrame(e) \/ Runs(e) \/ EndUnwritten(e)
  BY <1>5 DEF SendFrame, Runs, FinishTurn, OwnerSilent, EndUnwritten, ownerEnd, history
<1>6. CASE \E p \in Nodes : HandOn(p)
  BY <1>6 DEF HandOn, HandToOwner, HandToExecutor, ownerEnd, history
<1>7. CASE \E l \in Lines : Transport(l) \/ Retire(l)
  BY <1>7 DEF Transport, Write, Refuse, Tell, Retire, Silently, ownerEnd, history
<1>8. CASE Leaves
  <2>1. ASSUME NEW e \in Executors, Close(e) \/ StopReading(e) PROVE Lasting
    BY <1>1, <2>1 DEF Close, StopReading, ownerEnd, history
  <2>2. ASSUME NEW l \in Lines, NEW part, CutLine(l, part) PROVE Lasting
    BY <2>2 DEF CutLine, Tell, Silently
  <2>3. ASSUME NEW p \in Nodes, Crash(p) PROVE Lasting
    BY <1>1, <2>3 DEF Crash, Forget, history
  <2> QED
    BY <1>8, <2>1, <2>2, <2>3 DEF Leaves
<1>9. CASE UNCHANGED vars
  BY <1>9 DEF vars, ownerEnd, history
<1> QED
  BY <1>2, <1>3, <1>4, <1>5, <1>6, <1>7, <1>8, <1>9 DEF Next, Owns
-----------------------------------------------------------------------------
(* The elements of what is appended and of what is left are all there. *)
LEMMA ElementsKept ==
    ASSUME NEW S, NEW s \in Seq(S), NEW t \in Seq(S)
    PROVE  /\ Elements(s) \cup Elements(t) \subseteq Elements(s \o t)
           /\ s # <<>> => Elements(s) \subseteq Elements(Tail(s)) \cup {Head(s)}
<1>1. /\ s \o t \in Seq(S) /\ DOMAIN (s \o t) = 1 .. Len(s) + Len(t)
      /\ \A i \in 1 .. Len(s) : (s \o t)[i] = s[i]
      /\ \A i \in 1 .. Len(t) : (s \o t)[Len(s) + i] = t[i]
  OBVIOUS
<1>2. DOMAIN s = 1 .. Len(s) /\ Len(s) \in Nat /\ DOMAIN t = 1 .. Len(t) /\ Len(t) \in Nat
  OBVIOUS
<1>3. ASSUME NEW i \in DOMAIN s PROVE s[i] \in Elements(s \o t)
  BY <1>1, <1>2 DEF Elements
<1>4. ASSUME NEW i \in DOMAIN t PROVE t[i] \in Elements(s \o t)
  <2>1. Len(s) + i \in DOMAIN (s \o t) /\ (s \o t)[Len(s) + i] = t[i]
    BY <1>1, <1>2
  <2> QED
    BY <2>1 DEF Elements
<1>5. ASSUME s # <<>>, NEW i \in DOMAIN s, s[i] # Head(s) PROVE s[i] \in Elements(Tail(s))
  <2>1. DOMAIN Tail(s) = 1 .. Len(s) - 1 /\ \A j \in 1 .. Len(s) - 1 : Tail(s)[j] = s[j + 1]
    BY <1>5
  <2>2. i # 1 /\ i - 1 \in 1 .. Len(s) - 1 /\ (i - 1) + 1 = i
    BY <1>2, <1>5
  <2>3. i - 1 \in DOMAIN Tail(s) /\ Tail(s)[i - 1] = s[i]
    BY <2>1, <2>2
  <2> QED
    BY <2>3 DEF Elements
<1> QED
  BY <1>3, <1>4, <1>5 DEF Elements

(* The turn's end stays at hand when nothing is read. *)
LEMMA EndStays ==
    ASSUME LinkInv, EndAtHand,
           delivered' \in {delivered, Append(delivered, Gone)},
           \/ inbox'[Owner] = inbox[Owner]
           \/ \E s \in Seq(Messages) : inbox'[Owner] = inbox[Owner] \o s
    PROVE  EndAtHand'
<1> DEFINE S == Messages \cup {Gone}
<1>1. /\ delivered \in Seq(S) /\ Gone \in S /\ inbox[Owner] \in Seq(Messages)
  BY LinesOf DEF LinkInv, OutboxInv, OutboxTypeOK, EndsTypeOK, Nodes
<1> HIDE DEF S
<1>2. Elements(delivered) \subseteq Elements(delivered')
  <2>1. Elements(Append(delivered, Gone)) = Elements(delivered) \cup {Gone}
    BY <1>1, ElementsAppended
  <2> QED
    BY <2>1
<1>3. Elements(inbox[Owner]) \subseteq Elements(inbox'[Owner])
  BY <1>1, ElementsKept
<1> QED
  BY <1>2, <1>3 DEF EndAtHand, Elements

(* Entries that enter an inbox: its owner's keeps what it has.             *)
LEMMA EntersStays ==
    ASSUME LinkInv, OrderInv, phase # "over", NEW l \in Lines, NEW s \in Seq(Messages),
           Enters(l[2], s)
    PROVE  /\ inbox'[Owner] = inbox[Owner] \/ inbox'[Owner] = inbox[Owner] \o s
           /\ l[2] = Owner => inbox'[Owner] = inbox[Owner] \o s
<1>1. inbox \in [Nodes -> Seq(Messages)] /\ l[2] \in Nodes /\ Owner \in Nodes
  BY LineEnds DEF LinkInv, OutboxInv, OutboxTypeOK, Nodes
<1>2. Owner \notin shut
  BY DEF OrderInv, ShutServes, Serves, OwnerUp
<1> QED
  BY <1>1, <1>2 DEF Enters

(* A step that leaves the executors' ends alone, and the end where it is.  *)
LEMMA GoOnKept ==
    ASSUME LinkInv, SoundGoOn, Lasting, UNCHANGED <<handled, run, fOpen, cut>>,
           phase' # "over" /\ EndAtHand => EndAtHand'
    PROVE  SoundGoOn'
BY DEF SoundGoOn, Sound, Going, Lasting

(* Who took the turn is whom the owner asked last, and waits for. *)
LEMMA HeldByOwner ==
    ASSUME LinkInv, OrderInv, NEW e \in Executors, Sound(e)
    PROVE  /\ OwnerHolds(e) /\ linked
           /\ \A x \in Executors : handled[x] = "taken" => x = e
<1>1. phase # "placing"
  BY NoneTaken DEF Sound
<1>2. e = target /\ \A x \in Executors : handled[x] = "taken" => x = e
  BY DEF Sound, LinkInv, AskedInTurn
<1>3. phase \in {"asking", "reading"}
  BY <1>1 DEF Sound, LinkInv, EndsTypeOK
<1> QED
  BY <1>2, <1>3 DEF Sound, OrderInv, ShutServes, TakenAsTold, OwnerHolds
-----------------------------------------------------------------------------
(* The owner's steps. *)
LEMMA OwnerGoesOn ==
    ASSUME LinkInv, FlowInv, OrderInv, SoundGoOn, Lasting,
           Owns \/ SendControl \/ GiveUp
    PROVE  SoundGoOn'
<1>1. CASE (\E e \in Executors : Ask(e)) \/ Taken \/ SendControl
  <2>1. UNCHANGED <<handled, run, fOpen, cut, delivered, inbox>>
    BY <1>1 DEF Ask, Taken, SendControl, OutboxButPost, outbox, executorEnd
  <2>2. EndAtHand => EndAtHand'
    BY <2>1, EndStays
  <2> QED
    BY <2>1, <2>2, GoOnKept
<1>2. CASE NonePlaced \/ Unanswered \/ GiveUp \/ Silence
  <2>1. phase' = "over"
    BY <1>2 DEF NonePlaced, Unanswered, GiveUp, Silence, LetGo, Forget
  <2> QED
    BY <2>1 DEF SoundGoOn, Sound
<1>3. CASE Refused
  <2>1. \A e \in Executors : handled[e] # "taken"
    BY <1>3, NoneTaken DEF Refused, LinkInv, AskedInTurn
  <2>2. handled' = handled
    BY <1>3 DEF Refused, executorEnd
  <2> QED
    BY <2>1, <2>2 DEF SoundGoOn, Sound
<1>4. CASE Read
  <2> DEFINE m == Head(delivered)
             S == Messages \cup {Gone}
  <2>1. /\ phase = "reading" /\ delivered # <<>> /\ delivered \in Seq(S)
        /\ UNCHANGED <<handled, run, fOpen, cut, inbox>>
    BY <1>4 DEF Read, OutboxButPost, executorEnd, LinkInv, EndsTypeOK
  <2> HIDE DEF S
  <2>2. CASE phase' = "over"
    BY <2>2 DEF SoundGoOn, Sound
  <2>3. CASE phase' # "over"
    <3>1. ReadsOn(m) /\ delivered' = Tail(delivered)
      BY <1>4, <2>3 DEF Read, LetGo, Forget
    <3>2. m \in Elements(delivered) /\ <<>> \in Seq(S)
      BY <2>1, ElementsAfterHead
    <3>3. ASSUME m.kind = "end" PROVE FALSE
      <4>1. WasSent(m) /\ m.n <= fSeen
        BY <3>1, <3>2, <3>3 DEF FlowInv, FramesSent, ReadsOn, FrameKinds
      <4>2. PICK e \in Executors : /\ handled[e] = "taken" /\ m.n \in 1 .. fSent[e]
                                   /\ e \in ended /\ m.n = fSent[e]
        BY <3>3, <4>1 DEF WasSent
      <4>3. fSent[e] \in Int /\ fSeen \in Int
        BY DEF LinkInv, EndsTypeOK
      <4>4. Sent(fSeen)
        BY <4>1, <4>2, <4>3 DEF FlowInv, ReadsSent
      <4>5. PICK x \in Executors : handled[x] = "taken" /\ (x \in ended => fSeen < fSent[x])
        BY <2>1, <4>4 DEF Sent
      <4>6. x = e
        BY <4>2, <4>5, RunnerIs
      <4> QED
        BY <4>1, <4>2, <4>3, <4>5, <4>6
    <3>4. Elements(delivered) \subseteq Elements(Tail(delivered)) \cup {m}
      BY <2>1, <3>2, ElementsKept
    <3> HIDE DEF m
    <3>5. EndAtHand => EndAtHand'
      BY <2>1, <3>1, <3>3, <3>4 DEF EndAtHand, Elements
    <3> QED
      BY <2>1, <3>5, GoOnKept
  <2> QED
    BY <2>2, <2>3
<1> QED
  BY <1>1, <1>2, <1>3, <1>4 DEF Owns
-----------------------------------------------------------------------------
(* The executors' steps. *)
LEMMA ExecutorGoesOn ==
    ASSUME LinkInv, FlowInv, OrderInv, SoundGoOn, Lasting, NEW e \in Executors,
           SendFrame(e) \/ Runs(e) \/ EndUnwritten(e) \/ Close(e) \/ StopReading(e)
    PROVE  SoundGoOn'
<1>1. /\ run \in [Executors -> {"none", "running", "ending", "gone"}]
      /\ fOpen \in [Executors -> BOOLEAN]
      /\ cut \in [Executors -> {"none", "closing", "frame_lost", "owner_lost"}]
      /\ up \in [Nodes -> {"up", "closing", "closed", "crashed"}]
      /\ inbox \in [Nodes -> Seq(Messages)]
  BY DEF LinkInv, EndsTypeOK, OutboxInv, OutboxTypeOK
<1>2. inbox'[Owner] = inbox[Owner] /\ delivered' = delivered /\ handled' = handled
  BY <1>1, LinesOf DEF SendFrame, Runs, FinishTurn, OwnerSilent, EndUnwritten, Close,
                       StopReading, CloseOutbox, OutboxButPost, outbox, ownerEnd
<1>3. EndAtHand => EndAtHand'
  BY <1>2, EndStays
<1>4. ASSUME \A x \in Executors : x # e =>
                 run'[x] = run[x] /\ fOpen'[x] = fOpen[x] /\ cut'[x] = cut[x],
             Sound(e)' /\ Sound(e) /\ Going(e) => Going(e)'
      PROVE  SoundGoOn'
  <2>1. \A x \in Executors : Sound(x)' => Sound(x)
    BY <1>2 DEF Sound, Lasting
  <2>2. ASSUME NEW x \in Executors, Sound(x)', x # e PROVE Going(x)'
    BY <1>3, <1>4, <2>1, <2>2 DEF SoundGoOn, Going
  <2> QED
    BY <1>4, <2>1, <2>2 DEF SoundGoOn
<1>5. CASE SendFrame(e)
  BY <1>3, <1>5, GoOnKept DEF SendFrame
<1>6. CASE FinishTurn(e)
  <2>1. \A x \in Executors : x # e =>
            run'[x] = run[x] /\ fOpen'[x] = fOpen[x] /\ cut'[x] = cut[x]
    BY <1>1, <1>6 DEF FinishTurn
  <2>2. Going(e) => Going(e)'
    BY <1>1, <1>6 DEF FinishTurn, Going, EndGoesOut, SendsMore
  <2> QED
    BY <1>4, <2>1, <2>2
<1>7. CASE OwnerSilent(e)
  <2>1. ~Sound(e)
    BY <1>7, HeldByOwner DEF OwnerSilent
  <2>2. \A x \in Executors : x # e =>
            run'[x] = run[x] /\ fOpen'[x] = fOpen[x] /\ cut'[x] = cut[x]
    BY <1>1, <1>7 DEF OwnerSilent, CutTurn
  <2> QED
    BY <1>4, <2>1, <2>2
<1>8. CASE EndUnwritten(e)
  <2>1. ~(Sound(e)')
    BY <1>8 DEF EndUnwritten, Sound
  <2>2. \A x \in Executors : x # e =>
            run'[x] = run[x] /\ fOpen'[x] = fOpen[x] /\ cut'[x] = cut[x]
    BY <1>1, <1>8 DEF EndUnwritten
  <2> QED
    BY <1>4, <2>1, <2>2
<1>9. CASE Close(e)
  <2>1. \A x \in Executors : /\ run'[x] = run[x] /\ fOpen'[x] = fOpen[x]
                             /\ cut'[x] \in {cut[x], "closing"}
                             /\ x # e => cut'[x] = cut[x]
    BY <1>1, <1>9 DEF Close, CutTurn
  <2>2. Going(e) => Going(e)'
    BY <1>3, <2>1 DEF Going
  <2> QED
    BY <1>4, <2>1, <2>2
<1>10. CASE StopReading(e)
  <2>1. ~(Sound(e)')
    BY <1>1, <1>10, LinesOf DEF StopReading, Sound, Serves
  <2>2. \A x \in Executors : x # e =>
            run'[x] = run[x] /\ fOpen'[x] = fOpen[x] /\ cut'[x] = cut[x]
    BY <1>1, <1>10 DEF StopReading, StopLink, CutTurn
  <2> QED
    BY <1>4, <2>1, <2>2
<1> QED
  BY <1>5, <1>6, <1>7, <1>8, <1>9, <1>10 DEF Runs

(* What an inbox hands on: the end goes to the link's queue; a request     *)
(* that is taken begins a turn nobody has cut.                             *)
LEMMA HandedGoesOn ==
    ASSUME LinkInv, FlowInv, OrderInv, SoundGoOn, Lasting, NEW p \in Nodes, HandOn(p)
    PROVE  SoundGoOn'
<1> DEFINE m == Head(inbox[p])
           S == Messages \cup {Gone}
<1>1. /\ run \in [Executors -> {"none", "running", "ending", "gone"}]
      /\ fOpen \in [Executors -> BOOLEAN]
      /\ cut \in [Executors -> {"none", "closing", "frame_lost", "owner_lost"}]
      /\ handled \in [Executors -> {"none", "taken", "refused"}]
      /\ inbox \in [Nodes -> Seq(Messages)] /\ inbox[p] \in Seq(Messages)
      /\ delivered \in Seq(S)
  BY DEF LinkInv, EndsTypeOK, OutboxInv, OutboxTypeOK
<1>2. /\ inbox[p] # <<>> /\ inbox'[p] = Tail(inbox[p])
      /\ \A q \in Nodes : q # p => inbox'[q] = inbox[q]
  BY <1>1 DEF HandOn
<1>3. m \in Messages /\ m \in S /\ m \in Carried(p)
  BY <1>1, <1>2, ElementsAfterHead DEF Carried
<1> HIDE DEF S
<1>4. CASE p = Owner
  <2>1. UNCHANGED <<handled, run, fOpen, cut>>
    BY <1>4 DEF HandOn, HandToOwner, executorEnd
  <2>2. ASSUME NEW e \in Executors, Sound(e), EndAtHand PROVE EndAtHand'
    <3>1. linked
      BY <2>2, HeldByOwner
    <3>2. /\ delivered' \in {delivered, Append(delivered, m)}
          /\ m.kind = "end" => delivered' = Append(delivered, m)
      BY <1>4, <3>1 DEF HandOn, HandToOwner, OwnerHandles, FrameKinds
    <3>3. Elements(Append(delivered, m)) = Elements(delivered) \cup {m}
      BY <1>1, <1>3, ElementsAppended
    <3>4. Elements(inbox[p]) \subseteq Elements(Tail(inbox[p])) \cup {m}
      BY <1>1, <1>2, ElementsKept
    <3> HIDE DEF m
    <3>5. Elements(delivered)' = Elements(delivered')
      BY DEF Elements
    <3>6. Elements(inbox[Owner])' = Elements(Tail(inbox[p]))
      BY <1>2, <1>4 DEF Elements
    <3> QED
      BY <1>4, <2>2, <3>2, <3>3, <3>4, <3>5, <3>6 DEF EndAtHand
  <2> QED
    BY <2>1, <2>2 DEF SoundGoOn, Sound, Going, Lasting
<1>5. CASE p # Owner
  <2> DEFINE e == p
  <2>1. e \in Executors /\ HandToExecutor(e, m) /\ inbox'[Owner] = inbox[Owner]
    BY <1>2, <1>5, LinesOf DEF Nodes, HandOn
  <2>2. delivered' = delivered /\ phase' = phase
    BY <2>1 DEF HandToExecutor, ownerEnd
  <2>3. EndAtHand => EndAtHand'
    BY <2>1, <2>2, EndStays
  <2>4. ASSUME \A x \in Executors : x # e =>
                   /\ handled'[x] = handled[x] /\ run'[x] = run[x]
                   /\ fOpen'[x] = fOpen[x] /\ cut'[x] = cut[x],
               Sound(e)' => Going(e)'
        PROVE  SoundGoOn'
    BY <2>3, <2>4 DEF SoundGoOn, Sound, Going, Lasting
  <2>5. ASSUME UNCHANGED <<handled, run, fOpen>>,
               \A x \in Executors : cut'[x] = cut[x] \/ (x = e /\ cut'[x] = "frame_lost")
        PROVE  SoundGoOn'
    <3>1. Sound(e)' => Sound(e)
      BY <2>1, <2>5 DEF Sound, Lasting
    <3>2. Sound(e)' => Going(e)'
      BY <2>1, <2>3, <2>5, <3>1 DEF SoundGoOn, Going
    <3> QED
      BY <2>4, <2>5, <3>2
  <2>6. CASE m.kind = "request" /\ Request(e) /\ UNCHANGED <<fSent, cSeen, cut, gaps>>
    <3>1. CASE ~FirstTime(e)
      BY <2>5, <2>6, <3>1 DEF Request
    <3>2. CASE FirstTime(e) /\ handled' = [handled EXCEPT ![e] = "refused"]
               /\ UNCHANGED <<run, fOpen>>
      <4>1. ~(Sound(e)')
        BY <1>1, <2>1, <3>2 DEF Sound
      <4> QED
        BY <1>1, <2>4, <2>6, <3>2, <4>1
    <3>3. CASE FirstTime(e) /\ handled' = [handled EXCEPT ![e] = "taken"]
               /\ run' = [run EXCEPT ![e] = "running"] /\ fOpen' = [fOpen EXCEPT ![e] = TRUE]
      <4>1. cut[e] = "none"
        BY <2>1, <3>3 DEF FirstTime, LinkInv, EndIsLast
      <4>2. Going(e)'
        BY <1>1, <2>1, <2>6, <3>3, <4>1 DEF Going
      <4> QED
        BY <1>1, <2>4, <2>6, <3>3, <4>2
    <3> QED
      BY <2>6, <3>1, <3>2, <3>3 DEF Request
  <2>7. CASE m.kind = "control" /\ Control(e, m) /\ UNCHANGED <<handled, run, fOpen>>
    <3>1. \A x \in Executors : cut'[x] = cut[x] \/ (x = e /\ cut'[x] = "frame_lost")
      BY <1>1, <2>7 DEF Control, CutTurn
    <3> QED
      BY <2>5, <2>7, <3>1
  <2>8. CASE m.kind = "released"
    <3>1. phase = "over"
      BY <1>3, <2>1, <2>8 DEF LinkInv, AskedInTurn
    <3> QED
      BY <2>2, <3>1 DEF SoundGoOn, Sound
  <2> QED
    BY <2>1, <2>6, <2>7, <2>8 DEF HandToExecutor
<1> QED
  BY <1>4, <1>5
-----------------------------------------------------------------------------
(* The writers: a turn whose end is written is let go with its end in its  *)
(* owner's inbox, and one of whose frames one was refused is not sound.    *)
LEMMA WriteGoesOn ==
    ASSUME LinkInv, OrderInv, SoundGoOn, Lasting, NEW l \in Lines, NEW twice, Write(l, twice)
    PROVE  SoundGoOn'
<1> DEFINE b == twice \o flight[l]
<1>1. flight[l] \in Seq(Messages) /\ inbox[Owner] \in Seq(Messages)
  BY LinesOf DEF LinkInv, OutboxInv, OutboxTypeOK, Nodes
<1>2. twice \in Seq(Messages)
  BY <1>1, ElementsOfPrefix DEF Write, WriteBatch
<1>3. b \in Seq(Messages) /\ Elements(flight[l]) \subseteq Elements(b)
  BY <1>1, <1>2, ElementsKept
<1> HIDE DEF b
<1>4. /\ Enters(l[2], b) /\ TellWritten(l, Elements(flight[l]))
      /\ UNCHANGED <<handled, phase, fOpen, cut, delivered>>
  BY DEF Write, WriteBatch, Silently, b
<1>5. ASSUME NEW e \in Executors, Sound(e)' PROVE Going(e)'
  <2>1. Sound(e) /\ Going(e) /\ phase # "over"
    BY <1>4, <1>5 DEF Sound, Lasting, SoundGoOn
  <2>2. /\ inbox'[Owner] = inbox[Owner] \/ inbox'[Owner] = inbox[Owner] \o b
        /\ l[2] = Owner => inbox'[Owner] = inbox[Owner] \o b
    BY <1>3, <1>4, <2>1, EntersStays
  <2>3. EndAtHand => EndAtHand'
    BY <1>3, <1>4, <2>2, EndStays
  <2>4. CASE run'[e] = run[e]
    BY <1>4, <2>1, <2>3, <2>4 DEF Going
  <2>5. CASE run'[e] # run[e]
    <3>1. l = ToOwner(e) /\ run'[e] = "gone" /\ \E m \in Elements(flight[l]) : m.kind = "end"
      BY <1>4, <2>5 DEF TellWritten
    <3>2. Elements(b) \subseteq Elements(inbox'[Owner])
      <4>1. inbox'[Owner] = inbox[Owner] \o b
        BY <2>2, <3>1 DEF ToOwner
      <4> QED
        BY <1>1, <1>3, <4>1, ElementsKept
    <3> QED
      BY <1>3, <3>1, <3>2 DEF Going, EndAtHand, Elements
  <2> QED
    BY <2>4, <2>5
<1> QED
  BY <1>5 DEF SoundGoOn

LEMMA RefuseGoesOn ==
    ASSUME LinkInv, OrderInv, SoundGoOn, Lasting, NEW l \in Lines, NEW part,
           Refuse(l, part) \/ CutLine(l, part)
    PROVE  SoundGoOn'
<1>1. flight[l] \in Seq(Messages)
  BY DEF LinkInv, OutboxInv, OutboxTypeOK
<1>2. part \in Seq(Messages) /\ Enters(l[2], part)
  BY <1>1, ElementsOfPart DEF Refuse, CutLine, RefuseBatch, CutWriter
<1>3. PICK ms : Tell(l, ms)
  BY DEF Refuse, CutLine
<1>4. UNCHANGED <<handled, phase>>
  BY DEF Refuse, CutLine, Silently
<1>5. /\ run \in [Executors -> {"none", "running", "ending", "gone"}]
      /\ fOpen \in [Executors -> BOOLEAN]
      /\ cut \in [Executors -> {"none", "closing", "frame_lost", "owner_lost"}]
  BY DEF LinkInv, EndsTypeOK
<1>6. delivered' \in {delivered, Append(delivered, Gone)}
  BY <1>3 DEF Tell, TellOwner, TellExecutor
<1>7. ASSUME NEW e \in Executors, Sound(e)' PROVE Going(e)'
  <2>1. Sound(e) /\ Going(e) /\ phase # "over"
    BY <1>4, <1>7 DEF Sound, Lasting, SoundGoOn
  <2>2. inbox'[Owner] = inbox[Owner] \/ inbox'[Owner] = inbox[Owner] \o part
    BY <1>2, <2>1, EntersStays
  <2>3. EndAtHand => EndAtHand'
    BY <1>2, <1>6, <2>2, EndStays
  <2>4. run'[e] = run[e] /\ fOpen'[e] = fOpen[e] /\ cut'[e] = cut[e]
    <3>1. CASE l[1] = e
      <4>1. TellExecutor(e, ms) /\ l = ToOwner(e)
        <5>1. e # Owner /\ l = <<l[1], l[2]>>
          BY LinesOf, LineEnds
        <5>2. l[2] = Owner
          BY <3>1, <5>1 DEF Lines
        <5> QED
          BY <1>3, <3>1, <5>1, <5>2 DEF Tell, ToOwner
      <4>2. ToOwner(e) \notin refusals'
        BY <1>7 DEF Sound
      <4>3. ~ \E m \in ms : m.kind \in FrameKinds
        BY <1>3, <4>1, <4>2 DEF Tell, TurnKinds, FrameKinds
      <4> QED
        BY <4>1, <4>3 DEF TellExecutor
    <3>2. CASE l[1] # e
      BY <1>3, <1>5, <3>2 DEF Tell, TellOwner, TellExecutor, CutTurn
    <3> QED
      BY <3>1, <3>2
  <2> QED
    BY <2>1, <2>3, <2>4 DEF Going
<1> QED
  BY <1>7 DEF SoundGoOn

(* A step of the outbox alone. *)
LEMMA CalmGoesOn ==
    ASSUME LinkInv, SoundGoOn, Lasting, UNCHANGED <<handled, run, fOpen, cut, delivered>>,
           inbox'[Owner] = inbox[Owner]
    PROVE  SoundGoOn'
<1>1. EndAtHand => EndAtHand'
  BY EndStays
<1> QED
  BY <1>1, GoOnKept

LEMMA CrashGoesOn ==
    ASSUME LinkInv, SoundGoOn, Lasting, NEW p \in Nodes, Crash(p) PROVE SoundGoOn'
<1>1. /\ run \in [Executors -> {"none", "running", "ending", "gone"}]
      /\ fOpen \in [Executors -> BOOLEAN]
      /\ cut \in [Executors -> {"none", "closing", "frame_lost", "owner_lost"}]
      /\ up \in [Nodes -> {"up", "closing", "closed", "crashed"}]
      /\ inbox \in [Nodes -> Seq(Messages)]
  BY DEF LinkInv, EndsTypeOK, OutboxInv, OutboxTypeOK
<1>2. CASE p = Owner
  BY <1>2 DEF Crash, Forget, SoundGoOn, Sound
<1>3. CASE p # Owner
  <2>1. p \in Executors /\ UNCHANGED <<handled, delivered>> /\ inbox'[Owner] = inbox[Owner]
    BY <1>1, <1>3, LinesOf DEF Crash, LoseOutbox, Nodes
  <2>2. EndAtHand => EndAtHand'
    BY <2>1, EndStays
  <2>3. \A x \in Executors : x # p =>
            run'[x] = run[x] /\ fOpen'[x] = fOpen[x] /\ cut'[x] = cut[x]
    BY <1>1, <1>3 DEF Crash
  <2>4. ~(Sound(p)')
    BY <1>1 DEF Crash, Sound, Serves
  <2> QED
    BY <2>1, <2>2, <2>3, <2>4 DEF SoundGoOn, Sound, Going, Lasting
<1> QED
  BY <1>2, <1>3

LEMMA StepGoesOn ==
    ASSUME LinkInv, FlowInv, OrderInv, SoundGoOn, [Next]_vars PROVE SoundGoOn'
<1>0. Lasting
  BY StepLasts
<1>1. CASE Owns \/ SendControl \/ GiveUp
  BY <1>0, <1>1, OwnerGoesOn
<1>2. ASSUME NEW e \in Executors,
             SendFrame(e) \/ Runs(e) \/ EndUnwritten(e) \/ Close(e) \/ StopReading(e)
      PROVE  SoundGoOn'
  BY <1>0, <1>2, ExecutorGoesOn
<1>3. ASSUME NEW p \in Nodes, HandOn(p) PROVE SoundGoOn'
  BY <1>0, <1>3, HandedGoesOn
<1>4. ASSUME NEW l \in Lines, Transport(l) \/ Retire(l) PROVE SoundGoOn'
  <2>1. CASE \E s : Write(l, s) \/ Refuse(l, s)
    BY <1>0, <2>1, WriteGoesOn, RefuseGoesOn
  <2>2. CASE Retire(l) \/ (TakeBatch(l) /\ UNCHANGED <<ownerEnd, executorEnd>>)
    BY <1>0, <2>2, CalmGoesOn
       DEF Retire, RetireWriter, StopWriter, TakeBatch, ownerEnd, executorEnd
  <2> QED
    BY <1>4, <2>1, <2>2 DEF Transport
<1>5. CASE Leaves
  BY <1>0, <1>2, <1>5, RefuseGoesOn, CrashGoesOn DEF Leaves
<1>6. CASE UNCHANGED vars
  BY <1>0, <1>6, CalmGoesOn DEF vars, outbox, ownerEnd, executorEnd
<1> QED
  BY <1>1, <1>2, <1>3, <1>4, <1>5, <1>6 DEF Next
-----------------------------------------------------------------------------
(* An owner that hears nothing of a turn has lost something of it. *)
LEMMA SilenceTold ==
    ASSUME LinkInv, OrderInv, SoundGoOn, Silence
    PROVE  \/ up[target] \in {"closed", "crashed"}
           \/ ToOwner(target) \in refusals
           \/ target \in late
<1>1. phase = "reading" /\ ~OwnerHears /\ target \in Executors /\ handled[target] = "taken"
  BY DEF Silence, LinkInv, AskedInTurn, OrderInv, TakenAsTold
<1>2. up[target] \in {"up", "closing", "closed", "crashed"}
  BY <1>1, LinesOf DEF LinkInv, EndsTypeOK
<1>3. ASSUME Sound(target) PROVE FALSE
  <2>1. Beats(target)
    BY <1>3 DEF Sound, Serves, Beats
  <2>2. run[target] = "gone" /\ EndAtHand
    BY <1>1, <1>3, <2>1 DEF SoundGoOn, Going, OwnerHears, StillRuns
  <2>3. PICK m \in Elements(inbox[Owner]) \cup Elements(delivered) : m.kind = "end"
    BY <2>2 DEF EndAtHand
  <2>4. m \notin Elements(inbox[Owner])
    BY <1>1, <2>3 DEF OwnerHears, Elements, FrameKinds
  <2>5. delivered = <<>>
    BY <1>1 DEF OwnerHears
  <2> QED
    BY <2>3, <2>4, <2>5, EmptyElements
<1> QED
  BY <1>1, <1>2, <1>3 DEF Sound, Serves

(* What a turn lost to silence shows, as long as it is remembered. *)
LossTold ==
    why = "silence" =>
        /\ target \in Executors
        /\ \/ ~Serves(target)
           \/ ToOwner(target) \in refusals
           \/ target \in late

LEMMA StepTold ==
    ASSUME LinkInv, FlowInv, OrderInv, SoundGoOn, LossTold, [Next]_vars PROVE LossTold'
<1>1. Lasting
  BY StepLasts
<1>2. \A e \in Executors : up[e] \notin {"up", "closing"} => up'[e] \notin {"up", "closing"}
  BY <1>1 DEF Lasting, Serves
<1> SUFFICES ASSUME why' = "silence"
             PROVE  /\ target' \in Executors
                    /\ \/ up'[target'] \notin {"up", "closing"}
                       \/ ToOwner(target') \in refusals'
                       \/ target' \in late'
  BY DEF LossTold, Serves, ToOwner
<1>3. CASE Silence
  <2>1. UNCHANGED <<up, target, refusals, late>>
    BY <1>3 DEF Silence, history
  <2>2. target \in Executors
    BY <1>3 DEF Silence, LinkInv, AskedInTurn
  <2> QED
    BY <1>3, <2>1, <2>2, SilenceTold
<1>4. CASE ~Silence
  <2>1. why = "silence" /\ target' = target
    BY <1>1, <1>4 DEF Lasting, FlowInv, ReadsSent
  <2> QED
    BY <1>1, <1>2, <2>1 DEF LossTold, Serves, Lasting
<1> QED
  BY <1>3, <1>4

(* A turn is lost to its owner's silence limit only when the executor's    *)
(* process went, when Redis refused a frame of it, or when its end was not *)
(* written in time: not because its end is still under way, nor because    *)
(* the executor gave the turn up (_Inbound.next, Beats, turn_ended).       *)
THEOREM SilenceIsLoss == Spec => []SilenceMeansLoss
<1>1. LinkInv /\ LossTold => SilenceMeansLoss
  <2>1. LinkInv => \A e \in Executors : up[e] \in {"up", "closing", "closed", "crashed"}
    BY LinesOf DEF LinkInv, EndsTypeOK
  <2> QED
    BY <2>1 DEF LossTold, SilenceMeansLoss, Serves
<1>2. LinkInv /\ FlowInv /\ [Next]_vars => FlowInv'
  BY StepCarries DEF Carries
<1>3. LinkInv /\ FlowInv /\ OrderInv /\ [Next]_vars => OrderInv'
  BY StepOrder
<1>4. LinkInv /\ FlowInv /\ OrderInv /\ SoundGoOn /\ [Next]_vars => SoundGoOn'
  BY StepGoesOn
<1>5. LinkInv /\ FlowInv /\ OrderInv /\ SoundGoOn /\ LossTold /\ [Next]_vars => LossTold'
  BY StepTold
<1>6. Init => FlowInv /\ OrderInv
  BY FlowStarts, OrderStarts
<1>7. Init => SoundGoOn /\ LossTold
  BY DEF Init, SoundGoOn, Sound, LossTold
<1> QED
  BY <1>1, <1>2, <1>3, <1>4, <1>5, <1>6, <1>7, LinkInvariant, PTL DEF Spec
=============================================================================
