-------------------------- MODULE RoomLocksProofs ---------------------------
(***************************************************************************)
(* Theorems about RoomLocks for any tasks, rooms and locks, any size of    *)
(* the table.  The argument: a lock has at most one task between its grant *)
(* and its release (OneHolder); an entry's count is the number of tasks    *)
(* that use it (RefsKept); so an entry the table evicts has no user, and   *)
(* the lock made in its place is nobody else's.                            *)
(***************************************************************************)
EXTENDS RoomLocks, FiniteSetTheorems, SequenceTheorems, FunctionTheorems,
        WellFoundedInduction, TLAPS

(* x stands before y in a line. *)
Before(s, x, y) == \E i, j \in DOMAIN s : i < j /\ s[i] = x /\ s[j] = y
Member(s, x) == \E i \in DOMAIN s : s[i] = x

(***************************************************************************)
(* Lines: who joins stands behind all, who leaves leaves the others in     *)
(* their order.                                                            *)
(***************************************************************************)
(* A set of naturals has a least member (the library states it of a relation). *)
LEMMA LeastOf ==
    ASSUME NEW T \in SUBSET Nat, T # {}
    PROVE  \E m \in T : \A k \in T : m <= k
<1> DEFINE R == {ss \in Nat \X Nat : ss[1] < ss[2]}
<1>1. IsWellFoundedOn(R, Nat)
  BY NatLessThanWellFounded DEF OpToRel
<1>2. PICK m \in T : \A k \in T : <<k, m>> \notin R
  <2> HIDE DEF R
  <2> QED
    BY <1>1, WFMin
<1>3. ASSUME NEW k \in T PROVE m <= k
  <2>1. k \in Nat /\ m \in Nat /\ <<k, m>> \in Nat \X Nat /\ ~(k < m)
    BY <1>2
  <2> QED
    BY <2>1
<1> QED
  BY <1>2, <1>3

(* What RemoveAt takes out and what it leaves, position by position. *)
LEMMA CutOut ==
    ASSUME NEW S, NEW s \in Seq(S), NEW i \in 1 .. Len(s)
    PROVE  /\ RemoveAt(s, i) \in Seq(S) /\ Len(RemoveAt(s, i)) = Len(s) - 1
           /\ \A j \in 1 .. Len(s) - 1 :
                 RemoveAt(s, i)[j] = IF j < i THEN s[j] ELSE s[j + 1]
<1> DEFINE r == RemoveAt(s, i)
           left == SubSeq(s, 1, i - 1)
           right == SubSeq(s, i + 1, Len(s))
<1>1. /\ left \in Seq(S) /\ Len(left) = i - 1
      /\ \A j \in 1 .. i - 1 : left[j] = s[j]
  OBVIOUS
<1>2. /\ right \in Seq(S) /\ Len(right) = Len(s) - i
      /\ \A j \in 1 .. Len(s) - i : right[j] = s[i + j]
  OBVIOUS
<1>3. r = left \o right
  BY DEF RemoveAt
<1> HIDE DEF r, left, right
<1>0. Len(s) \in Nat /\ i \in Nat /\ i <= Len(s) /\ i >= 1
  OBVIOUS
<1>4. /\ left \o right \in Seq(S) /\ Len(left \o right) = Len(left) + Len(right)
      /\ \A j \in 1 .. Len(left) + Len(right) :
            (left \o right)[j] = IF j <= Len(left) THEN left[j] ELSE right[j - Len(left)]
  <2>1. left \in Seq(S) /\ right \in Seq(S)
    BY <1>1, <1>2
  <2> QED
    BY <2>1, ConcatProperties
<1>5. /\ r \in Seq(S) /\ Len(r) = Len(s) - 1
      /\ \A j \in 1 .. Len(s) - 1 :
            r[j] = IF j <= i - 1 THEN left[j] ELSE right[j - (i - 1)]
  <2>1. Len(left) = i - 1 /\ Len(right) = Len(s) - i
    BY <1>1, <1>2
  <2>2. Len(left) + Len(right) = Len(s) - 1
    BY <1>0, <2>1
  <2>3. Len(r) = Len(s) - 1 /\ r \in Seq(S)
    BY <1>3, <1>4, <2>2
  <2>4. ASSUME NEW j \in 1 .. Len(s) - 1
        PROVE r[j] = IF j <= i - 1 THEN left[j] ELSE right[j - (i - 1)]
    BY <1>3, <1>4, <2>1, <2>2
  <2> QED
    BY <2>3, <2>4
<1>6. ASSUME NEW j \in 1 .. Len(s) - 1 PROVE r[j] = IF j < i THEN s[j] ELSE s[j + 1]
  <2>0. j \in Nat /\ j >= 1 /\ j <= Len(s) - 1
    BY <1>0
  <2>1. CASE j < i
    <3>1. j <= i - 1 /\ j \in 1 .. i - 1
      BY <1>0, <2>0, <2>1
    <3> QED
      BY <1>1, <1>5, <2>0, <2>1, <3>1
  <2>2. CASE ~(j < i)
    <3>1. j - (i - 1) \in 1 .. Len(s) - i /\ i + (j - (i - 1)) = j + 1 /\ ~(j <= i - 1)
      BY <1>0, <2>0, <2>2
    <3>2. r[j] = right[j - (i - 1)]
      BY <1>5, <2>0, <3>1
    <3> QED
      BY <1>2, <2>2, <3>1, <3>2
  <2> QED
    BY <2>1, <2>2
<1> QED
  BY <1>5, <1>6 DEF r

-----------------------------------------------------------------------------

(* RemoveFirst takes the first occurrence out, if there is one. *)
LEMMA FirstOut ==
    ASSUME NEW S, NEW s \in Seq(S), NEW e
    PROVE  \/ ~Member(s, e) /\ RemoveFirst(s, e) = s
           \/ \E i \in 1 .. Len(s) : s[i] = e /\ RemoveFirst(s, e) = RemoveAt(s, i)
<1> DEFINE I == {i \in 1 .. Len(s) : s[i] = e}
<1>1. CASE \E i \in 1 .. Len(s) : s[i] = e
  <2>1. \E m \in I : \A k \in I : m <= k
    <3>1. I \in SUBSET Nat /\ I # {}
      BY <1>1
    <3> HIDE DEF I
    <3> QED
      BY <3>1, LeastOf
  <2>2. Min(I) \in I
    BY <2>1 DEF Min
  <2>3. RemoveFirst(s, e) = RemoveAt(s, Min(I))
    BY <1>1 DEF RemoveFirst, SelectInSeq
  <2> QED
    BY <2>2, <2>3
<1>2. CASE ~ \E i \in 1 .. Len(s) : s[i] = e
  BY <1>2 DEF RemoveFirst, Member
<1> QED
  BY <1>1, <1>2

(* Nobody stands twice in a line. *)
Once(s) == \A x : ~Before(s, x, x)

(* Who is taken out of a line is in it no more, and the others keep their  *)
(* order.                                                                  *)
LEMMA LineLeft ==
    ASSUME NEW S, NEW s \in Seq(S), NEW e, Once(s)
    PROVE  /\ RemoveFirst(s, e) \in Seq(S) /\ Once(RemoveFirst(s, e))
           /\ \A x : Member(RemoveFirst(s, e), x) <=> Member(s, x) /\ x # e
           /\ \A x, y : Before(RemoveFirst(s, e), x, y) => Before(s, x, y)
<1> DEFINE r == RemoveFirst(s, e)
<1>1. CASE ~Member(s, e) /\ r = s
  BY <1>1
<1>2. ASSUME NEW i \in 1 .. Len(s), s[i] = e, r = RemoveAt(s, i)
      PROVE  /\ r \in Seq(S) /\ Once(r)
             /\ \A x : Member(r, x) <=> Member(s, x) /\ x # e
             /\ \A x, y : Before(r, x, y) => Before(s, x, y)
  <2>1. /\ r \in Seq(S) /\ Len(r) = Len(s) - 1
        /\ \A j \in 1 .. Len(s) - 1 : r[j] = IF j < i THEN s[j] ELSE s[j + 1]
    BY <1>2, CutOut
  <2> HIDE DEF r
  <2>2. /\ DOMAIN s = 1 .. Len(s) /\ Len(s) \in Nat /\ DOMAIN r = 1 .. Len(s) - 1
        /\ i \in Nat /\ i >= 1 /\ i <= Len(s)
    BY <2>1
  <2>3. ASSUME NEW x, NEW y, Before(r, x, y) PROVE Before(s, x, y)
    <3>1. PICK j \in DOMAIN r, k \in DOMAIN r : j < k /\ r[j] = x /\ r[k] = y
      BY <2>3 DEF Before
    <3> DEFINE p == IF j < i THEN j ELSE j + 1
               q == IF k < i THEN k ELSE k + 1
    <3>2. p \in DOMAIN s /\ q \in DOMAIN s /\ p < q
      BY <3>1, <2>2
    <3>3. r[j] = s[p] /\ r[k] = s[q]
      BY <2>1, <2>2
    <3> QED
      BY <3>1, <3>2, <3>3 DEF Before
  <2>4. ASSUME NEW x, Member(r, x) PROVE Member(s, x) /\ x # e
    <3>1. PICK j \in DOMAIN r : r[j] = x
      BY <2>4 DEF Member
    <3> DEFINE p == IF j < i THEN j ELSE j + 1
    <3>2. p \in DOMAIN s /\ p # i /\ p \in Nat
      BY <2>2
    <3>3. s[p] = x
      BY <2>1, <2>2, <3>1
    <3> HIDE DEF p
    <3>4. CASE p < i
      BY <3>2, <3>3, <3>4, <1>2, <2>2 DEF Before, Once, Member
    <3>5. CASE i < p
      BY <3>2, <3>3, <3>5, <1>2, <2>2 DEF Before, Once, Member
    <3> QED
      BY <3>2, <3>4, <3>5, <2>2
  <2>5. ASSUME NEW x, Member(s, x), x # e PROVE Member(r, x)
    <3>1. PICK p \in DOMAIN s : s[p] = x
      BY <2>5 DEF Member
    <3>2. p # i /\ p \in Nat
      BY <1>2, <2>2, <2>5, <3>1
    <3>3. CASE p < i
      <4>1. p \in 1 .. Len(s) - 1
        BY <2>2, <3>2, <3>3
      <4> QED
        BY <2>1, <2>2, <3>1, <3>3, <4>1 DEF Member
    <3>4. CASE i < p
      <4>1. p - 1 \in 1 .. Len(s) - 1 /\ ~(p - 1 < i) /\ (p - 1) + 1 = p
        BY <2>2, <3>2, <3>4
      <4>2. r[p - 1] = s[p]
        BY <2>1, <4>1
      <4> QED
        BY <2>2, <3>1, <4>1, <4>2 DEF Member
    <3> QED
      BY <2>2, <3>2, <3>3, <3>4
  <2>6. Once(r)
    BY <2>3 DEF Once
  <2> QED
    BY <2>1, <2>3, <2>4, <2>5, <2>6
<1> QED
  BY <1>1, <1>2, FirstOut

(* Who joins stands behind all the others. *)
LEMMA LineJoined ==
    ASSUME NEW S, NEW s \in Seq(S), NEW e \in S, Once(s), ~Member(s, e)
    PROVE  /\ Append(s, e) \in Seq(S) /\ Once(Append(s, e))
           /\ \A x : Member(Append(s, e), x) <=> Member(s, x) \/ x = e
           /\ \A x, y : Before(Append(s, e), x, y) =>
                 Before(s, x, y) \/ (Member(s, x) /\ y = e)
<1> DEFINE r == Append(s, e)
<1>1. /\ r \in Seq(S) /\ Len(r) = Len(s) + 1 /\ Len(s) \in Nat
      /\ DOMAIN s = 1 .. Len(s) /\ DOMAIN r = 1 .. Len(s) + 1
      /\ r[Len(s) + 1] = e
      /\ \A i \in 1 .. Len(s) : r[i] = s[i]
  OBVIOUS
<1> HIDE DEF r
<1>2. ASSUME NEW x, NEW y, Before(r, x, y)
      PROVE  Before(s, x, y) \/ (Member(s, x) /\ y = e)
  <2>1. PICK j \in DOMAIN r, k \in DOMAIN r : j < k /\ r[j] = x /\ r[k] = y
    BY <1>2 DEF Before
  <2>2. j \in 1 .. Len(s) /\ (k \in 1 .. Len(s) \/ k = Len(s) + 1)
    BY <1>1, <2>1
  <2> QED
    BY <1>1, <2>1, <2>2 DEF Before, Member
<1>3. ASSUME NEW x PROVE Member(r, x) <=> Member(s, x) \/ x = e
  <2>1. Len(s) + 1 \in DOMAIN r /\ \A i \in DOMAIN s : i \in DOMAIN r
    BY <1>1
  <2>2. \A i \in DOMAIN r : i \in DOMAIN s \/ i = Len(s) + 1
    BY <1>1
  <2> QED
    BY <1>1, <2>1, <2>2 DEF Member
<1>4. Once(r)
  <2> SUFFICES ASSUME NEW x, Before(r, x, x) PROVE FALSE
    BY DEF Once
  <2> QED
    BY <1>2 DEF Once
<1> QED
  BY <1>1, <1>2, <1>3, <1>4, Zenon DEF r

(* The first of a line goes, the others keep their order. *)
LEMMA LineHeadGone ==
    ASSUME NEW S, NEW s \in Seq(S), s # <<>>, Once(s)
    PROVE  /\ Tail(s) \in Seq(S) /\ Once(Tail(s))
           /\ \A x : Member(Tail(s), x) <=> Member(s, x) /\ x # Head(s)
<1> DEFINE r == Tail(s)
<1>1. /\ r \in Seq(S) /\ Len(r) = Len(s) - 1 /\ Len(s) \in Nat /\ Len(s) >= 1
      /\ DOMAIN s = 1 .. Len(s) /\ DOMAIN r = 1 .. Len(s) - 1
      /\ Head(s) = s[1]
      /\ \A i \in 1 .. Len(s) - 1 : r[i] = s[i + 1]
  OBVIOUS
<1> HIDE DEF r
<1>2. ASSUME NEW x, Member(r, x) PROVE Member(s, x) /\ x # Head(s)
  <2>1. PICK i \in DOMAIN r : r[i] = x
    BY <1>2 DEF Member
  <2>2. i + 1 \in DOMAIN s /\ 1 \in DOMAIN s /\ 1 < i + 1
    BY <1>1
  <2>3. s[i + 1] = x /\ s[1] = Head(s)
    BY <1>1, <2>1
  <2> QED
    BY <2>2, <2>3 DEF Member, Before, Once
<1>4. ASSUME NEW x, Member(s, x), x # Head(s) PROVE Member(r, x)
  <2>1. PICK i \in DOMAIN s : s[i] = x
    BY <1>4 DEF Member
  <2>2. i - 1 \in DOMAIN r /\ (i - 1) + 1 = i
    BY <1>1, <1>4, <2>1
  <2>3. r[i - 1] = x
    BY <1>1, <2>1, <2>2
  <2> QED
    BY <2>2, <2>3 DEF Member
<1>3. Once(r)
  <2> SUFFICES ASSUME NEW x, Before(r, x, x) PROVE FALSE
    BY DEF Once
  <2>1. PICK j \in DOMAIN r, k \in DOMAIN r : j < k /\ r[j] = x /\ r[k] = x
    BY DEF Before
  <2>2. j + 1 \in DOMAIN s /\ k + 1 \in DOMAIN s /\ j + 1 < k + 1
    BY <1>1, <2>1
  <2>3. s[j + 1] = x /\ s[k + 1] = x
    BY <1>1, <2>1
  <2> QED
    BY <2>2, <2>3 DEF Before, Once
<1> QED
  BY <1>1, <1>2, <1>3, <1>4, Zenon DEF r

(* What Kept computes: a recursive function on the lengths, which has a    *)
(* value on each by the least length that had none.                        *)
KeptStep(s, gone, f, n) ==
    IF n = 0 THEN <<>>
    ELSE IF s[n] \in gone THEN f[n - 1] ELSE Append(f[n - 1], s[n])
KeptTo(s, gone, f, n) == f = [m \in 0 .. n |-> KeptStep(s, gone, f, m)]

(* The recursive function Kept is built on has a value at every length. *)
LEMMA KeptExists ==
    ASSUME NEW S, NEW s \in Seq(S), NEW gone
    PROVE  \E f : KeptTo(s, gone, f, Len(s))
<1> DEFINE T == {n \in 0 .. Len(s) : ~ \E f : KeptTo(s, gone, f, n)}
<1>1. Len(s) \in Nat
  OBVIOUS
<1>2. ASSUME NEW n \in T, \A k \in T : n <= k PROVE FALSE
  <2>1. n \in Nat /\ n <= Len(s) /\ ~ \E f : KeptTo(s, gone, f, n)
    BY <1>1, <1>2
  <2>2. CASE n = 0
    <3> DEFINE f == [m \in 0 .. 0 |-> <<>>]
    <3>1. f = [m \in 0 .. 0 |-> KeptStep(s, gone, f, m)]
      <4>1. \A m \in 0 .. 0 : KeptStep(s, gone, f, m) = <<>>
        BY DEF KeptStep
      <4> QED
        BY <4>1
    <3> QED
      BY <2>1, <2>2, <3>1 DEF KeptTo
  <2>3. CASE n # 0
    <3>1. n - 1 \in 0 .. Len(s) /\ n - 1 \notin T
      BY <1>1, <1>2, <2>1, <2>3
    <3>2. PICK f : KeptTo(s, gone, f, n - 1)
      BY <3>1
    <3> DEFINE g == [m \in 0 .. n |-> IF m = n THEN KeptStep(s, gone, f, n) ELSE f[m]]
    <3>3. ASSUME NEW m \in 0 .. n PROVE g[m] = KeptStep(s, gone, g, m)
      <4>1. CASE m = n
        <5>1. g[n - 1] = f[n - 1] /\ g[n] = KeptStep(s, gone, f, n)
          BY <2>1, <2>3
        <5> QED
          BY <2>3, <4>1, <5>1 DEF KeptStep
      <4>2. CASE m # n
        <5>1. m \in 0 .. n - 1 /\ (m # 0 => m - 1 \in 0 .. n /\ m - 1 # n)
          BY <2>1, <4>2
        <5>2. g[m] = f[m] /\ (m # 0 => g[m - 1] = f[m - 1])
          BY <4>2, <5>1
        <5>3. f[m] = KeptStep(s, gone, f, m)
          <6> HIDE DEF g
          <6>1. f = [k \in 0 .. n - 1 |-> KeptStep(s, gone, f, k)]
            BY <3>2 DEF KeptTo
          <6> QED
            BY <5>1, <6>1
        <5> QED
          BY <5>2, <5>3 DEF KeptStep
      <4> QED
        BY <4>1, <4>2
    <3>4. g = [m \in 0 .. n |-> KeptStep(s, gone, g, m)]
      BY <3>3
    <3> QED
      BY <2>1, <3>4 DEF KeptTo
  <2> QED
    BY <2>2, <2>3
<1>3. T = {}
  <2>1. T \in SUBSET Nat
    BY <1>1
  <2> HIDE DEF T
  <2> QED
    BY <1>2, <2>1, LeastOf
<1> QED
  BY <1>1, <1>3

(* Kept is a sequence of what it was made of, the rooms that go left out.  *)
LEMMA KeptIsKept ==
    ASSUME NEW S, NEW s \in Seq(S), NEW gone
    PROVE  Kept(s, gone) \in Seq(S \ gone)
<1> DEFINE f == CHOOSE g : KeptTo(s, gone, g, Len(s))
<1>1. KeptTo(s, gone, f, Len(s))
  BY KeptExists
<1>2. Kept(s, gone) = f[Len(s)]
  BY DEF Kept, KeptTo, KeptStep
<1> HIDE DEF f
<1> DEFINE T == {n \in 0 .. Len(s) : f[n] \notin Seq(S \ gone)}
<1>3. Len(s) \in Nat /\ \A n \in 0 .. Len(s) : f[n] = KeptStep(s, gone, f, n)
  <2>1. f = [m \in 0 .. Len(s) |-> KeptStep(s, gone, f, m)]
    BY <1>1 DEF KeptTo
  <2> QED
    BY <2>1
<1>4. ASSUME NEW n \in T, \A k \in T : n <= k PROVE FALSE
  <2>1. n \in Nat /\ n \in 0 .. Len(s) /\ f[n] \notin Seq(S \ gone)
    BY <1>3, <1>4
  <2>2. n # 0
    <3>1. KeptStep(s, gone, f, 0) = <<>> /\ <<>> \in Seq(S \ gone)
      BY DEF KeptStep
    <3> QED
      BY <1>3, <2>1, <3>1
  <2>3. f[n - 1] \in Seq(S \ gone) /\ s[n] \in S
    BY <1>3, <1>4, <2>1, <2>2
  <2>4. f[n] = IF s[n] \in gone THEN f[n - 1] ELSE Append(f[n - 1], s[n])
    BY <1>3, <2>1, <2>2 DEF KeptStep
  <2> QED
    BY <2>1, <2>3, <2>4
<1>5. T = {}
  <2>1. T \in SUBSET Nat
    BY <1>3
  <2> HIDE DEF T
  <2> QED
    BY <1>4, <2>1, LeastOf
<1> QED
  BY <1>2, <1>3, <1>5

(***************************************************************************)
(* The inductive invariant.                                                *)
(***************************************************************************)

Users(r) == {t \in Tasks : at[t] # "away" /\ under[t] = None /\ room[t] = r}

(* What each call's place says of its room, its lock and its section.      *)
CallKept(t) ==
    /\ at[t] = "away" => room[t] = None /\ lock[t] = None /\ under[t] = None
    /\ at[t] # "away" => room[t] \in Rooms
    /\ under[t] # None => at[t] = "inside" /\ lock[t] = None
    /\ at[t] # "away" /\ under[t] = None => lock[t] \in Locks /\ lock[t] = lockOf[room[t]]
    /\ under[t] # None /\ t \notin overrun =>
          at[under[t]] \in {"hook", "settling", "holding"} /\ room[under[t]] = room[t]
    /\ t \in writing \cup overrun => under[t] # None
CallsKept == \A t \in Tasks : CallKept(t)

(* A lock has one holder.                                                  *)
OneHolder ==
    \A t, u \in Tasks :
        Within(t) /\ Within(u) /\ lock[t] = lock[u] /\ lock[t] # None => t = u

(* A room's references are its users. *)
RefsKept == \A r \in Rooms : refs[r] = Cardinality(Users(r))

LocksInv == LocksTypeOK /\ CallsKept /\ OneHolder /\ RefsKept

-----------------------------------------------------------------------------
(* What is used of the invariant everywhere. *)
LEMMA LocksFacts ==
    ASSUME LocksInv
    PROVE  /\ LocksTypeOK /\ OneHolder /\ \A t \in Tasks : CallKept(t)
           /\ \A r \in Rooms : /\ refs[r] = Cardinality(Users(r)) /\ refs[r] \in Nat
                               /\ IsFiniteSet(Users(r))
<1>1. \A r \in Rooms : Users(r) \in SUBSET Tasks
  BY DEF Users
<1> QED
  BY <1>1, LocksAssumption, FS_Subset DEF LocksInv, CallsKept, RefsKept, LocksTypeOK

(* There is a lock left for a room that has none: those in use are the     *)
(* other rooms'.                                                           *)
LEMMA LockLeft ==
    ASSUME LocksInv, NEW r \in Rooms, lockOf[r] = None
    PROVE  NewLock \in Locks
<1> DEFINE P == Rooms \ {r}
           Q == {lockOf[s] : s \in P}
<1>1. IsFiniteSet(P) /\ Cardinality(P) = Cardinality(Rooms) - 1
  BY FS_RemoveElement, LocksAssumption
<1>2. IsFiniteSet(Q) /\ Cardinality(Q) <= Cardinality(P)
  <2> DEFINE f == [s \in P |-> lockOf[s]]
  <2>1. f \in Surjection(P, Q)
    BY DEF Surjection
  <2> HIDE DEF f, P, Q
  <2> QED
    BY <1>1, <2>1, FS_Surjection DEF ExistsSurjection
<1>3. \A l \in Locks : l \in Named => l \in Q
  <2>1. None \notin Locks
    BY LocksAssumption
  <2>2. ASSUME NEW t \in Tasks, lock[t] \in Locks PROVE lock[t] \in Q
    <3>1. at[t] # "away" /\ under[t] = None
      BY <2>1, <2>2, LocksFacts DEF CallKept
    <3>2. room[t] \in Rooms /\ lock[t] = lockOf[room[t]] /\ room[t] # r
      BY <2>1, <2>2, <3>1, LocksFacts DEF CallKept
    <3> QED
      BY <3>2
  <2> QED
    BY <2>1, <2>2 DEF Named
<1>4. \E l \in Locks : l \notin Q
  <2> SUFFICES ASSUME Locks \subseteq Q PROVE FALSE
    OBVIOUS
  <2> HIDE DEF P, Q
  <2>1. IsFiniteSet(Locks) /\ Cardinality(Locks) <= Cardinality(Q)
    BY <1>2, FS_Subset
  <2>2. /\ Cardinality(Locks) \in Nat /\ Cardinality(Q) \in Nat
        /\ Cardinality(P) \in Nat /\ Cardinality(Rooms) \in Nat
    BY <1>1, <1>2, <2>1, LocksAssumption, FS_CardinalityType
  <2> QED
    BY <1>1, <1>2, <2>1, <2>2, LocksAssumption
<1>5. \E l \in Locks : l \notin Named
  BY <1>3, <1>4
<1> QED
  BY <1>5 DEF NewLock

(* What is evicted had no user. *)
LEMMA EvictedUnused ==
    ASSUME LocksInv, NEW r \in Rooms, NEW s \in Evicted(Append(table, r)) \ {r}
    PROVE  s \in Rooms /\ refs[s] = 0 /\ Users(s) = {}
<1> DEFINE order == Append(table, r)
<1>1. order \in Seq(Rooms)
  BY DEF LocksInv, LocksTypeOK
<1>2. s \in Rooms /\ Evictable(s)
  <2> HIDE DEF order
  <2>1. PICK i \in DOMAIN order : s = order[i] /\ Evictable(order[i])
    BY DEF Evicted, order
  <2> QED
    BY <1>1, <2>1
<1> QED
  BY <1>2, LocksFacts, FS_EmptySet DEF Evictable

(* A call takes its room's lock: one reference more, and no lock that is   *)
(* used is another's or gone.                                              *)
LEMMA GotLock ==
    ASSUME LocksInv, NEW r \in Rooms, GetLock(r)
    PROVE  /\ table' \in Seq(Rooms) /\ lockOf' \in [Rooms -> Locks \cup {None}]
           /\ refs' \in [Rooms -> Nat] /\ lockOf'[r] \in Locks
           /\ refs'[r] = refs[r] + 1 /\ \A s \in Rooms \ {r} : refs'[s] = refs[s]
           /\ \A s \in Rooms : Users(s) # {} => lockOf'[s] = lockOf[s]
<1>0. /\ table \in Seq(Rooms) /\ lockOf \in [Rooms -> Locks \cup {None}]
      /\ refs \in [Rooms -> Nat]
  BY DEF LocksInv, LocksTypeOK
<1>1. CASE lockOf[r] # None
  <2>1. /\ table' = Append(RemoveFirst(table, r), r)
        /\ refs' = [refs EXCEPT ![r] = @ + 1] /\ lockOf' = lockOf
    BY <1>1 DEF GetLock
  <2>2. table' \in Seq(Rooms)
    <3>1. RemoveFirst(table, r) \in Seq(Rooms)
      BY <1>0, FirstOut, CutOut
    <3> QED
      BY <2>1, <3>1
  <2> QED
    BY <1>0, <1>1, <2>1, <2>2
<1>2. CASE lockOf[r] = None
  <2> DEFINE gone == Evicted(Append(table, r)) \ {r}
  <2>1. /\ table' = Append(Kept(table, gone), r)
        /\ lockOf' = [s \in Rooms |-> IF s = r THEN NewLock
                                      ELSE IF s \in gone THEN None ELSE lockOf[s]]
        /\ refs' = [s \in Rooms |-> IF s = r THEN 1
                                    ELSE IF s \in gone THEN 0 ELSE refs[s]]
    BY <1>2 DEF GetLock
  <2>2. \A s \in gone : s \in Rooms /\ refs[s] = 0 /\ Users(s) = {}
    BY EvictedUnused
  <2>3. NewLock \in Locks
    BY <1>2, LockLeft
  <2> HIDE DEF gone
  <2>4. table' \in Seq(Rooms)
    <3>1. Kept(table, gone) \in Seq(Rooms \ gone)
      BY <1>0, KeptIsKept
    <3>2. Kept(table, gone) \in Seq(Rooms)
      BY <3>1
    <3> QED
      BY <2>1, <3>2
  <2>5. Users(r) = {} /\ refs[r] = 0
    <3>1. Users(r) = {}
      BY <1>2, LocksFacts, LocksAssumption DEF Users, CallKept
    <3> QED
      BY <3>1, LocksFacts, FS_EmptySet
  <2> QED
    BY <1>0, <2>1, <2>2, <2>3, <2>4, <2>5
<1> QED
  BY <1>1, <1>2

(* A reference given back by a user of a room. *)
LEMMA RefGivenBack ==
    ASSUME LocksInv, NEW r \in Rooms, NEW t \in Users(r), ReleaseRef(r),
           Users(r)' = Users(r) \ {t}, \A s \in Rooms \ {r} : Users(s)' = Users(s)
    PROVE  RefsKept' /\ refs' \in [Rooms -> Nat]
<1>1. /\ refs \in [Rooms -> Nat] /\ IsFiniteSet(Users(r))
      /\ \A s \in Rooms : refs[s] = Cardinality(Users(s))
  BY LocksFacts DEF LocksTypeOK
<1>2. Cardinality(Users(r)') = Cardinality(Users(r)) - 1 /\ refs[r] # 0
  BY <1>1, FS_RemoveElement, FS_EmptySet
<1>3. refs' = [refs EXCEPT ![r] = refs[r] - 1]
  <2>1. refs[r] > 0
    BY <1>1, <1>2
  <2> QED
    BY <2>1 DEF ReleaseRef
<1>4. refs[r] - 1 \in Nat
  BY <1>1, <1>2
<1>5. refs' \in [Rooms -> Nat]
  BY <1>1, <1>3, <1>4
<1>6. \A s \in Rooms : refs'[s] = Cardinality(Users(s)')
  BY <1>1, <1>2, <1>3
<1> QED
  BY <1>5, <1>6 DEF RefsKept

(* Calls that are over hold and use nothing more. *)
LEMMA GoneKeeps ==
    ASSUME LocksInv, NEW calls \in SUBSET Tasks, Gone(calls), lockOf' = lockOf,
           overrun' \in SUBSET Tasks, writing' \in SUBSET writing,
           \A c \in Tasks \ calls : under[c] \in calls => c \in overrun',
           \A c \in calls : c \notin writing' \cup overrun',
           \A c \in Tasks \ calls : c \in overrun => c \in overrun',
           \A c \in overrun' : under[c] # None
    PROVE  /\ CallsKept' /\ OneHolder'
           /\ at' \in [Tasks -> {"away", "waiting", "inside", "hook", "settling", "holding"}]
           /\ room' \in [Tasks -> Rooms \cup {None}]
           /\ lock' \in [Tasks -> Locks \cup {None}]
           /\ under' \in [Tasks -> Tasks \cup {None}]
           /\ \A r \in Rooms : Users(r)' = Users(r) \ calls
<1>1. /\ LocksTypeOK /\ OneHolder /\ \A t \in Tasks : CallKept(t)
  BY LocksFacts
<1>2. /\ \A t \in calls : /\ at'[t] = "away" /\ room'[t] = None
                            /\ lock'[t] = None /\ under'[t] = None
      /\ \A t \in Tasks \ calls : /\ at'[t] = at[t] /\ room'[t] = room[t]
                                    /\ lock'[t] = lock[t] /\ under'[t] = under[t]
  BY DEF Gone
<1>3. /\ at' \in [Tasks -> {"away", "waiting", "inside", "hook", "settling", "holding"}]
      /\ room' \in [Tasks -> Rooms \cup {None}]
      /\ lock' \in [Tasks -> Locks \cup {None}]
      /\ under' \in [Tasks -> Tasks \cup {None}]
  BY <1>1 DEF Gone, LocksTypeOK
<1>4. ASSUME NEW t \in Tasks PROVE CallKept(t)'
  <2>1. CASE t \in calls
    BY <1>2, <2>1 DEF CallKept
  <2>2. CASE t \notin calls
    <3>1. under[t] # None /\ t \notin overrun' => under[t] \in Tasks \ calls
      BY <1>1, <2>2 DEF LocksTypeOK
    <3> QED
      BY <1>1, <1>2, <2>2, <3>1 DEF CallKept
  <2> QED
    BY <2>1, <2>2
<1>5. OneHolder'
  BY <1>1, <1>2 DEF OneHolder, Within
<1>6. \A r \in Rooms : Users(r)' = Users(r) \ calls
  BY <1>2 DEF Users
<1> QED
  BY <1>3, <1>4, <1>5, <1>6 DEF CallsKept

(* A call of a context that holds no lease of the room. *)
LEMMA CallStays ==
    ASSUME LocksInv, NEW t \in Tasks, NEW r \in Rooms, Call(t, r)
    PROVE  LocksInv'
<1>1. /\ LocksTypeOK /\ OneHolder /\ at[t] = "away"
      /\ \A u \in Tasks : CallKept(u)
      /\ None \notin Tasks /\ None \notin Rooms /\ None \notin Locks
  BY LocksFacts, LocksAssumption DEF Call
<1> DEFINE l == lockOf'[r]
<1>2. /\ table' \in Seq(Rooms) /\ lockOf' \in [Rooms -> Locks \cup {None}]
      /\ refs' \in [Rooms -> Nat] /\ l \in Locks
      /\ refs'[r] = refs[r] + 1 /\ \A s \in Rooms \ {r} : refs'[s] = refs[s]
      /\ \A s \in Rooms : Users(s) # {} => lockOf'[s] = lockOf[s]
  BY GotLock DEF Call
<1>3. /\ room' = [room EXCEPT ![t] = r] /\ lock' = [lock EXCEPT ![t] = l]
      /\ UNCHANGED <<under, writing, overrun>>
  BY DEF Call
<1>4. PICK a \in {"waiting", "inside"} :
         /\ at' = [at EXCEPT ![t] = a]
         /\ a = "inside" => ~LockHeld(l)
  BY DEF Call
<1>5. queue' \in Seq(Tasks)
  <2>1. queue \in Seq(Tasks)
    BY <1>1 DEF LocksTypeOK
  <2>2. queue' = Append(queue, t) \/ queue' = queue
    BY DEF Call
  <2> QED
    BY <2>1, <2>2
<1> HIDE DEF l
<1>6. LocksTypeOK'
  BY <1>1, <1>2, <1>3, <1>4, <1>5 DEF LocksTypeOK
<1>7. /\ at'[t] = a /\ room'[t] = r /\ lock'[t] = l /\ under'[t] = None
      /\ \A u \in Tasks \ {t} : /\ at'[u] = at[u] /\ room'[u] = room[u] /\ lock'[u] = lock[u]
                                /\ under'[u] = under[u]
  BY <1>1, <1>3, <1>4 DEF LocksTypeOK, CallKept
<1>8. CallsKept'
  <2> SUFFICES ASSUME NEW u \in Tasks PROVE CallKept(u)'
    BY DEF CallsKept
  <2>1. CASE u = t
    BY <1>1, <1>2, <1>3, <1>7, <2>1 DEF CallKept, l
  <2>2. CASE u # t
    <3>1. at[u] # "away" /\ under[u] = None => lockOf'[room[u]] = lockOf[room[u]]
      BY <1>1, <1>2 DEF Users, CallKept
    <3>2. under[u] # None /\ u \notin overrun => under[u] \in Tasks \ {t}
      BY <1>1 DEF CallKept, LocksTypeOK
    <3> QED
      BY <1>1, <1>3, <1>7, <2>2, <3>1, <3>2 DEF CallKept
  <2> QED
    BY <2>1, <2>2
<1>9. OneHolder'
  BY <1>1, <1>2, <1>4, <1>7 DEF OneHolder, LockHeld, Holds, Within
<1>10. RefsKept'
  <2>1. Users(r)' = Users(r) \cup {t} /\ t \notin Users(r)
    BY <1>1, <1>4, <1>7 DEF Users
  <2>2. \A s \in Rooms \ {r} : Users(s)' = Users(s)
    BY <1>1, <1>7 DEF Users
  <2>3. Cardinality(Users(r)') = Cardinality(Users(r)) + 1
    BY <2>1, LocksFacts, FS_AddElement
  <2> QED
    BY <1>2, <2>2, <2>3, LocksFacts DEF RefsKept
<1> QED
  BY <1>6, <1>8, <1>9, <1>10 DEF LocksInv

(* A released lock taken by the first that waits for it. *)
LEMMA TakeStays ==
    ASSUME LocksInv, NEW t \in Tasks, TakeLock(t)
    PROVE  LocksInv'
<1>1. /\ LocksTypeOK /\ OneHolder /\ at[t] = "waiting" /\ ~LockHeld(lock[t])
      /\ \A u \in Tasks : CallKept(u)
      /\ \A s \in Rooms : refs[s] = Cardinality(Users(s))
  BY LocksFacts DEF TakeLock
<1>2. /\ at' = [at EXCEPT ![t] = "inside"] /\ queue' = RemoveFirst(queue, t)
      /\ UNCHANGED <<table, lockOf, refs, room, lock, under, writing, overrun>>
  BY DEF TakeLock
<1>3. queue' \in Seq(Tasks)
  <2>1. queue \in Seq(Tasks)
    BY <1>1 DEF LocksTypeOK
  <2> QED
    BY <1>2, <2>1, FirstOut, CutOut
<1>4. LocksTypeOK'
  BY <1>1, <1>2, <1>3 DEF LocksTypeOK
<1>5. at'[t] = "inside" /\ \A u \in Tasks \ {t} : at'[u] = at[u]
  BY <1>1, <1>2 DEF LocksTypeOK
<1>6. CallsKept'
  BY <1>1, <1>2, <1>5 DEF CallsKept, CallKept, LocksTypeOK
<1>7. OneHolder'
  BY <1>1, <1>2, <1>5 DEF OneHolder, LockHeld, Holds, Within
<1>8. \A s \in Rooms : Users(s)' = Users(s)
  BY <1>1, <1>2, <1>5 DEF Users
<1>9. RefsKept'
  BY <1>1, <1>2, <1>8 DEF RefsKept
<1> QED
  BY <1>4, <1>6, <1>7, <1>9 DEF LocksInv

(* A call cancelled as it waits. *)
LEMMA CancelStays ==
    ASSUME LocksInv, NEW t \in Tasks, CancelledWaiting(t)
    PROVE  LocksInv'
<1>1. /\ LocksTypeOK /\ at[t] = "waiting" /\ Gone({t}) /\ ReleaseRef(room[t])
      /\ queue' = RemoveFirst(queue, t) /\ UNCHANGED <<table, lockOf, writing, overrun>>
      /\ \A u \in Tasks : CallKept(u)
  BY LocksFacts DEF CancelledWaiting
<1>2. queue' \in Seq(Tasks)
  <2>1. queue \in Seq(Tasks)
    BY <1>1 DEF LocksTypeOK
  <2> QED
    BY <1>1, <2>1, FirstOut, CutOut
<1>3. /\ room[t] \in Rooms /\ under[t] = None /\ t \in Users(room[t])
      /\ t \notin writing \cup overrun
      /\ \A c \in Tasks : under[c] = t => c \in overrun
      /\ \A c \in overrun : under[c] # None
  BY <1>1, LocksAssumption DEF CallKept, Users, LocksTypeOK
<1>4. /\ CallsKept' /\ OneHolder'
      /\ at' \in [Tasks -> {"away", "waiting", "inside", "hook", "settling", "holding"}]
      /\ room' \in [Tasks -> Rooms \cup {None}]
      /\ lock' \in [Tasks -> Locks \cup {None}]
      /\ under' \in [Tasks -> Tasks \cup {None}]
      /\ \A s \in Rooms : Users(s)' = Users(s) \ {t}
  <2>1. {t} \in SUBSET Tasks /\ overrun' \in SUBSET Tasks /\ writing' \in SUBSET writing
    BY <1>1 DEF LocksTypeOK
  <2> QED
    BY <1>1, <1>3, <2>1, GoneKeeps
<1>5. \A s \in Rooms \ {room[t]} : Users(s)' = Users(s)
  BY <1>4 DEF Users
<1>6. RefsKept' /\ refs' \in [Rooms -> Nat]
  BY <1>1, <1>3, <1>4, <1>5, RefGivenBack
<1>7. LocksTypeOK'
  BY <1>1, <1>2, <1>4, <1>6 DEF LocksTypeOK
<1> QED
  BY <1>4, <1>6, <1>7 DEF LocksInv

(* A section moves on: its hook's body runs, is over, its calls settled. *)
LEMMA GoesStays ==
    ASSUME LocksInv, NEW t \in Tasks, HookRuns(t) \/ HookOver(t) \/ Settled(t) \/ HeldOnCancel(t)
    PROVE  LocksInv'
<1>1. /\ LocksTypeOK /\ OneHolder /\ \A u \in Tasks : CallKept(u)
      /\ \A s \in Rooms : refs[s] = Cardinality(Users(s))
  BY LocksFacts
<1>2. PICK stage \in {"inside", "hook", "settling", "holding"} :
         /\ Goes(t, stage)
         /\ stage = "inside" => NestedIn(t) = {}
  BY DEF HookRuns, HookOver, Settled, HeldOnCancel
<1>3. at[t] \in {"inside", "hook", "settling"} /\ under[t] = None
  <2>1. CASE HookRuns(t)
    BY <2>1 DEF HookRuns, IsSection
  <2>2. CASE HookOver(t) \/ Settled(t) \/ HeldOnCancel(t)
    BY <1>1, <2>2 DEF HookOver, Settled, HeldOnCancel, CallKept
  <2> QED
    BY <2>1, <2>2
<1>4. /\ at' = [at EXCEPT ![t] = stage]
      /\ UNCHANGED <<table, lockOf, refs, room, lock, queue, under, writing, overrun>>
  BY <1>2 DEF Goes
<1>5. at'[t] = stage /\ \A u \in Tasks \ {t} : at'[u] = at[u]
  BY <1>1, <1>4 DEF LocksTypeOK
<1>6. LocksTypeOK'
  BY <1>1, <1>4 DEF LocksTypeOK
<1>7. CallsKept'
  <2> SUFFICES ASSUME NEW u \in Tasks PROVE CallKept(u)'
    BY DEF CallsKept
  <2>1. stage = "inside" => \A c \in Tasks : under[c] = t => c \in overrun
    BY <1>2 DEF NestedIn
  <2>2. under[u] # None /\ u \notin overrun => under[u] \in Tasks
    BY <1>1 DEF LocksTypeOK
  <2> QED
    BY <1>1, <1>3, <1>4, <1>5, <2>1, <2>2 DEF CallKept
<1>8. OneHolder'
  BY <1>1, <1>3, <1>4, <1>5 DEF OneHolder, Within
<1>9. \A s \in Rooms : Users(s)' = Users(s)
  BY <1>3, <1>4, <1>5 DEF Users
<1>10. RefsKept'
  BY <1>1, <1>4, <1>9 DEF RefsKept
<1> QED
  BY <1>6, <1>7, <1>8, <1>10 DEF LocksInv

(* A call nested under a section, and its commit. *)
LEMMA NestStays ==
    ASSUME LocksInv, NEW t \in Tasks, NEW c \in Tasks, Nest(t, c)
    PROVE  LocksInv'
<1>1. /\ LocksTypeOK /\ OneHolder /\ \A u \in Tasks : CallKept(u)
      /\ \A s \in Rooms : refs[s] = Cardinality(Users(s))
      /\ None \notin Tasks
  BY LocksFacts, LocksAssumption
<1>2. /\ at[t] = "hook" /\ under[t] = None /\ at[c] = "away" /\ c # t
      /\ at' = [at EXCEPT ![c] = "inside"]
      /\ room' = [room EXCEPT ![c] = room[t]]
      /\ under' = [under EXCEPT ![c] = t]
      /\ UNCHANGED <<table, lockOf, refs, lock, queue, writing, overrun>>
  BY DEF Nest, IsSection
<1>3. /\ at'[c] = "inside" /\ room'[c] = room[t] /\ under'[c] = t
      /\ \A u \in Tasks \ {c} : at'[u] = at[u] /\ room'[u] = room[u] /\ under'[u] = under[u]
  BY <1>1, <1>2 DEF LocksTypeOK
<1>4. LocksTypeOK'
  BY <1>1, <1>2 DEF LocksTypeOK
<1>5. CallsKept'
  <2> SUFFICES ASSUME NEW u \in Tasks PROVE CallKept(u)'
    BY DEF CallsKept
  <2>1. CASE u = c
    BY <1>1, <1>2, <1>3, <2>1 DEF CallKept
  <2>2. CASE u # c
    <3>1. under[u] # None /\ u \notin overrun => under[u] \in Tasks \ {c}
      BY <1>1, <1>2 DEF CallKept, LocksTypeOK
    <3> QED
      BY <1>1, <1>2, <1>3, <2>2, <3>1 DEF CallKept
  <2> QED
    BY <2>1, <2>2
<1>6. OneHolder'
  <2>1. lock'[c] = None
    BY <1>1, <1>2 DEF CallKept
  <2> QED
    BY <1>1, <1>2, <1>3, <2>1 DEF OneHolder, Within
<1>7. \A s \in Rooms : Users(s)' = Users(s)
  BY <1>1, <1>2, <1>3 DEF Users
<1>8. RefsKept'
  BY <1>1, <1>2, <1>7 DEF RefsKept
<1> QED
  BY <1>4, <1>5, <1>6, <1>8 DEF LocksInv

(* A task that commits, or goes on, keeps the invariant. *)
LEMMA CommitStays ==
    ASSUME LocksInv, NEW c \in Tasks, NestedCommits(c)
    PROVE  LocksInv'
<1>1. /\ LocksTypeOK /\ OneHolder /\ \A u \in Tasks : CallKept(u) /\ RefsKept
  BY LocksFacts DEF LocksInv
<1>2. /\ under[c] # None /\ writing' = writing \cup {c}
      /\ UNCHANGED <<table, lockOf, refs, at, room, lock, queue, under, overrun>>
  BY DEF NestedCommits
<1>3. LocksTypeOK'
  BY <1>1, <1>2 DEF LocksTypeOK
<1>4. CallsKept'
  BY <1>1, <1>2 DEF CallsKept, CallKept
<1>5. OneHolder'
  BY <1>1, <1>2 DEF OneHolder, Within
<1>6. RefsKept'
  BY <1>2 DEF LocksInv, RefsKept, Users
<1> QED
  BY <1>3, <1>4, <1>5, <1>6 DEF LocksInv

(* A nested call over: no call is nested under it. *)
LEMMA NestedOverStays ==
    ASSUME LocksInv, NEW c \in Tasks, NestedOver(c)
    PROVE  LocksInv'
<1>1. /\ LocksTypeOK /\ \A u \in Tasks : CallKept(u)
      /\ \A s \in Rooms : refs[s] = Cardinality(Users(s))
  BY LocksFacts
<1>2. /\ under[c] # None /\ Gone({c}) /\ writing' = writing \ {c}
      /\ overrun' = overrun \ {c} /\ UNCHANGED <<table, lockOf, refs, queue>>
  BY DEF NestedOver
<1>3. /\ \A u \in Tasks : under[u] = c => u \in overrun
      /\ \A u \in overrun : under[u] # None
      /\ c \in Tasks /\ c # None
  <2>1. at[c] = "inside" /\ c # None
    BY <1>1, <1>2, LocksAssumption DEF CallKept
  <2>2. \A u \in Tasks : under[u] = c => u \in overrun
    BY <1>1, <2>1 DEF CallKept
  <2>3. \A u \in overrun : under[u] # None
    BY <1>1 DEF CallKept, LocksTypeOK
  <2> QED
    BY <2>1, <2>2, <2>3
<1>4. /\ CallsKept' /\ OneHolder'
      /\ at' \in [Tasks -> {"away", "waiting", "inside", "hook", "settling", "holding"}]
      /\ room' \in [Tasks -> Rooms \cup {None}]
      /\ lock' \in [Tasks -> Locks \cup {None}]
      /\ under' \in [Tasks -> Tasks \cup {None}]
      /\ \A s \in Rooms : Users(s)' = Users(s) \ {c}
  <2>1. /\ {c} \in SUBSET Tasks /\ overrun' \in SUBSET Tasks /\ writing' \in SUBSET writing
        /\ c \notin writing' \cup overrun'
    BY <1>1, <1>2 DEF LocksTypeOK
  <2>2. /\ \A u \in Tasks \ {c} : under[u] \in {c} => u \in overrun'
        /\ \A u \in Tasks \ {c} : u \in overrun => u \in overrun'
        /\ \A u \in overrun' : under[u] # None
    BY <1>2, <1>3
  <2> QED
    BY <1>2, <2>1, <2>2, GoneKeeps
<1>5. \A s \in Rooms : Users(s)' = Users(s)
  BY <1>2, <1>4 DEF Users
<1>6. RefsKept'
  BY <1>1, <1>2, <1>5 DEF RefsKept
<1>7. LocksTypeOK'
  BY <1>1, <1>2, <1>4 DEF LocksTypeOK
<1> QED
  BY <1>4, <1>6, <1>7 DEF LocksInv

(* A section left, with no call nested under it but those its deadline     *)
(* left to end.                                                            *)
LEMMA LeaveStays ==
    ASSUME LocksInv, NEW t \in Tasks, LeaveSection(t) \/ SectionDeadline(t)
    PROVE  LocksInv'
<1> DEFINE calls == IF LeaveSection(t) THEN {t} ELSE {t} \cup (NestedIn(t) \ writing)
<1>1. /\ LocksTypeOK /\ \A u \in Tasks : CallKept(u)
      /\ at[t] \in {"inside", "hook", "settling", "holding"} /\ under[t] = None
      /\ Gone(calls) /\ ReleaseRef(room[t]) /\ UNCHANGED <<table, lockOf, queue, writing>>
      /\ t \in calls /\ calls \in SUBSET Tasks /\ None \notin Tasks
  <2>1. \A u \in Tasks : CallKept(u)
    BY LocksFacts
  <2>2. CASE LeaveSection(t)
    BY <2>1, <2>2, LocksFacts, LocksAssumption DEF LeaveSection, IsSection, MayLeave
  <2>3. CASE ~LeaveSection(t)
    BY <2>1, <2>3, LocksFacts, LocksAssumption DEF SectionDeadline, CallKept, NestedIn
  <2> QED
    BY <2>2, <2>3
<1>2. PICK r \in Rooms : r = room[t] /\ t \in Users(r)
  BY <1>1 DEF CallKept, Users
<1>3. /\ overrun' \in SUBSET Tasks /\ overrun \subseteq overrun'
      /\ \A c \in Tasks \ calls : under[c] \in calls => c \in overrun'
      /\ \A c \in calls : c \notin writing \cup overrun'
      /\ \A c \in overrun' : under[c] # None
      /\ \A c \in calls \ {t} : under[c] # None
  <2>1. CASE LeaveSection(t)
    <3>1. NestedIn(t) = {} /\ overrun' = overrun /\ calls = {t}
      <4>1. \A c \in Tasks : under[c] = t /\ c \notin overrun => at[t] # "inside"
        BY <1>1 DEF CallKept
      <4> QED
        BY <2>1, <4>1 DEF LeaveSection, MayLeave, NestedIn
    <3> HIDE DEF calls
    <3> QED
      BY <1>1, <3>1 DEF NestedIn, CallKept, LocksTypeOK
  <2>2. CASE ~LeaveSection(t)
    <3>1. /\ overrun' = overrun \cup (NestedIn(t) \cap writing)
          /\ calls = {t} \cup (NestedIn(t) \ writing)
      BY <2>2 DEF SectionDeadline
    <3>2. \A c \in NestedIn(t) : /\ c \in Tasks /\ under[c] = t /\ at[c] = "inside"
                                /\ c \notin overrun
      BY <1>1 DEF NestedIn, CallKept
    <3>3. \A c \in Tasks : under[c] \in calls => under[c] = t \/ c \in overrun
      BY <1>1, <3>1, <3>2 DEF CallKept
    <3> HIDE DEF calls
    <3>4. \A c \in Tasks : under[c] = t => c \in NestedIn(t) \/ c \in overrun
      BY DEF NestedIn
    <3>5. overrun \subseteq Tasks /\ t \notin writing \cup overrun
          /\ \A c \in overrun : under[c] # None
      BY <1>1 DEF CallKept, LocksTypeOK
    <3>6. t \notin NestedIn(t) /\ t # None
      BY <1>1, <3>2
    <3> QED
      BY <3>1, <3>2, <3>3, <3>4, <3>5, <3>6
  <2> QED
    BY <2>1, <2>2
<1> HIDE DEF calls
<1>4. /\ CallsKept' /\ OneHolder'
      /\ at' \in [Tasks -> {"away", "waiting", "inside", "hook", "settling", "holding"}]
      /\ room' \in [Tasks -> Rooms \cup {None}]
      /\ lock' \in [Tasks -> Locks \cup {None}]
      /\ under' \in [Tasks -> Tasks \cup {None}]
      /\ \A s \in Rooms : Users(s)' = Users(s) \ calls
  BY <1>1, <1>3, GoneKeeps
<1>5. /\ Users(r)' = Users(r) \ {t}
      /\ \A s \in Rooms \ {r} : Users(s)' = Users(s)
  <2>1. \A s \in Rooms : \A c \in Users(s) : c \in calls => c = t
    BY <1>3 DEF Users
  <2>2. \A s \in Rooms \ {r} : t \notin Users(s)
    BY <1>2 DEF Users
  <2>3. \A s \in Rooms : Users(s)' = Users(s) \ calls
    BY <1>4
  <2>4. t \in calls
    BY <1>1
  <2>5. Users(r) \ calls = Users(r) \ {t}
    BY <1>2, <2>1, <2>4
  <2>6. \A s \in Rooms \ {r} : Users(s) \ calls = Users(s)
    BY <2>1, <2>2
  <2> QED
    BY <1>2, <2>3, <2>5, <2>6
<1>6. RefsKept' /\ refs' \in [Rooms -> Nat]
  <2>1. ReleaseRef(r)
    BY <1>1, <1>2
  <2> QED
    BY <1>2, <1>5, <2>1, RefGivenBack
<1>7. LocksTypeOK'
  BY <1>1, <1>3, <1>4, <1>6 DEF LocksTypeOK
<1> QED
  BY <1>4, <1>6, <1>7 DEF LocksInv

(***************************************************************************)
(* The theorems.                                                           *)
(***************************************************************************)

(* The invariant holds at the start, and every step keeps it. *)
LEMMA LocksInvariant == LocksInit /\ [][LocksNext]_locksVars => []LocksInv
<1>1. LocksInit => LocksInv
  <2> SUFFICES ASSUME LocksInit PROVE LocksInv
    OBVIOUS
  <2>1. LocksTypeOK /\ OneHolder
    BY DEF LocksInit, LocksTypeOK, OneHolder
  <2>2. CallsKept
    BY DEF LocksInit, CallsKept, CallKept
  <2>3. RefsKept
    <3>1. \A r \in Rooms : Users(r) = {} /\ refs[r] = 0
      BY DEF LocksInit, Users
    <3> QED
      BY <3>1, FS_EmptySet DEF RefsKept
  <2> QED
    BY <2>1, <2>2, <2>3 DEF LocksInv
<1>2. LocksInv /\ [LocksNext]_locksVars => LocksInv'
  <2> SUFFICES ASSUME LocksInv, [LocksNext]_locksVars PROVE LocksInv'
    OBVIOUS
  <2>1. CASE UNCHANGED locksVars
    <3> USE <2>1 DEF LocksInv, locksVars
    <3>1. LocksTypeOK'
      BY DEF LocksTypeOK
    <3>2. CallsKept'
      BY DEF CallsKept, CallKept
    <3>3. OneHolder'
      BY DEF OneHolder, Within
    <3>4. RefsKept'
      BY DEF RefsKept, Users
    <3> QED
      BY <3>1, <3>2, <3>3, <3>4
  <2>2. CASE LocksNext
    BY <2>2, CallStays, TakeStays, CancelStays, GoesStays, NestStays, CommitStays,
       NestedOverStays, LeaveStays DEF LocksNext
  <2> QED
    BY <2>1, <2>2
<1> QED
  BY <1>1, <1>2, PTL

(* The table, its counts and the calls keep their shape, for any number of *)
(* rooms and tasks and however small the table (core/locks.py).            *)
THEOREM LocksTypeCorrect == LocksSpec => []LocksTypeOK
<1>1. LocksInv => LocksTypeOK
  BY DEF LocksInv
<1> QED
  BY <1>1, LocksInvariant, PTL DEF LocksSpec

(* Whoever acts in a room is the section that holds its lock or nested     *)
(* under it, whatever the table evicted between two calls (core/locks.py,  *)
(* _evict; core/_nested_calls.py).                                         *)
THEOREM LocksKeepOneSection == LocksSpec => []OneSection
<1>1. LocksInv => OneSection
  <2> SUFFICES ASSUME LocksInv, NEW t \in Tasks \ overrun, NEW u \in Tasks \ overrun,
                      Within(t), Within(u), room[t] = room[u], t # u
               PROVE  \/ under[t] = u \/ under[u] = t
                      \/ under[t] = under[u] /\ under[t] # None
    BY DEF OneSection
  <2> DEFINE section(c) == IF under[c] = None THEN c ELSE under[c]
  <2>1. ASSUME NEW c \in Tasks \ overrun, Within(c)
        PROVE  /\ section(c) \in Tasks /\ Within(section(c)) /\ room[section(c)] = room[c]
               /\ lock[section(c)] \in Locks /\ lock[section(c)] = lockOf[room[c]]
    <3>1. \A d \in Tasks : CallKept(d)
      BY LocksFacts
    <3>2. under[c] # None => under[c] \in Tasks
      BY <2>1, LocksFacts DEF LocksTypeOK
    <3>3. CASE under[c] = None
      BY <2>1, <3>1, <3>3 DEF CallKept, Within
    <3>4. CASE under[c] # None
      <4>1. at[under[c]] \in {"hook", "settling", "holding"} /\ room[under[c]] = room[c]
        BY <2>1, <3>1, <3>4 DEF CallKept
      <4> QED
        BY <3>1, <3>2, <3>4, <4>1 DEF CallKept, Within
    <3> QED
      BY <3>3, <3>4
  <2>2. section(t) = section(u)
    <3> HIDE DEF section
    <3>1. lock[section(t)] = lock[section(u)] /\ lock[section(t)] # None
      BY <2>1, LocksAssumption
    <3> QED
      BY <2>1, <3>1 DEF LocksInv, OneHolder
  <2> QED
    BY <2>2
<1> QED
  BY <1>1, LocksInvariant, PTL DEF LocksSpec

(* A room's reference count is the number of calls that wait for its lock  *)
(* or hold it, and they all use the lock the table has (core/locks.py,     *)
(* _get_lock, _release_ref).                                               *)
THEOREM LocksCountUsers == LocksSpec => []RefsAreUsers
<1>1. LocksInv => RefsAreUsers
  <2> SUFFICES ASSUME LocksInv, NEW r \in Rooms
               PROVE  /\ refs[r] = Cardinality(Users(r))
                      /\ \A t \in Users(r) : lock[t] = lockOf[r]
    BY DEF RefsAreUsers, Users
  <2> QED
    BY LocksFacts DEF Users, CallKept
<1> QED
  BY <1>1, LocksInvariant, PTL DEF LocksSpec
=============================================================================
