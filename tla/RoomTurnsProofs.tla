-------------------------- MODULE RoomTurnsProofs --------------------------
(* Theorems about RoomTurns for any set of turns and of deliveries.        *)
EXTENDS RoomTurns, SequenceTheorems, TLAPS

Placed == {"queued", "waiting"} \cup Started

(* A turn has one place in the line from its ask until it is over, and the *)
(* place reached is the first.                                             *)
LineKept ==
    /\ \A i, j \in DOMAIN turnLine : turnLine[i] = turnLine[j] => i = j
    /\ \A t \in Turns :
          /\ InLine(t) <=> stage[t] \in Placed
          /\ t \in reached /\ InLine(t) => turnLine[1] = t
          /\ t \in reached => stage[t] \notin {"none", "steering", "steered"}
          /\ stage[t] \in Started => t \in reached

(* The turns asked are those past "none", each asked once. *)
AskedOnce ==
    /\ \A a, b \in DOMAIN turnsAsked : turnsAsked[a] = turnsAsked[b] => a = b
    /\ \A t \in Turns : stage[t] # "none" <=> \E a \in DOMAIN turnsAsked : turnsAsked[a] = t

(* The line is in the order of the asks, and a message being steered was   *)
(* the last, at most one turn in the line before it.                       *)
LineAsAsked ==
    /\ \A i, j \in DOMAIN turnLine, a, b \in DOMAIN turnsAsked :
          i < j /\ turnLine[i] = turnsAsked[a] /\ turnLine[j] = turnsAsked[b] => a < b
    /\ \A t \in Turns : stage[t] = "steering" =>
          turnsAsked[Len(turnsAsked)] = t /\ Len(turnLine) <= 1

(* A turn steered overtook none. *)
SteeredPastNone ==
    \A a, b \in DOMAIN turnsAsked :
        a < b /\ stage[turnsAsked[b]] = "steered"
            => stage[turnsAsked[a]] \notin {"queued", "waiting", "steering"}

TurnsInv == TurnsTypeOK /\ LineKept /\ AskedOnce /\ LineAsAsked /\ SteeredPastNone

-----------------------------------------------------------------------------
(* A sequence without one of its elements. *)
ClosedUp(s, i) == SubSeq(s, 1, i - 1) \o SubSeq(s, i + 1, Len(s))

LEMMA RemovedOne ==
    ASSUME NEW S, NEW s \in Seq(S), NEW i \in 1 .. Len(s)
    PROVE  /\ ClosedUp(s, i) \in Seq(S) /\ Len(ClosedUp(s, i)) = Len(s) - 1
           /\ \A j \in 1 .. Len(s) - 1 : ClosedUp(s, i)[j] = IF j < i THEN s[j] ELSE s[j + 1]
<1> DEFINE r == ClosedUp(s, i)
           left == SubSeq(s, 1, i - 1)
           right == SubSeq(s, i + 1, Len(s))
<1>1. /\ left \in Seq(S) /\ Len(left) = i - 1
      /\ \A j \in 1 .. i - 1 : left[j] = s[j]
  OBVIOUS
<1>2. /\ right \in Seq(S) /\ Len(right) = Len(s) - i
      /\ \A j \in 1 .. Len(s) - i : right[j] = s[i + j]
  OBVIOUS
<1>3. r = left \o right
  BY DEF ClosedUp
<1> HIDE DEF r, left, right
<1>0. Len(s) \in Nat /\ i \in Nat /\ i <= Len(s) /\ i >= 1
  OBVIOUS
<1>4. /\ left \o right \in Seq(S) /\ Len(left \o right) = Len(left) + Len(right)
      /\ \A j \in 1 .. Len(left) + Len(right) :
            (left \o right)[j] = IF j <= Len(left) THEN left[j] ELSE right[j - Len(left)]
  <2>1. left \in Seq(S) /\ right \in Seq(S)
    BY <1>1, <1>2
  <2> QED
    BY <2>1, ConcatProperties
<1>5. /\ r \in Seq(S) /\ Len(r) = Len(s) - 1
      /\ \A j \in 1 .. Len(s) - 1 :
            r[j] = IF j <= i - 1 THEN left[j] ELSE right[j - (i - 1)]
  <2>1. Len(left) = i - 1 /\ Len(right) = Len(s) - i
    BY <1>1, <1>2
  <2>2. Len(left) + Len(right) = Len(s) - 1
    BY <1>0, <2>1
  <2>3. Len(r) = Len(s) - 1 /\ r \in Seq(S)
    BY <1>3, <1>4, <2>2
  <2>4. ASSUME NEW j \in 1 .. Len(s) - 1
        PROVE r[j] = IF j <= i - 1 THEN left[j] ELSE right[j - (i - 1)]
    BY <1>3, <1>4, <2>1, <2>2
  <2> QED
    BY <2>3, <2>4
<1>6. ASSUME NEW j \in 1 .. Len(s) - 1 PROVE r[j] = IF j < i THEN s[j] ELSE s[j + 1]
  <2>0. j \in Nat /\ j >= 1 /\ j <= Len(s) - 1
    BY <1>0
  <2>1. CASE j < i
    <3>1. j <= i - 1 /\ j \in 1 .. i - 1
      BY <1>0, <2>0, <2>1
    <3> QED
      BY <1>1, <1>5, <2>0, <2>1, <3>1
  <2>2. CASE ~(j < i)
    <3>1. j - (i - 1) \in 1 .. Len(s) - i /\ i + (j - (i - 1)) = j + 1 /\ ~(j <= i - 1)
      BY <1>0, <2>0, <2>2
    <3>2. r[j] = right[j - (i - 1)]
      BY <1>5, <2>0, <3>1
    <3> QED
      BY <1>2, <2>2, <3>1, <3>2
  <2> QED
    BY <2>1, <2>2
<1> QED
  BY <1>5, <1>6 DEF r

-----------------------------------------------------------------------------
(* The shape of the state is kept. *)
LEMMA JoinTyped ==
    ASSUME TurnsTypeOK, NEW t \in Turns, Join(t)
    PROVE  turnLine' \in Seq(Turns) /\ reached' \in SUBSET Turns /\ stage' \in [Turns -> TurnStages]
BY DEF TurnsTypeOK, Join, Becomes, TurnStages, Started

LEMMA LeaveTyped ==
    ASSUME TurnsTypeOK, NEW t \in Turns, LeaveLine(t)
    PROVE  turnLine' \in Seq(Turns) /\ reached' \in SUBSET Turns
<1>1. turnLine \in Seq(Turns) /\ reached \in SUBSET Turns
  BY DEF TurnsTypeOK
<1>2. Without(t) \in Seq(Turns)
  <2>1. CASE InLine(t)
    <3> DEFINE i == CHOOSE i \in DOMAIN turnLine : turnLine[i] = t
    <3>1. i \in DOMAIN turnLine
      BY <2>1 DEF InLine
    <3>2. i \in 1 .. Len(turnLine)
      BY <1>1, <3>1
    <3>3. Without(t) = ClosedUp(turnLine, i)
      BY <2>1 DEF Without, ClosedUp
    <3> QED
      BY <1>1, <3>2, <3>3, RemovedOne
  <2> QED
    BY <1>1, <2>1 DEF Without
<1>3. NextOf(t) \subseteq Turns
  BY <1>1 DEF NextOf
<1> QED
  BY <1>1, <1>2, <1>3 DEF LeaveLine

LEMMA TurnsTyped ==
    ASSUME TurnsTypeOK, [TurnsNext]_turnsVars
    PROVE  TurnsTypeOK'
<1>0. CASE UNCHANGED turnsVars
  BY <1>0 DEF TurnsTypeOK, turnsVars
<1>1. ASSUME NEW t \in Turns, NEW by \in Turns \cup {NoTurn}, Ask(t, by) PROVE TurnsTypeOK'
  <2>1. CASE Join(t)
    BY <1>1, <2>1, JoinTyped DEF TurnsTypeOK, Ask
  <2>2. CASE SteersOne /\ Becomes(t, "steering") /\ UNCHANGED <<turnLine, reached>>
    BY <1>1, <2>2 DEF TurnsTypeOK, Ask, Becomes, TurnStages
  <2> QED
    BY <1>1, <2>1, <2>2 DEF Ask
<1>2. ASSUME NEW t \in Turns, SteerEnds(t) PROVE TurnsTypeOK'
  <2>1. CASE Join(t)
    BY <1>2, <2>1, JoinTyped DEF TurnsTypeOK, SteerEnds
  <2>2. CASE Becomes(t, "steered") /\ UNCHANGED <<turnLine, reached>>
    BY <1>2, <2>2 DEF TurnsTypeOK, SteerEnds, Becomes, TurnStages
  <2> QED
    BY <1>2, <2>1, <2>2 DEF SteerEnds
<1>3. ASSUME NEW t \in Turns, Read(t) \/ Begin(t) \/ Streams(t) \/ Stop(t) PROVE TurnsTypeOK'
  BY <1>3 DEF TurnsTypeOK, Read, Begin, Streams, Stop, Stops, Becomes, TurnStages, Started
<1>4. ASSUME NEW t \in Turns, TurnEnds(t) PROVE TurnsTypeOK'
  <2>1. turnLine' \in Seq(Turns) /\ reached' \in SUBSET Turns
    BY <1>4, LeaveTyped DEF TurnEnds
  <2>2. stage' \in [Turns -> TurnStages] /\ inline' \in SUBSET Turns
    BY <1>4 DEF TurnsTypeOK, TurnEnds, Becomes, TurnStages
  <2> QED
    BY <1>4, <2>1, <2>2 DEF TurnsTypeOK, TurnEnds
<1> QED
  BY <1>0, <1>1, <1>2, <1>3, <1>4
     DEF TurnsNext, TurnsObliged, Fails, ReaderCancelled, Drop, CloseTurn

-----------------------------------------------------------------------------
(* What an ask, a place taken and a place given up do to the two lists. *)
LEMMA AskedGrows ==
    ASSUME TurnsTypeOK, AskedOnce, NEW t \in Turns, stage[t] = "none",
           turnsAsked' = Append(turnsAsked, t), stage' \in [Turns -> TurnStages],
           stage'[t] # "none", \A u \in Turns \ {t} : stage'[u] = stage[u]
    PROVE  /\ Len(turnsAsked') = Len(turnsAsked) + 1
           /\ DOMAIN turnsAsked' = 1 .. Len(turnsAsked) + 1
           /\ turnsAsked'[Len(turnsAsked) + 1] = t
           /\ \A a \in 1 .. Len(turnsAsked) :
                 turnsAsked'[a] = turnsAsked[a] /\ turnsAsked[a] # t /\ turnsAsked[a] \in Turns
           /\ AskedOnce'
<1>1. turnsAsked \in Seq(Turns) /\ DOMAIN turnsAsked = 1 .. Len(turnsAsked) /\ Len(turnsAsked) \in Nat
  BY DEF TurnsTypeOK
<1>2. /\ Len(turnsAsked') = Len(turnsAsked) + 1
      /\ DOMAIN turnsAsked' = 1 .. Len(turnsAsked) + 1
      /\ turnsAsked'[Len(turnsAsked) + 1] = t
      /\ \A a \in 1 .. Len(turnsAsked) : turnsAsked'[a] = turnsAsked[a]
  BY <1>1
<1>3. \A a \in 1 .. Len(turnsAsked) : turnsAsked[a] # t /\ turnsAsked[a] \in Turns
  BY <1>1 DEF AskedOnce
<1>4. \A a \in DOMAIN turnsAsked' : a \in 1 .. Len(turnsAsked) \/ a = Len(turnsAsked) + 1
  BY <1>1, <1>2
<1>5. \A a, b \in DOMAIN turnsAsked' : turnsAsked'[a] = turnsAsked'[b] => a = b
  BY <1>1, <1>2, <1>3, <1>4 DEF AskedOnce
<1>6. ASSUME NEW u \in Turns
      PROVE  stage'[u] # "none" <=> \E a \in DOMAIN turnsAsked' : turnsAsked'[a] = u
  <2>1. CASE u = t
    <3>1. Len(turnsAsked) + 1 \in DOMAIN turnsAsked'
      BY <1>1, <1>2
    <3> QED
      BY <1>2, <2>1, <3>1
  <2>2. CASE u # t
    <3>1. stage[u] # "none" <=> \E a \in 1 .. Len(turnsAsked) : turnsAsked[a] = u
      BY <1>1 DEF AskedOnce
    <3>2. \A a \in 1 .. Len(turnsAsked) : a \in DOMAIN turnsAsked'
      BY <1>1, <1>2
    <3> QED
      BY <1>2, <1>4, <2>2, <3>1, <3>2
  <2> QED
    BY <2>1, <2>2
<1> QED
  BY <1>2, <1>3, <1>5, <1>6 DEF AskedOnce

LEMMA JoinEffect ==
    ASSUME TurnsTypeOK, LineKept, NEW t \in Turns, stage[t] \in {"none", "steering"}, Join(t)
    PROVE  /\ Len(turnLine') = Len(turnLine) + 1
           /\ DOMAIN turnLine' = 1 .. Len(turnLine) + 1
           /\ turnLine'[Len(turnLine) + 1] = t
           /\ \A i \in 1 .. Len(turnLine) :
                 turnLine'[i] = turnLine[i] /\ turnLine[i] # t /\ turnLine[i] \in Turns
           /\ LineKept'
<1>1. turnLine \in Seq(Turns) /\ DOMAIN turnLine = 1 .. Len(turnLine) /\ Len(turnLine) \in Nat
  BY DEF TurnsTypeOK
<1>2. /\ Len(turnLine') = Len(turnLine) + 1
      /\ DOMAIN turnLine' = 1 .. Len(turnLine) + 1
      /\ turnLine'[Len(turnLine) + 1] = t
      /\ \A i \in 1 .. Len(turnLine) : turnLine'[i] = turnLine[i]
  BY <1>1 DEF Join
<1>3. ~InLine(t) /\ t \notin reached
  BY DEF LineKept, Placed, Started
<1>4. \A i \in 1 .. Len(turnLine) : turnLine[i] # t /\ turnLine[i] \in Turns
  BY <1>1, <1>3 DEF InLine
<1>5. \A i \in DOMAIN turnLine' : i \in 1 .. Len(turnLine) \/ i = Len(turnLine) + 1
  BY <1>1, <1>2
<1>6. \A i, j \in DOMAIN turnLine' : turnLine'[i] = turnLine'[j] => i = j
  BY <1>1, <1>2, <1>4, <1>5 DEF LineKept
<1>7. /\ stage'[t] = "queued" /\ \A u \in Turns \ {t} : stage'[u] = stage[u]
      /\ reached' = IF turnLine = <<>> THEN reached \cup {t} ELSE reached
  BY DEF TurnsTypeOK, Join, Becomes
<1>8. ASSUME NEW u \in Turns
      PROVE  /\ InLine(u)' <=> stage'[u] \in Placed
             /\ u \in reached' /\ InLine(u)' => turnLine'[1] = u
             /\ u \in reached' => stage'[u] \notin {"none", "steering", "steered"}
             /\ stage'[u] \in Started => u \in reached'
  <2>1. CASE u = t
    <3>1. InLine(t)'
      <4>1. Len(turnLine) + 1 \in DOMAIN turnLine'
        BY <1>1, <1>2
      <4> QED
        BY <1>2, <4>1 DEF InLine
    <3>2. t \in reached' => turnLine'[1] = t
      <4>1. turnLine = <<>> => Len(turnLine) + 1 = 1
        BY <1>1
      <4> QED
        BY <1>2, <1>3, <1>7, <4>1
    <3> QED
      BY <1>7, <2>1, <3>1, <3>2 DEF Placed, Started
  <2>2. CASE u # t
    <3>1. InLine(u)' <=> InLine(u)
      <4>1. \A i \in 1 .. Len(turnLine) : i \in DOMAIN turnLine'
        BY <1>1, <1>2
      <4> QED
        BY <1>1, <1>2, <1>5, <2>2, <4>1 DEF InLine
    <3>2. u \in reached' <=> u \in reached
      BY <1>7, <2>2
    <3>3. InLine(u) => turnLine'[1] = turnLine[1]
      <4>1. InLine(u) => 1 \in 1 .. Len(turnLine)
        BY <1>1 DEF InLine
      <4> QED
        BY <1>2, <4>1
    <3> QED
      BY <1>7, <2>2, <3>1, <3>2, <3>3 DEF LineKept
  <2> QED
    BY <2>1, <2>2
<1> QED
  BY <1>2, <1>4, <1>6, <1>8 DEF LineKept

LEMMA LeaveEffect ==
    ASSUME TurnsTypeOK, LineKept, NEW t \in Turns, stage[t] \in Placed,
           LeaveLine(t), Becomes(t, "over")
    PROVE  /\ \E i \in 1 .. Len(turnLine) :
                 \A j \in 1 .. Len(turnLine) - 1 :
                    turnLine'[j] = IF j < i THEN turnLine[j] ELSE turnLine[j + 1]
           /\ Len(turnLine') = Len(turnLine) - 1 /\ Len(turnLine') \in Nat
           /\ DOMAIN turnLine' = 1 .. Len(turnLine) - 1
           /\ LineKept'
<1>1. turnLine \in Seq(Turns) /\ DOMAIN turnLine = 1 .. Len(turnLine) /\ Len(turnLine) \in Nat
  BY DEF TurnsTypeOK
<1> DEFINE k == CHOOSE i \in DOMAIN turnLine : turnLine[i] = t
<1>2. InLine(t) /\ k \in 1 .. Len(turnLine) /\ turnLine[k] = t
  BY <1>1 DEF LineKept, InLine
<1>3. turnLine' = ClosedUp(turnLine, k)
  BY <1>2 DEF LeaveLine, Without, ClosedUp
<1> HIDE DEF k
<1>4. /\ turnLine' \in Seq(Turns) /\ Len(turnLine') = Len(turnLine) - 1
      /\ \A j \in 1 .. Len(turnLine) - 1 :
            turnLine'[j] = IF j < k THEN turnLine[j] ELSE turnLine[j + 1]
  <2>1. /\ ClosedUp(turnLine, k) \in Seq(Turns) /\ Len(ClosedUp(turnLine, k)) = Len(turnLine) - 1
        /\ \A j \in 1 .. Len(turnLine) - 1 :
              ClosedUp(turnLine, k)[j] = IF j < k THEN turnLine[j] ELSE turnLine[j + 1]
    BY <1>1, <1>2, RemovedOne
  <2> QED
    BY <1>3, <2>1
<1>5. /\ DOMAIN turnLine' = 1 .. Len(turnLine) - 1 /\ Len(turnLine) - 1 \in Nat
      /\ \A j \in 1 .. Len(turnLine) - 1 :
            turnLine'[j] = IF j < k THEN turnLine[j] ELSE turnLine[j + 1]
  BY <1>1, <1>2, <1>4
<1>6. /\ stage'[t] = "over" /\ \A u \in Turns \ {t} : stage'[u] = stage[u]
      /\ reached' = reached \cup {t} \cup NextOf(t)
  BY DEF TurnsTypeOK, LeaveLine, Becomes
<1>7. \A i, j \in 1 .. Len(turnLine) : turnLine[i] = turnLine[j] => i = j
  BY <1>1 DEF LineKept
<1>8. \A i, j \in DOMAIN turnLine' : turnLine'[i] = turnLine'[j] => i = j
  <2> SUFFICES ASSUME NEW i \in 1 .. Len(turnLine) - 1, NEW j \in 1 .. Len(turnLine) - 1,
                      turnLine'[i] = turnLine'[j]
               PROVE  i = j
    BY <1>5
  <2> DEFINE p == IF i < k THEN i ELSE i + 1
             q == IF j < k THEN j ELSE j + 1
  <2>1. p \in 1 .. Len(turnLine) /\ q \in 1 .. Len(turnLine)
    BY <1>1, <1>2
  <2>2. turnLine[p] = turnLine[q]
    BY <1>5
  <2>3. p = q
    BY <1>7, <2>1, <2>2
  <2> QED
    BY <1>1, <1>2, <2>3
<1>9. ASSUME NEW u \in Turns PROVE InLine(u)' <=> InLine(u) /\ u # t
  <2>1. ASSUME NEW j \in 1 .. Len(turnLine) - 1
        PROVE  \E i \in 1 .. Len(turnLine) : i # k /\ turnLine[i] = turnLine'[j]
    <3>1. CASE j < k
      BY <1>1, <1>2, <1>5, <3>1
    <3>2. CASE ~(j < k)
      <4>1. j + 1 \in 1 .. Len(turnLine) /\ j + 1 # k
        BY <1>1, <1>2, <3>2
      <4> QED
        BY <1>5, <3>2, <4>1
    <3> QED
      BY <3>1, <3>2
  <2>2. ASSUME NEW i \in 1 .. Len(turnLine), i # k
        PROVE  \E j \in 1 .. Len(turnLine) - 1 : turnLine'[j] = turnLine[i]
    <3>1. CASE i < k
      <4>1. i \in 1 .. Len(turnLine) - 1
        BY <1>1, <1>2, <3>1
      <4> QED
        BY <1>5, <3>1, <4>1
    <3>2. CASE ~(i < k)
      <4>1. i - 1 \in 1 .. Len(turnLine) - 1 /\ ~(i - 1 < k) /\ (i - 1) + 1 = i
        BY <1>1, <1>2, <2>2, <3>2
      <4> QED
        BY <1>5, <4>1
    <3> QED
      BY <3>1, <3>2
  <2>3. InLine(u)' <=> \E j \in 1 .. Len(turnLine) - 1 : turnLine'[j] = u
    BY <1>5 DEF InLine
  <2>4. InLine(u) <=> \E i \in 1 .. Len(turnLine) : turnLine[i] = u
    BY <1>1 DEF InLine
  <2>5. \A i \in 1 .. Len(turnLine) : turnLine[i] = t => i = k
    BY <1>2, <1>7
  <2> QED
    BY <1>2, <2>1, <2>2, <2>3, <2>4, <2>5
<1>10. NextOf(t) = IF Len(turnLine) > 1 /\ turnLine[1] = t THEN {turnLine[2]} ELSE {}
  BY <1>1, <1>2 DEF NextOf
<1>11. ASSUME NEW u \in Turns, u \in NextOf(t)
       PROVE  u # t /\ InLine(u) /\ turnLine'[1] = u
  <2>1. Len(turnLine) > 1 /\ turnLine[1] = t /\ u = turnLine[2]
    BY <1>10, <1>11
  <2>2. 2 \in 1 .. Len(turnLine) /\ 1 \in 1 .. Len(turnLine) /\ 1 \in 1 .. Len(turnLine) - 1 /\ 1 # 2
    BY <1>1, <2>1
  <2>3. u # t /\ k = 1
    BY <1>2, <1>7, <2>1, <2>2
  <2>4. turnLine'[1] = turnLine[2]
    BY <1>5, <2>2, <2>3
  <2> QED
    BY <1>1, <2>1, <2>2, <2>3, <2>4 DEF InLine
<1>12. ASSUME NEW u \in Turns
       PROVE  /\ InLine(u)' <=> stage'[u] \in Placed
              /\ u \in reached' /\ InLine(u)' => turnLine'[1] = u
              /\ u \in reached' => stage'[u] \notin {"none", "steering", "steered"}
              /\ stage'[u] \in Started => u \in reached'
  <2>1. CASE u = t
    BY <1>6, <1>9, <2>1 DEF Placed, Started
  <2>2. CASE u # t /\ u \in NextOf(t)
    BY <1>6, <1>9, <1>11, <2>2 DEF LineKept, Placed, Started
  <2>3. CASE u # t /\ u \notin NextOf(t)
    <3>1. u \in reached' <=> u \in reached
      BY <1>6, <2>3
    <3>2. ASSUME u \in reached, InLine(u) PROVE turnLine'[1] = u
      <4>1. turnLine[1] = u
        BY <3>2 DEF LineKept
      <4>2. 1 \in 1 .. Len(turnLine) /\ k # 1
        BY <1>1, <1>2, <2>3, <4>1
      <4>3. 1 < k /\ 1 \in 1 .. Len(turnLine) - 1
        BY <1>1, <1>2, <4>2
      <4> QED
        BY <1>5, <4>1, <4>3
    <3> QED
      BY <1>6, <1>9, <2>3, <3>1, <3>2 DEF LineKept
  <2> QED
    BY <2>1, <2>2, <2>3
<1>13. LineKept'
  BY <1>8, <1>12 DEF LineKept
<1> QED
  BY <1>1, <1>2, <1>4, <1>5, <1>13

-----------------------------------------------------------------------------
(* Each step keeps the invariant. *)
AsAsked == LineKept /\ AskedOnce /\ LineAsAsked /\ SteeredPastNone

(* What is in the line was asked, and a turn being steered is the last.    *)
LEMMA LastAsked ==
    ASSUME TurnsInv, NEW t \in Turns, stage[t] = "steering"
    PROVE  /\ Len(turnsAsked) \in DOMAIN turnsAsked /\ turnsAsked[Len(turnsAsked)] = t
           /\ \A a \in DOMAIN turnsAsked : turnsAsked[a] = t => a = Len(turnsAsked)
           /\ \A a \in DOMAIN turnsAsked : turnsAsked[a] # t => a < Len(turnsAsked)
           /\ \A u \in Turns : stage[u] = "steering" => u = t
<1>1. turnsAsked \in Seq(Turns) /\ DOMAIN turnsAsked = 1 .. Len(turnsAsked) /\ Len(turnsAsked) \in Nat
  BY DEF TurnsInv, TurnsTypeOK
<1>2. turnsAsked[Len(turnsAsked)] = t
  BY DEF TurnsInv, LineAsAsked
<1>3. \E a \in DOMAIN turnsAsked : turnsAsked[a] = t
  BY DEF TurnsInv, AskedOnce
<1>4. Len(turnsAsked) \in DOMAIN turnsAsked
  BY <1>1, <1>3
<1>5. \A a \in DOMAIN turnsAsked : turnsAsked[a] = t => a = Len(turnsAsked)
  BY <1>2, <1>4 DEF TurnsInv, AskedOnce
<1>6. \A a \in DOMAIN turnsAsked : turnsAsked[a] # t => a < Len(turnsAsked)
  BY <1>1, <1>2
<1>7. \A u \in Turns : stage[u] = "steering" => u = t
  BY <1>2 DEF TurnsInv, LineAsAsked
<1> QED
  BY <1>2, <1>4, <1>5, <1>6, <1>7

LEMMA AskKeeps ==
    ASSUME TurnsInv, NEW t \in Turns, NEW by \in Turns \cup {NoTurn}, Ask(t, by), TurnsTypeOK'
    PROVE  AsAsked'
<1> DEFINE n == Len(turnsAsked)
<1>1. /\ TurnsTypeOK /\ LineKept /\ AskedOnce /\ LineAsAsked /\ SteeredPastNone
      /\ stage[t] = "none" /\ turnsAsked' = Append(turnsAsked, t)
      /\ \A u \in Turns : stage[u] # "steering"
  BY DEF TurnsInv, Ask
<1>2. /\ stage' \in [Turns -> TurnStages] /\ \A u \in Turns \ {t} : stage'[u] = stage[u]
      /\ stage'[t] \in {"steering", "queued"}
  BY <1>1 DEF TurnsTypeOK, Ask, Join, Becomes
<1>3. /\ Len(turnsAsked') = n + 1 /\ DOMAIN turnsAsked' = 1 .. n + 1 /\ turnsAsked'[n + 1] = t
      /\ \A a \in 1 .. n :
            turnsAsked'[a] = turnsAsked[a] /\ turnsAsked[a] # t /\ turnsAsked[a] \in Turns
      /\ AskedOnce'
  BY <1>1, <1>2, AskedGrows
<1>4. n \in Nat /\ DOMAIN turnsAsked = 1 .. n
  BY <1>1 DEF TurnsTypeOK
<1>5. \A a \in DOMAIN turnsAsked' : a = n + 1 \/ a \in 1 .. n
  BY <1>3, <1>4
<1>6. SteeredPastNone'
  <2> SUFFICES ASSUME NEW a \in DOMAIN turnsAsked', NEW b \in DOMAIN turnsAsked',
                      a < b, stage'[turnsAsked'[b]] = "steered"
               PROVE  stage'[turnsAsked'[a]] \notin {"queued", "waiting", "steering"}
    BY DEF SteeredPastNone
  <2>1. b # n + 1
    BY <1>2, <1>3
  <2>2. a \in 1 .. n /\ b \in 1 .. n
    BY <1>3, <1>4, <1>5, <2>1
  <2> QED
    BY <1>1, <1>2, <1>3, <1>4, <2>2 DEF SteeredPastNone
<1>7. CASE SteersOne /\ Becomes(t, "steering") /\ UNCHANGED <<turnLine, reached>>
  <2>1. stage'[t] = "steering"
    BY <1>7 DEF TurnsInv, TurnsTypeOK, Becomes
  <2>2. LineKept'
    BY <1>1, <1>2, <1>7, <2>1 DEF LineKept, InLine, Placed, Started
  <2>3. LineAsAsked'
    <3>1. \A i \in DOMAIN turnLine : turnLine[i] # t
      BY <1>1 DEF LineKept, InLine, Placed, Started, TurnsTypeOK
    <3>2. ASSUME NEW i \in DOMAIN turnLine, NEW j \in DOMAIN turnLine,
                 NEW a \in DOMAIN turnsAsked', NEW b \in DOMAIN turnsAsked',
                 i < j, turnLine[i] = turnsAsked'[a], turnLine[j] = turnsAsked'[b]
          PROVE  a < b
      <4>1. a \in 1 .. n /\ b \in 1 .. n
        BY <1>3, <1>5, <3>1, <3>2
      <4> QED
        BY <1>1, <1>3, <1>4, <3>2, <4>1 DEF LineAsAsked
    <3>3. Len(turnLine) <= 1
      BY <1>7 DEF SteersOne
    <3>4. \A u \in Turns : stage'[u] = "steering" => u = t
      BY <1>1, <1>2
    <3> QED
      BY <1>3, <1>7, <3>2, <3>3, <3>4 DEF LineAsAsked
  <2> QED
    BY <1>3, <1>6, <2>2, <2>3 DEF AsAsked
<1>8. CASE Join(t)
  <2> DEFINE m == Len(turnLine)
  <2>1. /\ Len(turnLine') = m + 1 /\ DOMAIN turnLine' = 1 .. m + 1 /\ turnLine'[m + 1] = t
        /\ \A i \in 1 .. m : turnLine'[i] = turnLine[i] /\ turnLine[i] # t /\ turnLine[i] \in Turns
        /\ LineKept'
    BY <1>1, <1>8, JoinEffect
  <2>2. m \in Nat /\ DOMAIN turnLine = 1 .. m
    BY <1>1 DEF TurnsTypeOK
  <2>3. LineAsAsked'
    <3>1. ASSUME NEW i \in DOMAIN turnLine', NEW j \in DOMAIN turnLine',
                 NEW a \in DOMAIN turnsAsked', NEW b \in DOMAIN turnsAsked',
                 i < j, turnLine'[i] = turnsAsked'[a], turnLine'[j] = turnsAsked'[b]
          PROVE  a < b
      <4>1. i \in 1 .. m
        BY <2>1, <2>2, <3>1
      <4>2. a \in 1 .. n
        BY <1>3, <1>5, <2>1, <3>1, <4>1
      <4>3. CASE j = m + 1
        <5>1. b = n + 1
          BY <1>3, <1>5, <2>1, <3>1, <4>3
        <5> QED
          BY <1>4, <4>2, <5>1
      <4>4. CASE j \in 1 .. m
        <5>1. b \in 1 .. n
          BY <1>3, <1>5, <2>1, <3>1, <4>4
        <5> QED
          BY <1>1, <1>3, <1>4, <2>1, <2>2, <3>1, <4>1, <4>2, <4>4, <5>1 DEF LineAsAsked
      <4> QED
        BY <2>1, <2>2, <4>3, <4>4
    <3>2. \A u \in Turns : stage'[u] # "steering"
      BY <1>1, <1>2, <1>8 DEF Join, Becomes, TurnsTypeOK
    <3> QED
      BY <3>1, <3>2 DEF LineAsAsked
  <2> QED
    BY <1>3, <1>6, <2>1, <2>3 DEF AsAsked
<1> QED
  BY <1>7, <1>8 DEF Ask

LEMMA SteerKeeps ==
    ASSUME TurnsInv, NEW t \in Turns, SteerEnds(t), TurnsTypeOK'
    PROVE  AsAsked'
<1> DEFINE n == Len(turnsAsked)
           m == Len(turnLine)
<1>1. /\ TurnsTypeOK /\ LineKept /\ AskedOnce /\ LineAsAsked /\ SteeredPastNone
      /\ stage[t] = "steering" /\ turnsAsked' = turnsAsked
  BY DEF TurnsInv, SteerEnds
<1>2. /\ \A u \in Turns \ {t} : stage'[u] = stage[u]
      /\ stage'[t] \in {"steered", "queued"}
  BY <1>1 DEF TurnsTypeOK, SteerEnds, Join, Becomes
<1>3. /\ n \in DOMAIN turnsAsked /\ turnsAsked[n] = t
      /\ \A a \in DOMAIN turnsAsked : turnsAsked[a] = t => a = n
      /\ \A a \in DOMAIN turnsAsked : turnsAsked[a] # t => a < n
      /\ \A u \in Turns : stage[u] = "steering" => u = t
  BY <1>1, LastAsked
<1>4. /\ turnsAsked \in Seq(Turns) /\ DOMAIN turnsAsked = 1 .. n /\ n \in Nat
      /\ DOMAIN turnLine = 1 .. m /\ m \in Nat /\ m <= 1
  BY <1>1 DEF TurnsTypeOK, LineAsAsked
<1>5. \A a \in DOMAIN turnsAsked : turnsAsked[a] \in Turns
  BY <1>4
<1>6. AskedOnce'
  BY <1>1, <1>2 DEF AskedOnce
<1>7. \A u \in Turns : stage'[u] # "steering"
  BY <1>2, <1>3
<1>8. ASSUME \A a \in DOMAIN turnsAsked :
                stage'[t] = "steered" /\ a < n => stage[turnsAsked[a]] \notin {"queued", "waiting"}
      PROVE  SteeredPastNone'
  <2> SUFFICES ASSUME NEW a \in DOMAIN turnsAsked, NEW b \in DOMAIN turnsAsked,
                      a < b, stage'[turnsAsked[b]] = "steered"
               PROVE  stage'[turnsAsked[a]] \notin {"queued", "waiting", "steering"}
    BY <1>1 DEF SteeredPastNone
  <2>1. turnsAsked[a] # t /\ a < n
    <3>1. a # n
      BY <1>4
    <3> QED
      BY <1>3, <3>1
  <2>2. stage'[turnsAsked[a]] = stage[turnsAsked[a]]
    BY <1>2, <1>5, <2>1
  <2>3. CASE turnsAsked[b] = t
    BY <1>3, <1>5, <1>8, <2>1, <2>2, <2>3
  <2>4. CASE turnsAsked[b] # t
    BY <1>1, <1>2, <1>5, <2>2, <2>4 DEF SteeredPastNone
  <2> QED
    BY <2>3, <2>4
<1>9. CASE /\ \E u \in Turns : stage[u] \in {"starting", "streaming"}
           /\ Becomes(t, "steered") /\ UNCHANGED <<turnLine, reached>>
  <2>1. stage'[t] = "steered"
    BY <1>1, <1>9 DEF TurnsTypeOK, Becomes
  <2>2. LineKept'
    BY <1>1, <1>2, <1>9, <2>1 DEF LineKept, InLine, Placed, Started
  <2>3. LineAsAsked'
    BY <1>1, <1>7, <1>9 DEF LineAsAsked
  <2>4. PICK u \in Turns : stage[u] \in {"starting", "streaming"}
    BY <1>9
  <2>5. InLine(u)
    BY <1>1, <2>4 DEF LineKept, Placed, Started
  <2>6. ASSUME NEW v \in Turns, stage[v] \in {"queued", "waiting"} PROVE FALSE
    <3>1. InLine(v)
      BY <1>1, <2>6 DEF LineKept, Placed
    <3>2. turnLine[1] = u /\ turnLine[1] = v
      BY <1>4, <2>5, <3>1 DEF InLine
    <3> QED
      BY <2>4, <2>6, <3>2
  <2>7. SteeredPastNone'
    BY <1>5, <1>8, <2>6
  <2> QED
    BY <1>6, <2>2, <2>3, <2>7 DEF AsAsked
<1>10. CASE Join(t)
  <2>1. stage'[t] = "queued"
    BY <1>1, <1>10 DEF TurnsTypeOK, Join, Becomes
  <2>2. /\ Len(turnLine') = m + 1 /\ DOMAIN turnLine' = 1 .. m + 1 /\ turnLine'[m + 1] = t
        /\ \A i \in 1 .. m : turnLine'[i] = turnLine[i] /\ turnLine[i] # t /\ turnLine[i] \in Turns
        /\ LineKept'
    BY <1>1, <1>10, JoinEffect
  <2>3. LineAsAsked'
    <3>1. ASSUME NEW i \in DOMAIN turnLine', NEW j \in DOMAIN turnLine',
                 NEW a \in DOMAIN turnsAsked, NEW b \in DOMAIN turnsAsked,
                 i < j, turnLine'[i] = turnsAsked[a], turnLine'[j] = turnsAsked[b]
          PROVE  a < b
      <4>1. i \in 1 .. m
        BY <1>4, <2>2, <3>1
      <4>2. turnsAsked[a] # t /\ a < n
        BY <1>3, <2>2, <3>1, <4>1
      <4>3. CASE j = m + 1
        BY <1>3, <2>2, <3>1, <4>2, <4>3
      <4>4. CASE j \in 1 .. m
        BY <1>1, <1>4, <2>2, <3>1, <4>1, <4>4 DEF LineAsAsked
      <4> QED
        BY <1>4, <2>2, <4>3, <4>4
    <3> QED
      BY <1>1, <1>7, <3>1 DEF LineAsAsked
  <2>4. SteeredPastNone'
    BY <1>8, <2>1
  <2> QED
    BY <1>6, <2>2, <2>3, <2>4 DEF AsAsked
<1> QED
  BY <1>9, <1>10 DEF SteerEnds

(* A turn that keeps its place moves on. *)
LEMMA MoveKeeps ==
    ASSUME TurnsInv, NEW t \in Turns, TurnsTypeOK',
           Read(t) \/ Begin(t) \/ Streams(t) \/ Stop(t)
    PROVE  AsAsked'
<1>1. /\ TurnsTypeOK /\ LineKept /\ AskedOnce /\ LineAsAsked /\ SteeredPastNone
      /\ UNCHANGED <<turnsAsked, turnLine, reached>>
  BY DEF TurnsInv, Read, Begin, Streams, Stop, Stops
<1>2. /\ \A u \in Turns \ {t} : stage'[u] = stage[u]
      /\ stage[t] \in Placed /\ stage'[t] \in Placed \ {"queued"}
      /\ stage'[t] = "waiting" => stage[t] = "queued"
      /\ stage'[t] \in Started => t \in reached
  BY <1>1 DEF TurnsTypeOK, LineKept, Read, Begin, Streams, Stop, Stops, Becomes, Placed, Started
<1>3. \A a \in DOMAIN turnsAsked : turnsAsked[a] \in Turns
  BY <1>1 DEF TurnsTypeOK
<1>4. LineKept'
  BY <1>1, <1>2 DEF LineKept, InLine, Placed, Started
<1>5. AskedOnce'
  BY <1>1, <1>2 DEF AskedOnce, Placed, Started
<1>6. LineAsAsked'
  BY <1>1, <1>2 DEF LineAsAsked, Placed, Started
<1>7. SteeredPastNone'
  BY <1>1, <1>2, <1>3 DEF SteeredPastNone, Placed, Started
<1> QED
  BY <1>4, <1>5, <1>6, <1>7 DEF AsAsked

LEMMA EndKeeps ==
    ASSUME TurnsInv, NEW t \in Turns, TurnsTypeOK', stage[t] \in Placed, TurnEnds(t)
    PROVE  AsAsked'
<1> DEFINE m == Len(turnLine)
<1>1. /\ TurnsTypeOK /\ LineKept /\ AskedOnce /\ LineAsAsked /\ SteeredPastNone
      /\ turnsAsked' = turnsAsked /\ LeaveLine(t) /\ Becomes(t, "over")
  BY DEF TurnsInv, TurnEnds
<1>2. stage'[t] = "over" /\ \A u \in Turns \ {t} : stage'[u] = stage[u]
  BY <1>1 DEF TurnsTypeOK, Becomes
<1>3. \A a \in DOMAIN turnsAsked : turnsAsked[a] \in Turns
  BY <1>1 DEF TurnsTypeOK
<1>4. m \in Nat /\ DOMAIN turnLine = 1 .. m
  BY <1>1 DEF TurnsTypeOK
<1>5. /\ \E i \in 1 .. m : \A j \in 1 .. m - 1 :
            turnLine'[j] = IF j < i THEN turnLine[j] ELSE turnLine[j + 1]
      /\ Len(turnLine') = m - 1 /\ Len(turnLine') \in Nat /\ DOMAIN turnLine' = 1 .. m - 1
      /\ LineKept'
  BY <1>1, LeaveEffect
<1>6. AskedOnce'
  BY <1>1, <1>2 DEF AskedOnce, Placed, Started
<1>7. LineAsAsked'
  <2>1. PICK k \in 1 .. m : \A j \in 1 .. m - 1 :
            turnLine'[j] = IF j < k THEN turnLine[j] ELSE turnLine[j + 1]
    BY <1>5
  <2>2. ASSUME NEW i \in 1 .. m - 1, NEW j \in 1 .. m - 1,
               NEW a \in DOMAIN turnsAsked, NEW b \in DOMAIN turnsAsked,
               i < j, turnLine'[i] = turnsAsked[a], turnLine'[j] = turnsAsked[b]
        PROVE  a < b
    <3> DEFINE p == IF i < k THEN i ELSE i + 1
               q == IF j < k THEN j ELSE j + 1
    <3>1. p \in DOMAIN turnLine /\ q \in DOMAIN turnLine /\ p < q
      BY <1>4, <2>2
    <3>2. turnLine[p] = turnsAsked[a] /\ turnLine[q] = turnsAsked[b]
      BY <2>1, <2>2
    <3> HIDE DEF p, q
    <3> QED
      BY <1>1, <3>1, <3>2 DEF LineAsAsked
  <2>3. ASSUME NEW u \in Turns, stage'[u] = "steering"
        PROVE  turnsAsked[Len(turnsAsked)] = u /\ Len(turnLine') <= 1
    <3>1. stage[u] = "steering"
      BY <1>2, <2>3
    <3>2. turnsAsked[Len(turnsAsked)] = u /\ m <= 1
      BY <1>1, <3>1 DEF LineAsAsked
    <3> QED
      BY <1>4, <1>5, <3>2
  <2> QED
    BY <1>1, <1>5, <2>2, <2>3 DEF LineAsAsked
<1>8. SteeredPastNone'
  BY <1>1, <1>2, <1>3 DEF SteeredPastNone
<1> QED
  BY <1>5, <1>6, <1>7, <1>8 DEF AsAsked

LEMMA TurnsInvariant == TurnsInit /\ [][TurnsNext]_turnsVars => []TurnsInv
<1>1. TurnsInit => TurnsInv
  <2>1. ASSUME TurnsInit PROVE TurnsTypeOK
    BY <2>1 DEF TurnsInit, TurnsTypeOK, TurnStages
  <2>2. ASSUME TurnsInit PROVE DOMAIN turnLine = {} /\ DOMAIN turnsAsked = {}
    BY <2>2 DEF TurnsInit
  <2>3. ASSUME TurnsInit PROVE LineKept /\ AskedOnce /\ LineAsAsked /\ SteeredPastNone
    BY <2>2, <2>3 DEF TurnsInit, LineKept, AskedOnce, LineAsAsked, SteeredPastNone, InLine,
                      Placed, Started
  <2> QED
    BY <2>1, <2>3 DEF TurnsInv
<1>2. TurnsInv /\ [TurnsNext]_turnsVars => TurnsInv'
  <2> SUFFICES ASSUME TurnsInv, [TurnsNext]_turnsVars PROVE TurnsInv'
    OBVIOUS
  <2>0. TurnsTypeOK'
    BY TurnsTyped DEF TurnsInv
  <2>1. CASE UNCHANGED turnsVars
    BY <2>1 DEF TurnsInv, TurnsTypeOK, LineKept, AskedOnce, LineAsAsked, SteeredPastNone, InLine,
                turnsVars
  <2>2. ASSUME NEW t \in Turns, NEW by \in Turns \cup {NoTurn}, Ask(t, by) PROVE AsAsked'
    BY <2>0, <2>2, AskKeeps
  <2>3. ASSUME NEW t \in Turns, SteerEnds(t) PROVE AsAsked'
    BY <2>0, <2>3, SteerKeeps
  <2>4. ASSUME NEW t \in Turns, Read(t) \/ Begin(t) \/ Streams(t) \/ Stop(t) PROVE AsAsked'
    BY <2>0, <2>4, MoveKeeps
  <2>5. ASSUME NEW t \in Turns, Fails(t) \/ ReaderCancelled(t) \/ Drop(t) \/ CloseTurn(t)
        PROVE  AsAsked'
    <3>1. stage[t] \in Placed /\ TurnEnds(t)
      BY <2>5 DEF Fails, ReaderCancelled, Drop, CloseTurn, Placed, Started
    <3> QED
      BY <2>0, <3>1, EndKeeps
  <2>6. CASE TurnsNext
    <3>1. AsAsked'
      BY <2>2, <2>3, <2>4, <2>5, <2>6 DEF TurnsNext, TurnsObliged
    <3> QED
      BY <2>0, <3>1 DEF TurnsInv, AsAsked
  <2> QED
    BY <2>1, <2>6
<1> QED
  BY <1>1, <1>2, PTL

-----------------------------------------------------------------------------
(* The state of the line always has its shape: a turn has one stage, a     *)
(* place is a turn's.                                                      *)
THEOREM TurnsTypeCorrect == TurnsSpec => []TurnsTypeOK
<1>1. TurnsInv => TurnsTypeOK
  BY DEF TurnsInv
<1> QED
  BY <1>1, TurnsInvariant, PTL DEF TurnsSpec

(* However turns are asked, steered, cancelled and dropped, no two of a    *)
(* line are under way at once (core/_room_turns.py).                       *)
THEOREM TurnsOneAtATime == TurnsSpec => []OneTurn
<1>1. TurnsInv => OneTurn
  BY DEF TurnsInv, LineKept, OneTurn, Placed
<1> QED
  BY <1>1, TurnsInvariant, PTL DEF TurnsSpec

(* No turn starts, and no message is steered into one, past a turn asked   *)
(* before it that still waits.                                             *)
THEOREM TurnsInOrderOfAsks == TurnsSpec => []StartsAsAsked
<1>1. ASSUME TurnsInv PROVE StartsAsAsked
  <2> SUFFICES ASSUME NEW i \in DOMAIN turnsAsked, NEW j \in DOMAIN turnsAsked, i < j,
                      stage[turnsAsked[j]] \in Started \cup {"steered"},
                      stage[turnsAsked[i]] \in {"queued", "waiting"}
               PROVE  FALSE
    BY DEF StartsAsAsked
  <2>1. /\ turnsAsked[i] \in Turns /\ turnsAsked[j] \in Turns
        /\ i \in Nat /\ j \in Nat /\ DOMAIN turnLine = 1 .. Len(turnLine) /\ Len(turnLine) \in Nat
    BY <1>1 DEF TurnsInv, TurnsTypeOK
  <2>2. CASE stage[turnsAsked[j]] = "steered"
    BY <1>1, <2>2 DEF TurnsInv, SteeredPastNone
  <2>3. CASE stage[turnsAsked[j]] \in Started
    <3>1. InLine(turnsAsked[j]) /\ turnLine[1] = turnsAsked[j]
      BY <1>1, <2>1, <2>3 DEF TurnsInv, LineKept, Placed
    <3>2. InLine(turnsAsked[i])
      BY <1>1, <2>1 DEF TurnsInv, LineKept, Placed
    <3>3. PICK p \in DOMAIN turnLine : turnLine[p] = turnsAsked[i]
      BY <3>2 DEF InLine
    <3>4. CASE p = 1
      BY <2>1, <2>3, <3>1, <3>3, <3>4 DEF Started
    <3>5. CASE p # 1
      <4>1. 1 \in DOMAIN turnLine /\ 1 < p
        BY <2>1, <3>5
      <4>2. j < i
        BY <1>1, <3>1, <3>3, <4>1 DEF TurnsInv, LineAsAsked
      <4> QED
        BY <2>1, <4>2
    <3> QED
      BY <3>4, <3>5
  <2> QED
    BY <2>2, <2>3
<1> QED
  BY <1>1, TurnsInvariant, PTL DEF TurnsSpec
=============================================================================
