----------------------------- MODULE RoomTurns ------------------------------
(***************************************************************************)
(* The line of a channel that takes a room's turns one at a time           *)
(* (core/_room_turns.py).  A turn takes its place when the room's lane     *)
(* asks it, is read by the reader of its delivery's streams, one stream    *)
(* after the other (core/mixins/inbound_streaming.py), starts once its     *)
(* place is reached and gives the place up once what it said is written.   *)
(* A message may be handed to the running turn instead, and a running      *)
(* turn's tool may send one that asks for a turn of the same line.         *)
(***************************************************************************)
EXTENDS Integers, Sequences, FiniteSets

CONSTANTS
    Turns,       \* what the lane asks the channel for
    Deliveries,  \* the deliveries that ask: each reads its streams in order
    NoTurn       \* no turn

ASSUME TurnsAssumption == IsFiniteSet(Turns) /\ NoTurn \notin Turns

VARIABLES
    turnsAsked,    \* the turns asked, in order
    asker,    \* the delivery that asked each
    turnLine,     \* the turns that have a place, in order
    reached,  \* the turns whose place is reached, or given up
    stage,    \* where each turn is
    within,   \* the turn whose tool asked it
    inline    \* the turns a tool reads itself, its own turn waiting for them

turnsVars == <<turnsAsked, asker, turnLine, reached, stage, within, inline>>

Started == {"starting", "streaming", "writing"}
TurnStages == {"none", "steering", "steered", "queued", "waiting", "over"} \cup Started

TurnsTypeOK ==
    /\ turnsAsked \in Seq(Turns)
    /\ asker \in [Turns -> Deliveries]
    /\ turnLine \in Seq(Turns)
    /\ reached \in SUBSET Turns
    /\ stage \in [Turns -> TurnStages]
    /\ within \in [Turns -> Turns \cup {NoTurn}]
    /\ inline \in SUBSET Turns

TurnsInit ==
    /\ turnsAsked = <<>> /\ turnLine = <<>> /\ reached = {} /\ inline = {}
    /\ asker \in [Turns -> Deliveries]
    /\ stage = [t \in Turns |-> "none"]
    /\ within = [t \in Turns |-> NoTurn]

-----------------------------------------------------------------------------
(* The line. *)

InLine(t) == \E i \in DOMAIN turnLine : turnLine[i] = t
Becomes(t, s) == stage' = [stage EXCEPT ![t] = s]

(* join *)
Join(t) ==
    /\ turnLine' = Append(turnLine, t)
    /\ reached' = IF turnLine = <<>> THEN reached \cup {t} ELSE reached
    /\ Becomes(t, "queued")

(* leave: once; the next is reached if the first left. *)
NextOf(t) == IF Len(turnLine) > 1 /\ Head(turnLine) = t THEN {turnLine[2]} ELSE {}

Without(t) ==
    IF InLine(t)
    THEN LET i == CHOOSE i \in DOMAIN turnLine : turnLine[i] = t
         IN  SubSeq(turnLine, 1, i - 1) \o SubSeq(turnLine, i + 1, Len(turnLine))
    ELSE turnLine

LeaveLine(t) ==
    /\ turnLine' = Without(t)
    /\ reached' = reached \cup {t} \cup NextOf(t)

-----------------------------------------------------------------------------
(* The lane asks, one turn after the other; from the channel's own turn    *)
(* *by* when a tool of it sent the message.  _steered: a line that holds   *)
(* one turn alone lets it read the message, if the steer reaches it.       *)
SteersAnyLine == turnLine # <<>>   \* mutant: others may wait behind the running turn
SteersOne == Len(turnLine) = 1

ToolBusy(t) == \E u \in inline : within[u] = t

Ask(t, by) ==
    /\ stage[t] = "none" /\ \A u \in Turns : stage[u] # "steering"
    /\ by # NoTurn => stage[by] = "streaming" /\ ~ToolBusy(by)
    /\ turnsAsked' = Append(turnsAsked, t)
    /\ within' = [within EXCEPT ![t] = by]
    /\ \/ SteersOne /\ Becomes(t, "steering") /\ UNCHANGED <<turnLine, reached>>
       \/ Join(t)
    /\ UNCHANGED <<asker, inline>>

(* The steer reaches a turn that runs, or none. *)
SteerEnds(t) ==
    /\ stage[t] = "steering"
    /\ \/ /\ \E u \in Turns : stage[u] \in {"starting", "streaming"}
          /\ Becomes(t, "steered")
          /\ UNCHANGED <<turnLine, reached>>
       \/ Join(t)
    /\ UNCHANGED <<turnsAsked, asker, within, inline>>

-----------------------------------------------------------------------------
(* The reading. *)

(* waits_on_caller: a tool does not read what waits behind its own turn;   *)
(* its delivery's reader does.                                             *)
NeverBehind(t) == within[t] # NoTurn   \* mutant: a tool reads what it asked for
ToolReads(t) ==
    /\ within[t] # NoTurn /\ stage[within[t]] = "streaming"
    /\ ~ (InLine(t) /\ InLine(within[t]))

(* The streams of its delivery asked before it are read and closed. *)
ItsTurnToBeRead(t) ==
    \A i, j \in DOMAIN turnsAsked :
        i < j /\ turnsAsked[j] = t /\ asker[turnsAsked[i]] = asker[t]
              /\ within[turnsAsked[i]] = NoTurn /\ within[t] = NoTurn
            => stage[turnsAsked[i]] \in {"over", "steered"}

Read(t) ==
    /\ stage[t] = "queued" /\ ItsTurnToBeRead(t)
    /\ Becomes(t, "waiting")
    /\ inline' = IF ToolReads(t) THEN inline \cup {t} ELSE inline
    /\ UNCHANGED <<turnsAsked, asker, turnLine, reached, within>>

(* until_reached, then _begin: it starts. *)
Begin(t) ==
    /\ stage[t] = "waiting" /\ t \in reached
    /\ Becomes(t, "starting")
    /\ UNCHANGED <<turnsAsked, asker, turnLine, reached, within, inline>>

Streams(t) ==
    /\ stage[t] = "starting"
    /\ Becomes(t, "streaming")
    /\ UNCHANGED <<turnsAsked, asker, turnLine, reached, within, inline>>

(* Its stream ends or is stopped, its tools over: what it said is to be    *)
(* written.                                                                *)
StopsAndLeaves(t) ==   \* mutant: the place is given up before
    Becomes(t, "writing") /\ LeaveLine(t)
Stops(t) == Becomes(t, "writing") /\ UNCHANGED <<turnLine, reached>>

Stop(t) ==
    /\ stage[t] = "streaming" /\ ~ToolBusy(t)
    /\ Stops(t)
    /\ UNCHANGED <<turnsAsked, asker, within, inline>>

(* A turn is over: closed once written; refused as it starts; its reader   *)
(* cancelled; dropped or collected unread.                                 *)
TurnEnds(t) ==
    /\ Becomes(t, "over")
    /\ LeaveLine(t)
    /\ inline' = inline \ {t}
    /\ UNCHANGED <<turnsAsked, asker, within>>

CloseTurn(t) == stage[t] = "writing" /\ TurnEnds(t)
Fails(t) == stage[t] = "starting" /\ TurnEnds(t)
ReaderCancelled(t) ==
    /\ stage[t] \in {"waiting", "streaming"} /\ ~ToolBusy(t)
    /\ TurnEnds(t)
Drop(t) == stage[t] = "queued" /\ TurnEnds(t)

-----------------------------------------------------------------------------
TurnsObliged ==
    \E t \in Turns :
        SteerEnds(t) \/ Read(t) \/ Begin(t) \/ Streams(t) \/ Stop(t) \/ CloseTurn(t)

TurnsNext ==
    \/ \E t \in Turns, by \in Turns \cup {NoTurn} : Ask(t, by)
    \/ \E t \in Turns : Fails(t) \/ ReaderCancelled(t) \/ Drop(t)
    \/ TurnsObliged

(* The agents' streams and the writes end, and each delivery's streams are *)
(* read.  Every step takes a turn further and there are finitely many: the *)
(* one weak fairness is fair to each.                                      *)
TurnsSpec == TurnsInit /\ [][TurnsNext]_turnsVars /\ WF_turnsVars(TurnsObliged)
-----------------------------------------------------------------------------
(* One turn of the line is under way at a time, until what it said is      *)
(* written.                                                                *)
OneTurn == \A t, u \in Turns : stage[t] \in Started /\ stage[u] \in Started => t = u

(* Turns start in the order they were asked, and a message is handed to a  *)
(* running turn past none that was asked before it.                        *)
StartsAsAsked ==
    \A i, j \in DOMAIN turnsAsked :
        i < j /\ stage[turnsAsked[j]] \in Started \cup {"steered"}
            => stage[turnsAsked[i]] \notin {"queued", "waiting"}

(* Every turn asked for ends: none waits on one that waits on it. *)
TurnsEnd == []<>(\A t \in Turns : stage[t] \in {"none", "over", "steered"})
=============================================================================
