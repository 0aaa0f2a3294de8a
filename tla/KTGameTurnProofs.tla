-------------------------- MODULE KTGameTurnProofs ---------------------------
(***************************************************************************)
(* What the standing log says of the clock and of who has acted is what    *)
(* the rows say, in a battle of any length: ClockCountsAdvances and        *)
(* ActivatesOncePerTurn.                                                   *)
(*                                                                         *)
(* Undo returns to an earlier state, so that the present state agreeing    *)
(* with the whole standing log is not inductive.  Each state the chain of  *)
(* KTGameHistoryProofs leads back through agrees with the part of the log  *)
(* that stood when it was left.                                            *)
(***************************************************************************)
EXTENDS KTGameHistoryProofs

-----------------------------------------------------------------------------
(* What a part S of the log says, and a state that agrees with it *)

Steps(log, S) ==
  {k \in S : log[k].type = "advanced" /\ "phase" \in DOMAIN log[k].before}

Clock(g) == 2 * (g.turning_point - 1) + (IF g.phase = "firefight" THEN 1 ELSE 0)

Activated(e, id) == e.type = "operative_activated" /\ e.target = id

Acts(log, S, id) == {k \in S : Activated(log[k], id)}

(* The turning points of an operative's activations grow, up to the        *)
(* game's, and its row's stamp is the last of them.                        *)
StampAgrees(acts, log, turning_point, stamp) ==
  /\ \A k \in acts : log[k].turning_point <= turning_point
  /\ \A j, k \in acts : j < k => log[j].turning_point < log[k].turning_point
  /\ acts = {} => stamp = None
  /\ \A k \in acts : (\A j \in acts : j <= k) => stamp = log[k].turning_point

Agrees(log, S, s) ==
  /\ Cardinality(Steps(log, S)) = Clock(s.game)
  /\ \A id \in DOMAIN s.operatives :
       StampAgrees(Acts(log, S, id), log, s.game.turning_point,
                   s.operatives[id].activated_in)

(* What stood when a standing event was written. *)
Earlier(i) == {k \in Standing : k < i}

TurnInv ==
  /\ HInv
  /\ Agrees(events, Standing, State)
  /\ \A i \in Standing : Agrees(events, Earlier(i), past[i])

LEMMA AgreesKept ==
  ASSUME NEW log, NEW newLog, NEW S, NEW s, \A k \in S : newLog[k] = log[k],
         Agrees(log, S, s)
  PROVE  Agrees(newLog, S, s)
<1>1. Steps(newLog, S) = Steps(log, S)
  BY DEF Steps
<1>2. \A id : Acts(newLog, S, id) = Acts(log, S, id)
  BY DEF Acts
<1>3. ASSUME NEW id \in DOMAIN s.operatives
      PROVE  StampAgrees(Acts(newLog, S, id), newLog, s.game.turning_point,
                         s.operatives[id].activated_in)
  <2>1. PICK acts, stamp : acts = Acts(log, S, id) /\ stamp = s.operatives[id].activated_in
    OBVIOUS
  <2>2. StampAgrees(acts, log, s.game.turning_point, stamp)
    BY <2>1 DEF Agrees
  <2>3. \A k \in acts : newLog[k] = log[k]
    BY <2>1 DEF Acts
  <2>4. StampAgrees(acts, newLog, s.game.turning_point, stamp)
    BY <2>2, <2>3 DEF StampAgrees
  <2> QED
    BY <1>2, <2>1, <2>4
<1> QED
  BY <1>1, <1>3 DEF Agrees

-----------------------------------------------------------------------------
(* What a write says and does *)

Ticks(e) == e.type = "advanced" /\ "phase" \in DOMAIN e.before

LEMMA GameIsTyped ==
  ASSUME TypeOK
  PROVE  /\ DOMAIN game = DOMAIN GameColumns
         /\ game.turning_point \in Nat /\ game.turning_point <= LastTurningPoint
         /\ game.phase \in {"strategy", "firefight"}
         /\ LastTurningPoint \in Nat
BY TurningPointAssumption DEF TypeOK, IsRow, GameColumns, TurningPoints

(* The clock of a game moves by one when an advance moves its phase, and   *)
(* by nothing else; it never goes back.                                    *)
LEMMA PlayTicks ==
  ASSUME TypeOK, Play
  PROVE  /\ Clock(game') = Clock(game) + (IF Ticks(events'[NextSequence]) THEN 1 ELSE 0)
         /\ game.turning_point <= game'.turning_point
<1> DEFINE e == events'[NextSequence]
           Goal == /\ Clock(game') = Clock(game) + (IF Ticks(e) THEN 1 ELSE 0)
                   /\ game.turning_point <= game'.turning_point
<1>1. /\ game.turning_point \in Nat /\ Clock(game) \in Int
      /\ DOMAIN game = DOMAIN GameColumns
  BY GameIsTyped DEF Clock
<1>2. ASSUME game' = game, e.type # "advanced" PROVE Goal
  BY <1>1, <1>2 DEF Ticks
<1>3. ASSUME NEW type, NEW changes, WriteGame(type, changes), type # "advanced",
             "turning_point" \notin DOMAIN changes, "phase" \notin DOMAIN changes
      PROVE  Goal
  <2>1. e.type # "advanced"
    BY <1>3, WriteLeaves DEF WriteGame
  <2>2. game'.turning_point = game.turning_point /\ game'.phase = game.phase
    BY <1>1, <1>3 DEF WriteGame, Set, GameColumns
  <2> QED
    BY <1>1, <2>1, <2>2 DEF Ticks, Clock
<1>4. ASSUME UpdateGame PROVE Goal
  BY <1>3, <1>4 DEF UpdateGame
<1>5. ASSUME NEW p \in Ploys, UsePloy(p) PROVE Goal
  BY <1>3, <1>5 DEF UsePloy
<1>6. ASSUME Advance PROVE Goal
  <2>1. PICK changes : changes = Moved
    OBVIOUS
  <2>2. /\ e.type = "advanced" /\ e.before = Before(game, changes)
        /\ game' = Set(game, changes)
    BY <1>6, <2>1, WriteLeaves DEF Advance, WriteGame
  <2>3. "phase" \in DOMAIN e.before <=> "phase" \in DOMAIN changes /\ game.phase # changes.phase
    BY <2>2 DEF Before
  <2>4. CASE game.phase = "strategy"
    <3>1. changes = [phase |-> "firefight", status |-> UnderWay]
      BY <2>1, <2>4 DEF Moved
    <3>2. game'.turning_point = game.turning_point /\ game'.phase = "firefight" /\ Ticks(e)
      BY <1>1, <2>2, <2>3, <2>4, <3>1 DEF Set, GameColumns, Ticks
    <3> QED
      BY <1>1, <2>4, <3>2 DEF Clock
  <2>5. CASE game.phase # "strategy" /\ game.turning_point < LastTurningPoint
    <3>1. changes = [phase |-> "strategy", turning_point |-> game.turning_point + 1,
                     initiative |-> None, status |-> UnderWay]
      BY <2>1, <2>5 DEF Moved
    <3>2. /\ game'.turning_point = game.turning_point + 1 /\ game'.phase = "strategy"
          /\ Ticks(e)
      BY <1>1, <2>2, <2>3, <2>5, <3>1 DEF Set, GameColumns, Ticks
    <3>3. game.phase = "firefight"
      BY <2>5, GameIsTyped
    <3> QED
      BY <1>1, <3>2, <3>3 DEF Clock
  <2>6. CASE game.phase # "strategy" /\ ~(game.turning_point < LastTurningPoint)
    <3>1. changes = [status |-> "finished"]
      BY <2>1, <2>6 DEF Moved
    <3>2. /\ game'.turning_point = game.turning_point /\ game'.phase = game.phase
          /\ ~Ticks(e)
      BY <1>1, <2>2, <2>3, <3>1 DEF Set, GameColumns, Ticks
    <3> QED
      BY <1>1, <3>2 DEF Clock
  <2> QED
    BY <2>4, <2>5, <2>6
<1>7. ASSUME NEW c \in Cards, AddOperative(c) PROVE Goal
  BY <1>2, <1>7, WriteLeaves DEF AddOperative
<1>8. ASSUME NEW id \in DOMAIN operatives, NEW c \in Cards, TransformOperative(id, c)
      PROVE  Goal
  BY <1>2, <1>8, WriteLeaves DEF TransformOperative, WriteOperative
<1>9. ASSUME NEW id \in DOMAIN operatives, UpdateOperative(id) PROVE Goal
  BY <1>2, <1>9, WriteLeaves DEF UpdateOperative, WriteOperative
<1>10. ASSUME NEW id \in DOMAIN operatives, ActivateOperative(id) PROVE Goal
  BY <1>2, <1>10, WriteLeaves DEF ActivateOperative, WriteOperative
<1>11. ASSUME NEW k \in Kit, AddEquipment(k) PROVE Goal
  BY <1>2, <1>11, WriteLeaves DEF AddEquipment
<1>12. ASSUME NEW id \in DOMAIN equipment, RevealEquipment(id) PROVE Goal
  BY <1>2, <1>12, WriteLeaves DEF RevealEquipment, WriteEquipment
<1>13. ASSUME NEW id \in DOMAIN equipment, RemoveEquipment(id) PROVE Goal
  BY <1>2, <1>13, WriteLeaves DEF RemoveEquipment
<1> HIDE DEF Goal
<1>14. Goal
  BY <1>4, <1>5, <1>6, <1>7, <1>8, <1>9, <1>10, <1>11, <1>12, <1>13 DEF Play
<1> QED
  BY <1>14 DEF Goal

(* An operative's stamp moves by an activation of it alone, to a turning   *)
(* point it has not acted in; a row that is new has no stamp.              *)
Stamps(id, e) ==
  \/ /\ id \in DOMAIN operatives /\ Activated(e, id)
     /\ game' = game /\ e.turning_point = game.turning_point
     /\ operatives'[id].activated_in = game.turning_point
     /\ operatives[id].activated_in # game.turning_point
  \/ /\ id \in DOMAIN operatives /\ ~Activated(e, id)
     /\ operatives'[id].activated_in = operatives[id].activated_in
  \/ /\ id = NewId /\ ~Activated(e, id)
     /\ operatives'[id].activated_in = None

LEMMA PlayStamps ==
  ASSUME TypeOK, Play
  PROVE  \A id \in DOMAIN operatives' : Stamps(id, events'[NextSequence])
<1> DEFINE e == events'[NextSequence]
           Goal == \A id \in DOMAIN operatives' : Stamps(id, e)
<1>1. ASSUME operatives' = operatives, e.type # "operative_activated" PROVE Goal
  BY <1>1 DEF Stamps, Activated
<1>2. ASSUME NEW type, type # "operative_activated", NEW id \in DOMAIN operatives, NEW changes,
             WriteOperative(type, id, changes), "activated_in" \notin DOMAIN changes
      PROVE  Goal
  <2>1. e.type # "operative_activated"
    BY <1>2, WriteLeaves DEF WriteOperative
  <2>2. DOMAIN operatives[id] = DOMAIN OperativeColumns
    BY DEF TypeOK, IsRow
  <2>3. PICK row : row = Set(operatives[id], changes)
    OBVIOUS
  <2>4. row.activated_in = operatives[id].activated_in
    BY <1>2, <2>2, <2>3 DEF Set, OperativeColumns
  <2>5. operatives' = [operatives EXCEPT ![id] = row]
    BY <1>2, <2>3 DEF WriteOperative
  <2> QED
    BY <2>1, <2>4, <2>5 DEF Stamps, Activated
<1>3. ASSUME UpdateGame PROVE Goal
  BY <1>1, <1>3, WriteLeaves DEF UpdateGame, WriteGame
<1>4. ASSUME NEW p \in Ploys, UsePloy(p) PROVE Goal
  BY <1>1, <1>4, WriteLeaves DEF UsePloy, WriteGame
<1>5. ASSUME Advance PROVE Goal
  BY <1>1, <1>5, WriteLeaves DEF Advance, WriteGame
<1>6. ASSUME NEW c \in Cards, AddOperative(c) PROVE Goal
  <2>1. e.type # "operative_activated"
    BY <1>6, WriteLeaves DEF AddOperative
  <2>2. PICK new, row, p : /\ new = NewId /\ row = NewOperative(c, p, game.turning_point)
                           /\ operatives' = With(operatives, new, row)
    BY <1>6 DEF AddOperative
  <2>3. row.activated_in = None
    BY <2>2 DEF NewOperative
  <2>4. new \notin DOMAIN operatives
    BY <2>2, IdsInUse
  <2>5. ASSUME NEW id \in DOMAIN operatives' PROVE Stamps(id, e)
    <3>1. CASE id = new
      BY <2>1, <2>2, <2>3, <3>1 DEF Stamps, Activated, With
    <3>2. CASE id # new
      BY <2>1, <2>2, <3>2 DEF Stamps, Activated, With
    <3> QED
      BY <3>1, <3>2
  <2> QED
    BY <2>5
<1>7. ASSUME NEW id \in DOMAIN operatives, NEW c \in Cards, TransformOperative(id, c)
      PROVE  Goal
  BY <1>2, <1>7 DEF TransformOperative
<1>8. ASSUME NEW id \in DOMAIN operatives, UpdateOperative(id) PROVE Goal
  BY <1>2, <1>8 DEF UpdateOperative
<1>9. ASSUME NEW id \in DOMAIN operatives, ActivateOperative(id) PROVE Goal
  <2>1. PICK changes, row : /\ changes = [activated_in |-> game.turning_point]
                            /\ row = Set(operatives[id], changes)
    OBVIOUS
  <2>2. WriteOperative("operative_activated", id, changes)
    BY <1>9, <2>1 DEF ActivateOperative
  <2>3. /\ e.type = "operative_activated" /\ e.target = id
        /\ game' = game /\ e.turning_point = game.turning_point
    BY <2>2, WriteLeaves DEF WriteOperative
  <2>4. DOMAIN operatives[id] = DOMAIN OperativeColumns
    BY DEF TypeOK, IsRow
  <2>5. row.activated_in = game.turning_point
    BY <2>1, <2>4 DEF Set, OperativeColumns
  <2>6. operatives' = [operatives EXCEPT ![id] = row]
    BY <2>1, <2>2 DEF WriteOperative
  <2>7. operatives[id].activated_in # game.turning_point
    BY <1>9 DEF ActivateOperative
  <2> QED
    BY <2>3, <2>5, <2>6, <2>7 DEF Stamps, Activated
<1>10. ASSUME NEW k \in Kit, AddEquipment(k) PROVE Goal
  BY <1>1, <1>10, WriteLeaves DEF AddEquipment
<1>11. ASSUME NEW id \in DOMAIN equipment, RevealEquipment(id) PROVE Goal
  BY <1>1, <1>11, WriteLeaves DEF RevealEquipment, WriteEquipment
<1>12. ASSUME NEW id \in DOMAIN equipment, RemoveEquipment(id) PROVE Goal
  BY <1>1, <1>12, WriteLeaves DEF RemoveEquipment
<1> HIDE DEF Goal
<1>13. Goal
  BY <1>3, <1>4, <1>5, <1>6, <1>7, <1>8, <1>9, <1>10, <1>11, <1>12 DEF Play
<1> QED
  BY <1>13 DEF Goal

-----------------------------------------------------------------------------
(* The invariant is inductive *)

(* Standing events are finitely many naturals, and a turning point is one. *)
LEMMA StandingTyped ==
  ASSUME TypeOK
  PROVE  /\ Standing \subseteq Nat /\ IsFiniteSet(Standing)
         /\ \A k \in Standing : events[k].turning_point \in Nat
<1>1. DOMAIN events = 1..(version - 1) /\ version \in Nat
  BY DEF TypeOK
<1>2. Standing \subseteq 1..(version - 1) /\ 1..(version - 1) \subseteq Nat
  BY <1>1 DEF Standing
<1>3. IsFiniteSet(Standing)
  <2>1. IsFiniteSet(1..(version - 1))
    BY <1>1, FS_Interval
  <2> QED
    BY <1>2, <2>1, FS_Subset
<1>4. \A k \in DOMAIN events : events[k].turning_point \in TurningPoints
  BY DEF TypeOK, IsEvent
<1>5. TurningPoints \subseteq Nat
  BY TurningPointAssumption DEF TurningPoints
<1> QED
  BY <1>2, <1>3, <1>4, <1>5 DEF Standing

(* No event speaks of an operative still to come. *)
LEMMA NewIdIsUnspoken ==
  ASSUME TypeOK
  PROVE  Acts(events, Standing, NewId) = {}
<1>1. Len(Roster) \in Nat /\ version \in Nat /\ NewId = Len(Roster) + version
  BY CardAssumption, NextSequenceIsVersion DEF TypeOK, NewId
<1>2. ASSUME NEW k \in Standing, Activated(events[k], NewId) PROVE FALSE
  <2>1. IsEvent(events[k]) /\ events[k].type = "operative_activated"
    BY <1>2 DEF TypeOK, Standing, Activated
  <2>2. IsOperativeId(events[k].target)
    BY <2>1 DEF IsEvent, OperativeWrites
  <2>3. IsOperativeId(NewId)
    BY <1>2, <2>2 DEF Activated
  <2>4. NewId \in 1..(Len(Roster) + version - 1)
    BY <2>3, IdsAreDisjoint
  <2> QED
    BY <1>1, <2>4
<1> QED
  BY <1>2 DEF Acts

(* One more event on the log, and the state it leaves. *)
LEMMA PlayAgrees ==
  ASSUME TypeOK, Play, Agrees(events, Standing, State)
  PROVE  Agrees(events', Standing', State')
<1>1. PICK n : n = NextSequence
  OBVIOUS
<1>2. /\ n \notin Standing /\ n \in Nat
      /\ \A i \in Standing : i \in Nat /\ i < n
      /\ Standing' = Standing \cup {n}
      /\ \A i \in Standing : events'[i] = events[i]
  BY <1>1, PlayStands
<1>3. Cardinality(Steps(events', Standing')) = Clock(game')
  <2>1. Cardinality(Steps(events, Standing)) = Clock(game)
    BY DEF Agrees, State
  <2>2. IsFiniteSet(Steps(events, Standing))
    BY StandingTyped, FS_Subset DEF Steps
  <2>3. Clock(game') = Clock(game) + (IF Ticks(events'[n]) THEN 1 ELSE 0)
    BY <1>1, PlayTicks
  <2>4. CASE Ticks(events'[n])
    <3>1. Steps(events', Standing') = Steps(events, Standing) \cup {n}
      BY <1>2, <2>4 DEF Steps, Ticks
    <3>2. n \notin Steps(events, Standing)
      BY <1>2 DEF Steps
    <3> QED
      BY <2>1, <2>2, <2>3, <2>4, <3>1, <3>2, FS_AddElement
  <2>5. CASE ~Ticks(events'[n])
    <3>1. Steps(events', Standing') = Steps(events, Standing)
      BY <1>2, <2>5 DEF Steps, Ticks
    <3>2. Clock(game) \in Int
      BY GameIsTyped DEF Clock
    <3> QED
      BY <2>1, <2>3, <2>5, <3>1, <3>2
  <2> QED
    BY <2>4, <2>5
<1>4. ASSUME NEW id \in DOMAIN operatives'
      PROVE  StampAgrees(Acts(events', Standing', id), events', game'.turning_point,
                         operatives'[id].activated_in)
  <2>1. PICK acts, stamp, tp, e, log, newActs, newStamp, newTp, newLog :
          /\ acts = Acts(events, Standing, id) /\ newActs = Acts(events', Standing', id)
          /\ stamp = operatives[id].activated_in /\ newStamp = operatives'[id].activated_in
          /\ tp = game.turning_point /\ newTp = game'.turning_point
          /\ e = events'[n]
          /\ log = events /\ newLog = events'
    OBVIOUS
  <2>2. /\ acts \subseteq Nat /\ (\A k \in acts : k < n) /\ IsFiniteSet(acts)
        /\ \A k \in acts : log[k].turning_point \in Nat /\ newLog[k] = log[k]
    BY <1>2, <2>1, StandingTyped, FS_Subset DEF Acts
  <2>3. newActs = IF Activated(e, id) THEN acts \cup {n} ELSE acts
    BY <1>2, <2>1 DEF Acts
  <2>4. tp \in Nat /\ newTp \in Nat /\ tp <= newTp
    <3>1. TypeOK'
      BY NextTyped DEF Next
    <3>2. game'.turning_point \in TurningPoints
      BY <3>1 DEF TypeOK, IsRow, GameColumns
    <3> QED
      BY <2>1, <3>2, PlayTicks, GameIsTyped, TurningPointAssumption DEF TurningPoints
  <2>5. Stamps(id, e)
    BY <1>1, <2>1, PlayStamps
  <2>6. newLog[n] = e
    BY <2>1
  <2>7. id \in DOMAIN operatives => StampAgrees(acts, log, tp, stamp)
    BY <2>1 DEF Agrees, State
  <2>8. CASE id \in DOMAIN operatives /\ Activated(e, id)
    <3>1. newTp = tp /\ e.turning_point = tp /\ newStamp = tp /\ stamp # tp
      BY <2>1, <2>5, <2>8, IdsInUse DEF Stamps
    <3>2. StampAgrees(acts, log, tp, stamp)
      BY <2>7, <2>8
    <3>3. newActs = acts \cup {n}
      BY <2>3, <2>8
    <3>4. \A k \in acts : log[k].turning_point < tp
      <4>1. SUFFICES ASSUME NEW k \in acts PROVE log[k].turning_point < tp
        OBVIOUS
      <4>2. PICK last \in acts : \A j \in acts : j <= last
        BY <2>2, HighestIsMaximum
      <4>3. stamp = log[last].turning_point /\ log[last].turning_point <= tp
        BY <3>2, <4>2 DEF StampAgrees
      <4>4. log[k].turning_point <= log[last].turning_point
        <5>1. CASE k = last
          BY <2>2, <4>2, <5>1
        <5>2. CASE k # last
          <6>1. k < last
            BY <2>2, <4>2, <5>2
          <6>2. log[k].turning_point < log[last].turning_point
            BY <3>2, <4>2, <6>1 DEF StampAgrees
          <6> QED
            BY <2>2, <4>2, <6>2
        <5> QED
          BY <5>1, <5>2
      <4> QED
        BY <2>2, <2>4, <3>1, <4>2, <4>3, <4>4
    <3>5. \A k \in newActs : newLog[k].turning_point <= newTp
      BY <2>2, <2>4, <2>6, <3>1, <3>3, <3>4
    <3>6. \A j, k \in newActs : j < k => newLog[j].turning_point < newLog[k].turning_point
      <4>1. SUFFICES ASSUME NEW j \in newActs, NEW k \in newActs, j < k
                     PROVE  newLog[j].turning_point < newLog[k].turning_point
        OBVIOUS
      <4>2. n \in Nat /\ k \in Nat /\ j \in Nat /\ k <= n
        BY <1>2, <2>2, <3>3
      <4>3. j \in acts
        BY <3>3, <4>1, <4>2
      <4>4. CASE k = n
        BY <2>2, <2>6, <3>1, <3>4, <4>3, <4>4
      <4>5. CASE k # n
        BY <2>2, <3>2, <3>3, <4>1, <4>3, <4>5 DEF StampAgrees
      <4> QED
        BY <4>4, <4>5
    <3>7. \A k \in newActs : (\A j \in newActs : j <= k) => k = n
      <4>1. SUFFICES ASSUME NEW k \in newActs, \A j \in newActs : j <= k
                     PROVE  k = n
        OBVIOUS
      <4>2. n \in newActs /\ n <= k
        BY <3>3, <4>1
      <4>3. k \in acts => k < n /\ k \in Nat
        BY <2>2
      <4>4. n \in Nat
        BY <1>2
      <4> QED
        BY <3>3, <4>2, <4>3, <4>4
    <3> QED
      BY <2>1, <2>6, <3>1, <3>3, <3>5, <3>6, <3>7 DEF StampAgrees
  <2>9. CASE id \in DOMAIN operatives /\ ~Activated(e, id)
    <3>1. newStamp = stamp /\ newActs = acts
      BY <2>1, <2>3, <2>5, <2>9, IdsInUse DEF Stamps
    <3>2. StampAgrees(acts, newLog, newTp, stamp)
      BY <2>2, <2>4, <2>7, <2>9 DEF StampAgrees
    <3> QED
      BY <2>1, <3>1, <3>2
  <2>10. CASE id \notin DOMAIN operatives
    <3>1. id = NewId /\ ~Activated(e, id) /\ newStamp = None
      BY <2>1, <2>5, <2>10 DEF Stamps
    <3>2. newActs = {}
      BY <2>1, <2>3, <3>1, NewIdIsUnspoken
    <3> QED
      BY <2>1, <3>1, <3>2 DEF StampAgrees
  <2> QED
    BY <2>8, <2>9, <2>10
<1> QED
  BY <1>3, <1>4 DEF Agrees, State

LEMMA InitAgrees ==
  ASSUME HInit
  PROVE  TurnInv
<1>1. Standing = {}
  <2>1. events = <<>>
    BY DEF HInit, Init
  <2> QED
    BY <2>1 DEF Standing
<1>2. Cardinality(Steps(events, Standing)) = 0
  BY <1>1, FS_EmptySet DEF Steps
<1>3. Clock(game) = 0
  BY DEF HInit, Init, NewGame, Clock
<1>4. \A id \in DOMAIN operatives : operatives[id].activated_in = None
  BY DEF HInit, Init, NewOperative
<1>5. \A id : Acts(events, Standing, id) = {}
  BY <1>1 DEF Acts
<1>6. Agrees(events, Standing, State)
  BY <1>2, <1>3, <1>4, <1>5 DEF Agrees, State, StampAgrees
<1> QED
  BY <1>1, <1>6, InitInv DEF TurnInv

LEMMA PlayTurnInv ==
  ASSUME TurnInv, HPlay
  PROVE  TurnInv'
<1>1. HInv'
  BY PlayInv DEF TurnInv
<1>2. TypeOK /\ Play /\ DOMAIN past = Standing
  BY DEF TurnInv, HInv, Chain, HPlay
<1>3. PICK n : n = NextSequence
  OBVIOUS
<1>4. /\ n \notin Standing /\ n \in Nat
      /\ \A i \in Standing : i \in Nat /\ i < n
      /\ Standing' = Standing \cup {n}
      /\ \A i \in Standing : events'[i] = events[i]
  BY <1>2, <1>3, PlayStands
<1>5. past'[n] = State /\ \A i \in Standing : past'[i] = past[i]
  BY <1>2, <1>3, <1>4 DEF HPlay, With
<1>6. Agrees(events', Standing', State')
  BY <1>2, PlayAgrees DEF TurnInv
<1>7. ASSUME NEW i \in Standing'
      PROVE  Agrees(events', Earlier(i)', past'[i])
  <2>1. CASE i = n
    <3>1. Earlier(i)' = Standing
      <4>1. Earlier(i)' = {k \in Standing' : k < n}
        BY <2>1 DEF Earlier
      <4>2. ~(n < n)
        BY <1>4
      <4> QED
        BY <1>4, <4>1, <4>2
    <3>2. Agrees(events, Standing, State)
      BY DEF TurnInv
    <3>3. Agrees(events', Standing, State)
      BY <1>4, <3>2, AgreesKept
    <3> QED
      BY <1>5, <2>1, <3>1, <3>3
  <2>2. CASE i # n
    <3>1. i \in Standing /\ Earlier(i)' = Earlier(i) /\ Earlier(i) \subseteq Standing
      BY <1>4, <2>2 DEF Earlier
    <3>2. Agrees(events, Earlier(i), past[i])
      BY <3>1 DEF TurnInv
    <3>3. \A k \in Earlier(i) : events'[k] = events[k]
      BY <1>4, <3>1
    <3>4. Agrees(events', Earlier(i), past[i])
      BY <3>2, <3>3, AgreesKept
    <3> QED
      BY <1>5, <3>1, <3>4
  <2> QED
    BY <2>1, <2>2
<1> QED
  BY <1>1, <1>6, <1>7 DEF TurnInv

LEMMA UndoTurnInv ==
  ASSUME TurnInv, HUndo
  PROVE  TurnInv'
<1>1. HInv'
  BY UndoInv DEF TurnInv
<1>2. HInv /\ TypeOK /\ Undo /\ DOMAIN past = Standing
  BY DEF TurnInv, HInv, Chain, HUndo
<1>3. PICK i : /\ IsNewest(i) /\ UndoesStanding(i)
               /\ State' = past[i]
               /\ past' = Without(past, i)
  BY <1>2, UndoReturns
<1>4. /\ Standing' = Standing \ {i}
      /\ \A k \in Standing' : events'[k] = events[k]
      /\ \A k \in Standing : k \in Nat /\ (k # i => k < i)
      /\ i \in Standing
  BY <1>2, <1>3, UndoStands DEF IsNewest
<1>5. Agrees(events', Standing', State')
  <2>1. Standing' = Earlier(i)
    BY <1>4 DEF Earlier
  <2>2. Agrees(events, Earlier(i), past[i])
    BY <1>4 DEF TurnInv
  <2>3. Agrees(events', Earlier(i), past[i])
    BY <1>4, <2>1, <2>2, AgreesKept
  <2> QED
    BY <1>3, <2>1, <2>3
<1>6. ASSUME NEW k \in Standing'
      PROVE  Agrees(events', Earlier(k)', past'[k])
  <2>1. k \in Standing /\ Earlier(k)' = Earlier(k) /\ Earlier(k) \subseteq Standing'
    BY <1>4 DEF Earlier
  <2>2. past'[k] = past[k]
    BY <1>2, <1>3, <1>4 DEF Without
  <2>3. Agrees(events, Earlier(k), past[k])
    BY <2>1 DEF TurnInv
  <2>4. Agrees(events', Earlier(k), past[k])
    BY <1>4, <2>1, <2>3, AgreesKept
  <2> QED
    BY <2>1, <2>2, <2>4
<1> QED
  BY <1>1, <1>5, <1>6 DEF TurnInv

LEMMA StutterTurnInv ==
  ASSUME TurnInv, UNCHANGED <<vars, past>>
  PROVE  TurnInv'
<1>1. HInv'
  BY StutterInv DEF TurnInv
<1>2. events' = events /\ past' = past
  BY DEF vars
<1>3. Standing' = Standing /\ State' = State
  BY DEF vars, Standing, State
<1>4. \A i : Earlier(i)' = Earlier(i)
  BY <1>3 DEF Earlier
<1> QED
  BY <1>1, <1>2, <1>3, <1>4 DEF TurnInv

LEMMA TurnInvariant == HSpec => []TurnInv
<1>1. HInit => TurnInv
  BY InitAgrees
<1>2. TurnInv /\ [HNext]_<<vars, past>> => TurnInv'
  BY PlayTurnInv, UndoTurnInv, StutterTurnInv DEF HNext
<1> QED
  BY <1>1, <1>2, PTL DEF HSpec

-----------------------------------------------------------------------------
(* The clock is a phase per standing advance, however many were undone. *)
THEOREM ClockIsTheLog == HSpec => []ClockCountsAdvances
<1>1. TurnInv => ClockCountsAdvances
  BY DEF TurnInv, Agrees, Steps, Clock, State, ClockCountsAdvances
<1> QED
  BY <1>1, TurnInvariant, PTL

(* An operative acts once in a turning point, and its row's stamp is the   *)
(* turning point of its last activation that stands.                       *)
THEOREM OneActivationATurn == HSpec => []ActivatesOncePerTurn
<1>1. ASSUME TurnInv, NEW id \in DOMAIN operatives
      PROVE  /\ \A i, j \in Activations(id) :
                  i # j => events[i].turning_point # events[j].turning_point
             /\ operatives[id].activated_in =
                  IF Activations(id) = {} THEN None
                  ELSE events[Highest(Activations(id))].turning_point
  <2>1. PICK acts : acts = Activations(id)
    OBVIOUS
  <2>2. StampAgrees(acts, events, game.turning_point, operatives[id].activated_in)
    <3>1. Acts(events, Standing, id) = acts
      BY <2>1 DEF Acts, Activated, Activations
    <3> QED
      BY <1>1, <3>1 DEF TurnInv, Agrees, State
  <2>3. /\ acts \subseteq Nat /\ IsFiniteSet(acts)
        /\ \A k \in acts : events[k].turning_point \in Nat
    <3>1. TypeOK /\ acts \subseteq Standing
      BY <1>1, <2>1 DEF TurnInv, HInv, Activations
    <3> QED
      BY <3>1, StandingTyped, FS_Subset
  <2>4. ASSUME NEW i \in acts, NEW j \in acts, i # j
        PROVE  events[i].turning_point # events[j].turning_point
    <3>1. i < j \/ j < i
      BY <2>3, <2>4
    <3> QED
      BY <2>2, <2>3, <3>1 DEF StampAgrees
  <2>5. acts # {} => operatives[id].activated_in = events[Highest(acts)].turning_point
    BY <2>2, <2>3, HighestIsMaximum DEF StampAgrees
  <2> QED
    BY <2>1, <2>2, <2>4, <2>5 DEF StampAgrees
<1>2. TurnInv => ActivatesOncePerTurn
  BY <1>1 DEF ActivatesOncePerTurn
<1> QED
  BY <1>2, TurnInvariant, PTL

=============================================================================
