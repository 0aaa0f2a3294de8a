---------------------------- MODULE KTGameProofs ----------------------------
(***************************************************************************)
(* TypeOK of KTGame, for every team, roster, catalog and length of the     *)
(* game.  TypeOK is inductive as it stands: that undo restores what its    *)
(* event recorded keeps the types because every event names a row of the   *)
(* table its type writes, and the two tables never share an id.            *)
(***************************************************************************)
EXTENDS KTGame, FiniteSetTheorems, TLAPS

-----------------------------------------------------------------------------
(* Rows and parts of rows *)

LEMMA SetKeepsRow ==
  ASSUME NEW row, NEW part, NEW columns, IsRow(row, columns), IsPart(part, columns)
  PROVE  IsRow(Set(row, part), columns)
BY DEF IsRow, IsPart, Set

LEMMA BeforeIsPart ==
  ASSUME NEW row, NEW part, NEW columns, IsRow(row, columns), IsPart(part, columns)
  PROVE  IsPart(Before(row, part), columns)
BY DEF IsRow, IsPart, Before

LEMMA RevealedIsPart == IsPart([revealed |-> TRUE], EquipmentColumns)
<1>1. DOMAIN [revealed |-> TRUE] = {"revealed"}
  OBVIOUS
<1>2. DOMAIN EquipmentColumns = {"piece", "revealed", "position"}
  BY DEF EquipmentColumns
<1>3. [revealed |-> TRUE]["revealed"] \in EquipmentColumns["revealed"]
  <2>1. EquipmentColumns["revealed"] = BOOLEAN
    BY DEF EquipmentColumns
  <2> QED
    BY <2>1, Zenon
<1> QED
  BY <1>1, <1>2, <1>3 DEF IsPart

LEMMA TakenIsRow ==
  ASSUME NEW k \in TeamKit, NEW p \in Nat
  PROVE  IsRow([piece |-> k, revealed |-> FALSE, position |-> p], EquipmentColumns)
<1> DEFINE row == [piece |-> k, revealed |-> FALSE, position |-> p]
<1>1. row["piece"] = k /\ row["position"] = p
  OBVIOUS
<1>2. EquipmentColumns["piece"] = TeamKit /\ EquipmentColumns["position"] = Nat
  BY DEF EquipmentColumns
<1>3. /\ DOMAIN EquipmentColumns = {"piece", "revealed", "position"}
      /\ DOMAIN row = {"piece", "revealed", "position"}
  BY DEF EquipmentColumns
<1>4. row["revealed"] \in EquipmentColumns["revealed"]
  <2>1. row["revealed"] = FALSE
    OBVIOUS
  <2>2. EquipmentColumns["revealed"] = BOOLEAN
    BY DEF EquipmentColumns
  <2> QED
    BY <2>1, <2>2, Zenon
<1>5. IsRow(row, EquipmentColumns)
  <2> HIDE DEF row
  <2> QED
    BY <1>1, <1>2, <1>3, <1>4 DEF IsRow
<1> QED
  BY <1>5

(* Highest is the maximum of a finite set of naturals.  The element with   *)
(* the fewest others above it has none above it.                           *)
LEMMA HighestIsMaximum ==
  ASSUME NEW S, S \subseteq Nat, IsFiniteSet(S), S # {}
  PROVE  Highest(S) \in S /\ \A m \in S : m <= Highest(S)
<1> DEFINE Above(n) == {m \in S : m > n}
           Counts == {Cardinality(Above(n)) : n \in S}
<1>1. \A n \in S : IsFiniteSet(Above(n)) /\ Cardinality(Above(n)) \in Nat
  BY FS_Subset, FS_CardinalityType
<1>2. Counts \subseteq Nat /\ Counts # {}
  BY <1>1
<1>3. PICK least \in Counts : \A c \in Counts : least <= c
  <2>1. \E x \in Counts : \A y \in Counts : <<y, x>> \notin OpToRel(<, Nat)
    BY <1>2, NatLessThanWellFounded, WFMin
  <2>2. PICK x \in Counts : \A y \in Counts : <<y, x>> \notin OpToRel(<, Nat)
    BY <2>1
  <2>3. ASSUME NEW y \in Counts PROVE ~(y < x)
    <3>1. x \in Nat /\ y \in Nat
      BY <1>2
    <3> QED
      BY <2>2, <3>1 DEF OpToRel
  <2>4. \A y \in Counts : x \in Int /\ y \in Int
    BY <1>2
  <2> HIDE DEF Counts
  <2> QED
    BY <2>3, <2>4
<1>4. PICK n \in S : least = Cardinality(Above(n))
  OBVIOUS
<1>5. Above(n) = {}
  <2>1. SUFFICES ASSUME NEW m \in Above(n) PROVE FALSE
    OBVIOUS
  <2>2. m \in S /\ Above(m) \subseteq Above(n) /\ Above(m) # Above(n)
    <3>1. m \in S /\ m > n /\ m \in Nat /\ n \in Nat
      OBVIOUS
    <3>2. \A k \in Above(m) : k \in Nat /\ k \in S /\ k > m
      OBVIOUS
    <3>3. \A k \in Above(m) : k > n
      BY <3>1, <3>2
    <3>4. m \notin Above(m)
      BY <3>1
    <3> QED
      BY <3>1, <3>2, <3>3, <3>4
  <2>3. Cardinality(Above(m)) < Cardinality(Above(n))
    <3>1. IsFiniteSet(Above(m)) /\ IsFiniteSet(Above(n))
      BY <1>1, <2>2
    <3>2. Cardinality(Above(m)) \in Nat /\ Cardinality(Above(n)) \in Nat
      BY <1>1, <2>2
    <3>3. /\ Cardinality(Above(m)) <= Cardinality(Above(n))
          /\ Cardinality(Above(m)) # Cardinality(Above(n))
      BY <2>2, <3>1, FS_Subset
    <3> HIDE DEF Above
    <3> QED
      BY <3>2, <3>3
  <2>4. Cardinality(Above(m)) \in Counts
    BY <2>2
  <2>5. least <= Cardinality(Above(m))
    BY <1>3, <2>4
  <2> HIDE DEF Above, Counts
  <2> QED
    BY <1>1, <1>4, <2>2, <2>3, <2>5
<1>6. \A m \in S : m <= n
  BY <1>5
<1> QED
  BY <1>6 DEF Highest

-----------------------------------------------------------------------------
(* The log *)

(* The next sequence is one past the last, and the version always agrees.  *)
LEMMA NextSequenceIsVersion ==
  ASSUME TypeOK
  PROVE  NextSequence = version
<1>1. version \in Nat \ {0} /\ DOMAIN events = 1..(version - 1)
  BY DEF TypeOK
<1>2. CASE version = 1
  BY <1>1, <1>2 DEF NextSequence
<1>3. CASE version # 1
  <2>1. DOMAIN events \subseteq Nat /\ version - 1 \in DOMAIN events
    BY <1>1, <1>3
  <2>2. IsFiniteSet(DOMAIN events)
    BY <1>1, FS_Interval
  <2>3. Highest(DOMAIN events) = version - 1
    <3>1. /\ Highest(DOMAIN events) \in DOMAIN events
          /\ \A m \in DOMAIN events : m <= Highest(DOMAIN events)
      BY <2>1, <2>2, HighestIsMaximum
    <3> QED
      BY <1>1, <2>1, <3>1
  <2> QED
    BY <1>1, <2>1, <2>3 DEF NextSequence
<1> QED
  BY <1>2, <1>3

(* Row ids are naturals, and no operative shares its id with a piece of    *)
(* equipment: the event that created the row says which table it is in.    *)
LEMMA IdsAreDisjoint ==
  ASSUME TypeOK, NEW id
  PROVE  /\ IsOperativeId(id) => id \in 1..(Len(Roster) + version - 1)
         /\ IsEquipmentId(id) => id \in 1..(Len(Roster) + version - 1)
         /\ ~(IsOperativeId(id) /\ IsEquipmentId(id))
<1>1. Len(Roster) \in Nat
  BY CardAssumption
<1>2. version \in Nat \ {0} /\ DOMAIN events = 1..(version - 1)
  BY DEF TypeOK
<1> QED
  BY <1>1, <1>2 DEF IsOperativeId, IsEquipmentId

(* What a step does to the log, whatever it writes: the old events keep    *)
(* everything but undone_by, and one is added.                             *)
Extends(e) ==
  /\ version' = version + 1
  /\ DOMAIN events' = DOMAIN events \cup {NextSequence}
  /\ events'[NextSequence] = e
  /\ \A i \in DOMAIN events :
       \/ events'[i] = events[i]
       \/ events'[i] = Set(events[i], [undone_by |-> NextSequence])

LEMMA KeptEvent ==
  ASSUME TypeOK, NEW e, Extends(e), NEW i \in DOMAIN events
  PROVE  /\ DOMAIN events'[i] = DOMAIN events[i]
         /\ events'[i].undone_by \in Nat \cup {None}
         /\ \A f \in DOMAIN events[i] \ {"undone_by"} : events'[i][f] = events[i][f]
<1>1. version \in Nat /\ NextSequence = version
  BY NextSequenceIsVersion DEF TypeOK
<1>2. IsEvent(events[i])
  BY DEF TypeOK
<1>3. CASE events'[i] = events[i]
  BY <1>2, <1>3 DEF IsEvent
<1>4. CASE events'[i] = Set(events[i], [undone_by |-> NextSequence])
  BY <1>1, <1>2, <1>4 DEF IsEvent, Set
<1> QED
  BY <1>3, <1>4 DEF Extends

LEMMA IdsAreKept ==
  ASSUME TypeOK, NEW e, Extends(e), NEW id
  PROVE  /\ IsOperativeId(id) => IsOperativeId(id)'
         /\ IsEquipmentId(id) => IsEquipmentId(id)'
<1>1. \A i \in DOMAIN events : events'[i].type = events[i].type
  BY KeptEvent DEF TypeOK, IsEvent
<1>2. DOMAIN events \subseteq DOMAIN events'
  BY DEF Extends
<1> QED
  BY <1>1, <1>2 DEF IsOperativeId, IsEquipmentId

(* So the log is well typed after a step if the event it adds is.          *)
LEMMA LogIsTyped ==
  ASSUME TypeOK, NEW e, Extends(e), IsEvent(e)'
  PROVE  /\ (version \in Nat \ {0})'
         /\ (DOMAIN events = 1..(version - 1))'
         /\ (\A i \in DOMAIN events : IsEvent(events[i]))'
<1>1. /\ version \in Nat \ {0}
      /\ NextSequence = version
      /\ DOMAIN events = 1..(version - 1)
  BY NextSequenceIsVersion DEF TypeOK
<1>2. ASSUME NEW i \in DOMAIN events PROVE IsEvent(events[i])'
  <2>1. IsEvent(events[i])
    BY DEF TypeOK
  <2>2. /\ DOMAIN events'[i] = DOMAIN events[i]
        /\ events'[i].undone_by \in Nat \cup {None}
        /\ \A f \in DOMAIN events[i] \ {"undone_by"} : events'[i][f] = events[i][f]
    BY KeptEvent
  <2>3. /\ events'[i].type = events[i].type
        /\ events'[i].op = events[i].op
        /\ events'[i].target = events[i].target
        /\ events'[i].before = events[i].before
        /\ events'[i].turning_point = events[i].turning_point
    BY <2>1, <2>2 DEF IsEvent
  <2>4. /\ IsOperativeId(events[i].target) => IsOperativeId(events[i].target)'
        /\ IsEquipmentId(events[i].target) => IsEquipmentId(events[i].target)'
    <3> DEFINE t == events[i].target
    <3>1. ASSUME NEW id PROVE /\ IsOperativeId(id) => IsOperativeId(id)'
                              /\ IsEquipmentId(id) => IsEquipmentId(id)'
      BY IdsAreKept
    <3> QED
      BY <3>1, <2>3
  <2>5. DOMAIN events \subseteq DOMAIN events'
    BY DEF Extends
  <2> QED
    BY <2>1, <2>2, <2>3, <2>4, <2>5 DEF IsEvent
<1> QED
  BY <1>1, <1>2 DEF Extends

-----------------------------------------------------------------------------
(* The four ways a step writes *)

LEMMA WriteExtends ==
  ASSUME TypeOK, NEW type, NEW op, NEW target, NEW before,
         Write(type, op, target, before)
  PROVE  Extends([type |-> type, op |-> op, target |-> target, before |-> before,
                  turning_point |-> game'.turning_point, undone_by |-> None])
<1>1. NextSequence = version /\ version \notin DOMAIN events
  BY NextSequenceIsVersion DEF TypeOK
<1> QED
  BY <1>1 DEF Write, With, Extends

LEMMA GameWriteTyped ==
  ASSUME TypeOK, NEW type \in {"game_updated", "ploy_used", "advanced"},
         NEW changes, IsPart(changes, GameColumns), WriteGame(type, changes)
  PROVE  TypeOK'
<1>1. IsRow(game, GameColumns) /\ IsRow(game', GameColumns)
  BY SetKeepsRow DEF TypeOK, WriteGame
<1>2. PICK before : before = Before(game, changes)
  OBVIOUS
<1>3. IsPart(before, GameColumns)
  BY <1>1, <1>2, BeforeIsPart
<1>4. PICK e : e = [type |-> type, op |-> "fields", target |-> None, before |-> before,
                    turning_point |-> game'.turning_point, undone_by |-> None]
  OBVIOUS
<1>5. Extends(e)
  BY <1>2, <1>4, WriteExtends DEF WriteGame
<1>6. game'.turning_point \in TurningPoints
  BY <1>1 DEF IsRow, GameColumns
<1>7. IsEvent(e)'
  BY <1>3, <1>4, <1>6 DEF IsEvent
<1>8. \A id : /\ IsOperativeId(id) => IsOperativeId(id)'
              /\ IsEquipmentId(id) => IsEquipmentId(id)'
  BY <1>5, IdsAreKept
<1> QED
  BY <1>1, <1>5, <1>7, <1>8, LogIsTyped DEF TypeOK, WriteGame

LEMMA OperativeWriteTyped ==
  ASSUME TypeOK, NEW type \in OperativeWrites, NEW id \in DOMAIN operatives,
         NEW changes, IsPart(changes, OperativeColumns),
         WriteOperative(type, id, changes)
  PROVE  TypeOK'
<1>1. /\ IsRow(operatives[id], OperativeColumns)
      /\ IsRow(Set(operatives[id], changes), OperativeColumns)
  BY SetKeepsRow DEF TypeOK
<1>2. PICK before : before = Before(operatives[id], changes)
  OBVIOUS
<1>3. IsPart(before, OperativeColumns)
  BY <1>1, <1>2, BeforeIsPart
<1>4. PICK e : e = [type |-> type, op |-> "fields", target |-> id, before |-> before,
                    turning_point |-> game'.turning_point, undone_by |-> None]
  OBVIOUS
<1>5. Extends(e)
  BY <1>2, <1>4, WriteExtends DEF WriteOperative
<1>6. game' = game /\ game.turning_point \in TurningPoints
  BY DEF TypeOK, IsRow, GameColumns, WriteOperative
<1>7. \A x : /\ IsOperativeId(x) => IsOperativeId(x)'
             /\ IsEquipmentId(x) => IsEquipmentId(x)'
  BY <1>5, IdsAreKept
<1>8. IsOperativeId(id)'
  BY <1>7 DEF TypeOK
<1>9. IsEvent(e)'
  BY <1>3, <1>4, <1>6, <1>8 DEF IsEvent
<1>10. (\A x \in DOMAIN operatives :
          IsOperativeId(x) /\ IsRow(operatives[x], OperativeColumns))'
  BY <1>1, <1>7 DEF TypeOK, WriteOperative
<1> QED
  BY <1>5, <1>6, <1>7, <1>9, <1>10, LogIsTyped DEF TypeOK, WriteOperative

LEMMA RevealTyped ==
  ASSUME TypeOK, NEW id \in DOMAIN equipment,
         WriteEquipment("equipment_revealed", id, [revealed |-> TRUE])
  PROVE  TypeOK'
<1>1. IsPart([revealed |-> TRUE], EquipmentColumns)
  BY RevealedIsPart
<1>2. /\ IsRow(equipment[id], EquipmentColumns)
      /\ IsRow(Set(equipment[id], [revealed |-> TRUE]), EquipmentColumns)
  BY <1>1, SetKeepsRow DEF TypeOK
<1>3. PICK before : before = Before(equipment[id], [revealed |-> TRUE])
  OBVIOUS
<1>4. IsPart(before, EquipmentColumns)
  BY <1>1, <1>2, <1>3, BeforeIsPart
<1>5. PICK e : e = [type |-> "equipment_revealed", op |-> "fields", target |-> id,
                    before |-> before, turning_point |-> game'.turning_point,
                    undone_by |-> None]
  OBVIOUS
<1>6. Extends(e)
  BY <1>3, <1>5, WriteExtends DEF WriteEquipment
<1>7. game' = game /\ game.turning_point \in TurningPoints
  BY DEF TypeOK, IsRow, GameColumns, WriteEquipment
<1>8. \A x : /\ IsOperativeId(x) => IsOperativeId(x)'
             /\ IsEquipmentId(x) => IsEquipmentId(x)'
  BY <1>6, IdsAreKept
<1>9. IsEquipmentId(id)'
  BY <1>8 DEF TypeOK
<1>10. IsEvent(e)'
  BY <1>4, <1>5, <1>7, <1>9 DEF IsEvent
<1>11. (\A x \in DOMAIN equipment :
          IsEquipmentId(x) /\ IsRow(equipment[x], EquipmentColumns))'
  BY <1>2, <1>8 DEF TypeOK, WriteEquipment
<1> QED
  BY <1>6, <1>7, <1>8, <1>10, <1>11, LogIsTyped DEF TypeOK, WriteEquipment

LEMMA NextPositionTyped ==
  ASSUME NEW rows, IsFiniteSet(DOMAIN rows),
         \A x \in DOMAIN rows : rows[x].position \in Nat
  PROVE  NextPosition(rows) \in Nat
<1> DEFINE taken == {rows[x].position : x \in DOMAIN rows}
<1>1. CASE DOMAIN rows = {}
  BY <1>1 DEF NextPosition
<1>2. CASE DOMAIN rows # {}
  <2>1. taken \subseteq Nat /\ taken # {}
    BY <1>2
  <2>2. IsFiniteSet(taken)
    <3> DEFINE f == [x \in DOMAIN rows |-> rows[x].position]
    <3>1. f \in Surjection(DOMAIN rows, taken)
      BY DEF Surjection
    <3> HIDE DEF f
    <3> QED
      BY <3>1, FS_Surjection
  <2>3. Highest(taken) \in Nat
    BY <2>1, <2>2, HighestIsMaximum
  <2> QED
    BY <1>2, <2>3 DEF NextPosition
<1> QED
  BY <1>1, <1>2

LEMMA TablesAreFinite ==
  ASSUME TypeOK
  PROVE  IsFiniteSet(DOMAIN operatives) /\ IsFiniteSet(DOMAIN equipment)
<1> DEFINE ids == 1..(Len(Roster) + version - 1)
<1>1. Len(Roster) + version - 1 \in Int
  BY CardAssumption DEF TypeOK
<1>2. IsFiniteSet(ids)
  BY <1>1, FS_Interval
<1>3. DOMAIN operatives \subseteq ids /\ DOMAIN equipment \subseteq ids
  BY IdsAreDisjoint DEF TypeOK
<1> HIDE DEF ids
<1> QED
  BY <1>2, <1>3, FS_Subset

-----------------------------------------------------------------------------
(* The initial state *)

LEMMA NoPloyUsed == <<>> \in Seq(PloyEntries)
OBVIOUS

LEMMA InitTyped == Init => TypeOK
<1> SUFFICES ASSUME Init PROVE TypeOK
  OBVIOUS
<1>1. IsRow(game, GameColumns)
  <2>1. (CHOOSE n \in Notes : TRUE) \in Notes
    BY DocumentAssumption
  <2>2. 1 \in TurningPoints
    BY TurningPointAssumption DEF TurningPoints
  <2>3. PICK used \in Seq(PloyEntries) : used = <<>>
    BY NoPloyUsed
  <2>4. PICK note \in Notes : note = CHOOSE n \in Notes : TRUE
    BY <2>1
  <2>5. game = [status |-> "setup", turning_point |-> 1, phase |-> "strategy",
                initiative |-> None, command_points |-> 0, ploys_used |-> used,
                notes |-> note]
    BY <2>3, <2>4 DEF Init, NewGame
  <2> QED
    BY <2>2, <2>5 DEF IsRow, GameColumns, Statuses, Initiatives
<1>2. version = 1 /\ DOMAIN events = {} /\ DOMAIN equipment = {}
  BY DEF Init
<1>3. ASSUME NEW i \in DOMAIN operatives
      PROVE  IsOperativeId(i) /\ IsRow(operatives[i], OperativeColumns)
  <2>1. i \in 1..Len(Roster)
    BY DEF Init
  <2>2. /\ Roster[i].card \in TeamCards
        /\ Roster[i].position \in Nat
        /\ MaxWounds[Roster[i].card] \in Nat
        /\ Len(Roster) \in Nat
    <3>1. PICK S : S = [card : TeamCards, position : Nat]
      OBVIOUS
    <3>2. Roster \in Seq(S)
      BY <3>1, CardAssumption
    <3>3. Len(Roster) \in Nat /\ Roster[i] \in S
      BY <2>1, <3>2
    <3>4. TeamCards \subseteq Cards /\ MaxWounds \in [Cards -> Nat]
      BY CardAssumption
    <3> QED
      BY <3>1, <3>3, <3>4
  <2>3. (CHOOSE m \in Marks : TRUE) \in Marks
    BY DocumentAssumption
  <2>4. operatives[i] = NewOperative(Roster[i].card, Roster[i].position, None)
    BY <2>1 DEF Init
  <2> QED
    BY <2>1, <2>2, <2>3, <2>4
    DEF NewOperative, IsRow, OperativeColumns, IsOperativeId, OperativeStatuses
<1> QED
  BY <1>1, <1>2, <1>3 DEF TypeOK

-----------------------------------------------------------------------------
(* The writes a battle makes *)

LEMMA ListsOfPloys == PloyLists \subseteq Seq(PloyEntries)
<1> SUFFICES ASSUME NEW n \in 0..MaxRecorded, NEW used \in [1..n -> PloyEntries]
             PROVE  used \in Seq(PloyEntries)
  BY DEF PloyLists
<1>1. n \in Nat
  BY BoundAssumption
<1> QED
  BY <1>1

LEMMA UpdateGameTyped ==
  ASSUME TypeOK, UpdateGame PROVE TypeOK'
<1>1. PICK s \in Statuses, i \in Initiatives, cp \in 0..MaxCP,
           used \in PloyLists \cup {game.ploys_used}, n \in Notes :
        WriteGame("game_updated",
          [status |-> s, initiative |-> i, command_points |-> cp,
           ploys_used |-> used, notes |-> n])
  BY DEF UpdateGame
<1>2. cp \in Nat
  BY BoundAssumption
<1>3. used \in Seq(PloyEntries)
  <2>1. game.ploys_used \in Seq(PloyEntries)
    BY DEF TypeOK, IsRow, GameColumns
  <2> QED
    BY <2>1, ListsOfPloys
<1>4. IsPart([status |-> s, initiative |-> i, command_points |-> cp,
              ploys_used |-> used, notes |-> n], GameColumns)
  BY <1>2, <1>3 DEF IsPart, GameColumns
<1> QED
  BY <1>1, <1>4, GameWriteTyped

LEMMA UsePloyTyped ==
  ASSUME TypeOK, NEW p \in Ploys, UsePloy(p) PROVE TypeOK'
<1>1. /\ game.command_points \in Nat /\ game.ploys_used \in Seq(PloyEntries)
      /\ game.turning_point \in TurningPoints
  BY DEF TypeOK, IsRow, GameColumns
<1>2. game.command_points - Cost[p] \in Nat
  BY <1>1, PloyAssumption DEF UsePloy
<1>3. PICK entry : entry = [name |-> p, turning_point |-> game.turning_point]
  OBVIOUS
<1>4. PICK used : used = Append(game.ploys_used, entry)
  OBVIOUS
<1>5. entry \in PloyEntries
  BY <1>1, <1>3 DEF PloyEntries
<1>6. used \in Seq(PloyEntries)
  BY <1>1, <1>4, <1>5
<1>7. IsPart([command_points |-> game.command_points - Cost[p], ploys_used |-> used],
             GameColumns)
  BY <1>2, <1>6 DEF IsPart, GameColumns
<1>8. WriteGame("ploy_used",
        [command_points |-> game.command_points - Cost[p], ploys_used |-> used])
  BY <1>3, <1>4 DEF UsePloy
<1> QED
  BY <1>7, <1>8, GameWriteTyped

LEMMA AdvanceTyped ==
  ASSUME TypeOK, Advance PROVE TypeOK'
<1>1. game.status \in Statuses /\ game.turning_point \in TurningPoints
  BY DEF TypeOK, IsRow, GameColumns
<1>2. UnderWay \in Statuses
  BY <1>1 DEF UnderWay, Statuses
<1>3. IsPart(Moved, GameColumns)
  <2>1. CASE game.phase = "strategy"
    BY <1>2, <2>1 DEF Moved, IsPart, GameColumns
  <2>2. CASE game.phase # "strategy" /\ game.turning_point < LastTurningPoint
    <3>1. game.turning_point + 1 \in TurningPoints
      BY <1>1, <2>2, TurningPointAssumption DEF TurningPoints
    <3> QED
      BY <1>2, <2>2, <3>1 DEF Moved, IsPart, GameColumns, Initiatives
  <2>3. CASE game.phase # "strategy" /\ ~(game.turning_point < LastTurningPoint)
    BY <2>3 DEF Moved, IsPart, GameColumns, Statuses
  <2> QED
    BY <2>1, <2>2, <2>3
<1> QED
  BY <1>3, GameWriteTyped DEF Advance

LEMMA TransformTyped ==
  ASSUME TypeOK, NEW id \in DOMAIN operatives, NEW c \in Cards,
         TransformOperative(id, c)
  PROVE  TypeOK'
<1>1. c \in TeamCards /\ MaxWounds[c] \in Nat
  BY CardAssumption DEF TransformOperative
<1>2. operatives[id].current_wounds \in Nat
  BY DEF TypeOK, IsRow, OperativeColumns
<1>3. PICK capped \in Nat :
        WriteOperative("operative_transformed", id,
          [card |-> c, wounds |-> MaxWounds[c], current_wounds |-> capped])
  BY <1>1, <1>2 DEF TransformOperative, Snapshot
<1>4. IsPart([card |-> c, wounds |-> MaxWounds[c], current_wounds |-> capped],
             OperativeColumns)
  BY <1>1 DEF IsPart, OperativeColumns
<1> QED
  BY <1>3, <1>4, OperativeWriteTyped DEF OperativeWrites

LEMMA UpdateOperativeTyped ==
  ASSUME TypeOK, NEW id \in DOMAIN operatives, UpdateOperative(id)
  PROVE  TypeOK'
<1>1. PICK w \in WoundsAllowed(operatives[id]) \cup {None}, s \in OperativeStatuses \cup {None},
           m \in Marks :
        WriteOperative("operative_updated", id,
          [current_wounds |-> IF w = None THEN operatives[id].current_wounds ELSE w,
           status |-> StatusSet(operatives[id], w, s), marks |-> m])
  BY DEF UpdateOperative
<1>2. /\ operatives[id].current_wounds \in Nat
      /\ operatives[id].wounds \in Nat
      /\ operatives[id].status \in OperativeStatuses
  BY DEF TypeOK, IsRow, OperativeColumns
<1>3. PICK left : left = IF w = None THEN operatives[id].current_wounds ELSE w
  OBVIOUS
<1>4. left \in Nat
  BY <1>2, <1>3 DEF WoundsAllowed
<1>5. StatusSet(operatives[id], w, s) \in OperativeStatuses
  BY <1>2 DEF StatusSet, OperativeStatuses
<1>6. IsPart([current_wounds |-> left, status |-> StatusSet(operatives[id], w, s),
              marks |-> m], OperativeColumns)
  BY <1>4, <1>5 DEF IsPart, OperativeColumns
<1> QED
  BY <1>1, <1>3, <1>6, OperativeWriteTyped DEF OperativeWrites

LEMMA ActivateTyped ==
  ASSUME TypeOK, NEW id \in DOMAIN operatives, ActivateOperative(id)
  PROVE  TypeOK'
<1>1. game.turning_point \in TurningPoints
  BY DEF TypeOK, IsRow, GameColumns
<1>2. IsPart([activated_in |-> game.turning_point], OperativeColumns)
  BY <1>1 DEF IsPart, OperativeColumns
<1> QED
  BY <1>2, OperativeWriteTyped DEF ActivateOperative, OperativeWrites

-----------------------------------------------------------------------------
(* The writes that create or delete a row *)

LEMMA AddOperativeTyped ==
  ASSUME TypeOK, NEW c \in Cards, AddOperative(c)
  PROVE  TypeOK'
<1>1. c \in TeamCards /\ MaxWounds[c] \in Nat
  BY CardAssumption DEF AddOperative
<1>2. game' = game /\ game.turning_point \in TurningPoints
  BY DEF TypeOK, IsRow, GameColumns, AddOperative
<1>3. NextPosition(operatives) \in Nat
  BY NextPositionTyped, TablesAreFinite DEF TypeOK, IsRow, OperativeColumns
<1>4. PICK row : row = NewOperative(c, NextPosition(operatives), game.turning_point)
  OBVIOUS
<1>5. IsRow(row, OperativeColumns)
  <2>1. (CHOOSE m \in Marks : TRUE) \in Marks
    BY DocumentAssumption
  <2> QED
    BY <1>1, <1>2, <1>3, <1>4, <2>1
    DEF NewOperative, IsRow, OperativeColumns, OperativeStatuses
<1>6. PICK e : e = [type |-> "operative_added", op |-> "created", target |-> NewId,
                    before |-> <<>>, turning_point |-> game'.turning_point,
                    undone_by |-> None]
  OBVIOUS
<1>7. Extends(e)
  BY <1>6, WriteExtends DEF AddOperative
<1>8. \A x : /\ IsOperativeId(x) => IsOperativeId(x)'
             /\ IsEquipmentId(x) => IsEquipmentId(x)'
  BY <1>7, IdsAreKept
<1>9. PICK id : id = NewId
  OBVIOUS
<1>10. IsOperativeId(id)'
  BY <1>6, <1>7, <1>9 DEF IsOperativeId, Extends, NewId
<1>11. IsEvent(e)'
  BY <1>2, <1>6, <1>9, <1>10 DEF IsEvent
<1>12. (\A x \in DOMAIN operatives :
          IsOperativeId(x) /\ IsRow(operatives[x], OperativeColumns))'
  BY <1>4, <1>5, <1>8, <1>9, <1>10 DEF TypeOK, AddOperative, With
<1> QED
  BY <1>2, <1>7, <1>8, <1>11, <1>12, LogIsTyped DEF TypeOK, AddOperative

LEMMA AddEquipmentTyped ==
  ASSUME TypeOK, NEW k \in Kit, AddEquipment(k)
  PROVE  TypeOK'
<1>1. k \in TeamKit
  BY DEF AddEquipment
<1>2. game' = game /\ game.turning_point \in TurningPoints
  BY DEF TypeOK, IsRow, GameColumns, AddEquipment
<1>3. NextPosition(equipment) \in Nat
  BY NextPositionTyped, TablesAreFinite DEF TypeOK, IsRow, EquipmentColumns
<1>4. PICK row : row = [piece |-> k, revealed |-> FALSE, position |-> NextPosition(equipment)]
  OBVIOUS
<1>5. IsRow(row, EquipmentColumns)
  BY <1>1, <1>3, <1>4, TakenIsRow
<1>6. PICK e : e = [type |-> "equipment_added", op |-> "created", target |-> NewId,
                    before |-> <<>>, turning_point |-> game'.turning_point,
                    undone_by |-> None]
  OBVIOUS
<1>7. Extends(e)
  BY <1>6, WriteExtends DEF AddEquipment
<1>8. \A x : /\ IsOperativeId(x) => IsOperativeId(x)'
             /\ IsEquipmentId(x) => IsEquipmentId(x)'
  BY <1>7, IdsAreKept
<1>9. PICK id : id = NewId
  OBVIOUS
<1>10. IsEquipmentId(id)'
  BY <1>6, <1>7, <1>9 DEF IsEquipmentId, Extends, NewId
<1>11. IsEvent(e)'
  BY <1>2, <1>6, <1>9, <1>10 DEF IsEvent
<1>12. (\A x \in DOMAIN equipment :
          IsEquipmentId(x) /\ IsRow(equipment[x], EquipmentColumns))'
  BY <1>4, <1>5, <1>8, <1>9, <1>10 DEF TypeOK, AddEquipment, With
<1> QED
  BY <1>2, <1>7, <1>8, <1>11, <1>12, LogIsTyped DEF TypeOK, AddEquipment

LEMMA RemoveEquipmentTyped ==
  ASSUME TypeOK, NEW id \in DOMAIN equipment, RemoveEquipment(id)
  PROVE  TypeOK'
<1>1. game' = game /\ game.turning_point \in TurningPoints
  BY DEF TypeOK, IsRow, GameColumns, RemoveEquipment
<1>2. PICK row : row = equipment[id]
  OBVIOUS
<1>3. PICK e : e = [type |-> "equipment_removed", op |-> "deleted", target |-> id,
                    before |-> row, turning_point |-> game'.turning_point,
                    undone_by |-> None]
  OBVIOUS
<1>4. Extends(e)
  BY <1>2, <1>3, WriteExtends DEF RemoveEquipment
<1>5. \A x : /\ IsOperativeId(x) => IsOperativeId(x)'
             /\ IsEquipmentId(x) => IsEquipmentId(x)'
  BY <1>4, IdsAreKept
<1>6. IsEquipmentId(id)' /\ IsRow(row, EquipmentColumns)
  BY <1>2, <1>5 DEF TypeOK
<1>7. IsEvent(e)'
  BY <1>1, <1>3, <1>6 DEF IsEvent
<1> QED
  BY <1>1, <1>4, <1>5, <1>7, LogIsTyped DEF TypeOK, RemoveEquipment, Without

-----------------------------------------------------------------------------
(* Undo *)

(* Reverting an event puts back columns of the table the event wrote.      *)
LEMMA RevertKeepsRows ==
  ASSUME TypeOK, NEW i \in DOMAIN events, events[i].type # "undone",
         CanRevert(State, events[i]),
         NEW s, s = Revert(State, events[i])
  PROVE  /\ IsRow(s.game, GameColumns)
         /\ \A id \in DOMAIN s.operatives :
              IsOperativeId(id) /\ IsRow(s.operatives[id], OperativeColumns)
         /\ \A id \in DOMAIN s.equipment :
              IsEquipmentId(id) /\ IsRow(s.equipment[id], EquipmentColumns)
<1>1. PICK e : e = events[i]
  OBVIOUS
<1>2. IsEvent(e) /\ e.type # "undone"
  BY <1>1 DEF TypeOK
<1>3. /\ IsRow(game, GameColumns)
      /\ \A id \in DOMAIN operatives :
           IsOperativeId(id) /\ IsRow(operatives[id], OperativeColumns)
      /\ \A id \in DOMAIN equipment :
           IsEquipmentId(id) /\ IsRow(equipment[id], EquipmentColumns)
  BY DEF TypeOK
<1>4. \A id : /\ ~(IsOperativeId(id) /\ IsEquipmentId(id))
              /\ IsOperativeId(id) \/ IsEquipmentId(id) => id # None
  <2>1. SUFFICES ASSUME NEW id
                 PROVE  /\ ~(IsOperativeId(id) /\ IsEquipmentId(id))
                        /\ IsOperativeId(id) \/ IsEquipmentId(id) => id # None
    OBVIOUS
  <2>2. Len(Roster) + version - 1 \in Int
    BY CardAssumption DEF TypeOK
  <2> QED
    BY <2>2, IdsAreDisjoint, NoneAssumption
<1>5. PICK g, o, q :
        /\ g = s.game /\ o = s.operatives /\ q = s.equipment
        /\ g = IF e.op = "fields" /\ e.target = None THEN Set(game, e.before)
               ELSE game
        /\ o = CASE e.op = "fields" /\ e.target \in DOMAIN operatives ->
                      With(operatives, e.target, Set(operatives[e.target], e.before))
                 [] e.op = "created" /\ e.target \in DOMAIN operatives ->
                      Without(operatives, e.target)
                 [] OTHER -> operatives
        /\ q = CASE e.op = "fields" /\ e.target # None
                     /\ ~(e.target \in DOMAIN operatives) ->
                      With(equipment, e.target, Set(equipment[e.target], e.before))
                 [] e.op = "created" /\ ~(e.target \in DOMAIN operatives) ->
                      Without(equipment, e.target)
                 [] e.op = "deleted" -> With(equipment, e.target, e.before)
                 [] OTHER -> equipment
  BY <1>1 DEF Revert, State
<1>6. e.op = "fields" => \/ e.target = None
                         \/ e.target \in DOMAIN operatives \cup DOMAIN equipment
  BY <1>1 DEF CanRevert, State
<1>7. /\ IsRow(g, GameColumns)
      /\ \A id \in DOMAIN o : IsOperativeId(id) /\ IsRow(o[id], OperativeColumns)
      /\ \A id \in DOMAIN q : IsEquipmentId(id) /\ IsRow(q[id], EquipmentColumns)
  <2>1. CASE /\ e.op = "fields" /\ e.target = None
             /\ IsPart(e.before, GameColumns)
    <3>1. g = Set(game, e.before) /\ o = operatives /\ q = equipment
      BY <1>3, <1>4, <1>5, <2>1
    <3> QED
      BY <1>3, <2>1, <3>1, SetKeepsRow
  <2>2. CASE /\ e.op = "fields" /\ IsOperativeId(e.target)
             /\ IsPart(e.before, OperativeColumns)
    <3>1. e.target # None /\ e.target \in DOMAIN operatives
      BY <1>3, <1>4, <1>6, <2>2
    <3>2. /\ g = game /\ q = equipment
          /\ o = With(operatives, e.target, Set(operatives[e.target], e.before))
      BY <1>5, <2>2, <3>1
    <3>3. IsRow(Set(operatives[e.target], e.before), OperativeColumns)
      BY <1>3, <2>2, <3>1, SetKeepsRow
    <3> QED
      BY <1>3, <2>2, <3>2, <3>3 DEF With
  <2>3. CASE /\ e.op = "fields" /\ IsEquipmentId(e.target)
             /\ IsPart(e.before, EquipmentColumns)
    <3>1. /\ e.target # None /\ e.target \in DOMAIN equipment
          /\ e.target \notin DOMAIN operatives
      BY <1>3, <1>4, <1>6, <2>3
    <3>2. /\ g = game /\ o = operatives
          /\ q = With(equipment, e.target, Set(equipment[e.target], e.before))
      BY <1>5, <2>3, <3>1
    <3>3. IsRow(Set(equipment[e.target], e.before), EquipmentColumns)
      BY <1>3, <2>3, <3>1, SetKeepsRow
    <3> QED
      BY <1>3, <2>3, <3>2, <3>3 DEF With
  <2>4. CASE e.op = "created"
    <3>1. /\ g = game
          /\ o = operatives \/ o = Without(operatives, e.target)
          /\ q = equipment \/ q = Without(equipment, e.target)
      BY <1>5, <2>4
    <3> QED
      BY <1>3, <3>1 DEF Without
  <2>5. CASE /\ e.op = "deleted" /\ IsEquipmentId(e.target)
             /\ IsRow(e.before, EquipmentColumns)
    <3>1. /\ g = game /\ o = operatives
          /\ q = With(equipment, e.target, e.before)
      BY <1>5, <2>5
    <3> QED
      BY <1>3, <2>5, <3>1 DEF With
  <2> QED
    BY <1>2, <2>1, <2>2, <2>3, <2>4, <2>5 DEF IsEvent
<1> QED
  BY <1>5, <1>7

LEMMA UndoTyped ==
  ASSUME TypeOK, Undo
  PROVE  TypeOK'
<1>1. PICK i \in DOMAIN events :
        /\ IsNewest(i)
        /\ CanRevert(State, events[i])
        /\ LET reverted == Revert(State, events[i]) IN
             /\ game' = reverted.game
             /\ operatives' = reverted.operatives
             /\ equipment' = reverted.equipment
        /\ events' = With(Compensated(i), NextSequence,
             [type |-> "undone", op |-> "undo", target |-> i, before |-> <<>>,
              turning_point |-> game'.turning_point, undone_by |-> None])
        /\ version' = version + 1
  BY DEF Undo
<1>2. PICK e : e = [type |-> "undone", op |-> "undo", target |-> i, before |-> <<>>,
                    turning_point |-> game'.turning_point, undone_by |-> None]
  OBVIOUS
<1>3. NextSequence = version /\ version \notin DOMAIN events
  BY NextSequenceIsVersion DEF TypeOK
<1>4. Extends(e)
  <2>1. events' = With([events EXCEPT ![i] = Set(@, [undone_by |-> NextSequence])],
                       NextSequence, e)
    BY <1>1, <1>2 DEF Compensated
  <2> QED
    BY <1>1, <1>3, <2>1 DEF With, Extends
<1>5. events[i].type # "undone"
  BY <1>1 DEF IsNewest, Standing
<1>6. PICK s : s = Revert(State, events[i])
  OBVIOUS
<1>7. /\ IsRow(s.game, GameColumns)
      /\ \A id \in DOMAIN s.operatives :
           IsOperativeId(id) /\ IsRow(s.operatives[id], OperativeColumns)
      /\ \A id \in DOMAIN s.equipment :
           IsEquipmentId(id) /\ IsRow(s.equipment[id], EquipmentColumns)
  BY <1>1, <1>5, <1>6, RevertKeepsRows
<1>8. game' = s.game /\ operatives' = s.operatives /\ equipment' = s.equipment
  BY <1>1, <1>6
<1>9. \A x : /\ IsOperativeId(x) => IsOperativeId(x)'
             /\ IsEquipmentId(x) => IsEquipmentId(x)'
  BY <1>4, IdsAreKept
<1>10. game'.turning_point \in TurningPoints
  BY <1>7, <1>8 DEF IsRow, GameColumns
<1>11. IsEvent(e)'
  BY <1>2, <1>4, <1>10 DEF IsEvent, Extends
<1> QED
  BY <1>4, <1>7, <1>8, <1>9, <1>11, LogIsTyped DEF TypeOK

-----------------------------------------------------------------------------
(* Every step, and the theorem *)

LEMMA NextTyped ==
  ASSUME TypeOK, [Next]_vars
  PROVE  TypeOK'
<1>1. CASE UpdateGame
  BY <1>1, UpdateGameTyped
<1>2. ASSUME NEW p \in Ploys, UsePloy(p) PROVE TypeOK'
  BY <1>2, UsePloyTyped
<1>3. CASE Advance
  BY <1>3, AdvanceTyped
<1>4. ASSUME NEW c \in Cards, AddOperative(c) PROVE TypeOK'
  BY <1>4, AddOperativeTyped
<1>5. ASSUME NEW id \in DOMAIN operatives, NEW c \in Cards, TransformOperative(id, c)
      PROVE  TypeOK'
  BY <1>5, TransformTyped
<1>6. ASSUME NEW id \in DOMAIN operatives, UpdateOperative(id) PROVE TypeOK'
  BY <1>6, UpdateOperativeTyped
<1>7. ASSUME NEW id \in DOMAIN operatives, ActivateOperative(id) PROVE TypeOK'
  BY <1>7, ActivateTyped
<1>8. ASSUME NEW k \in Kit, AddEquipment(k) PROVE TypeOK'
  BY <1>8, AddEquipmentTyped
<1>9. ASSUME NEW id \in DOMAIN equipment, RevealEquipment(id) PROVE TypeOK'
  BY <1>9, RevealTyped DEF RevealEquipment
<1>10. ASSUME NEW id \in DOMAIN equipment, RemoveEquipment(id) PROVE TypeOK'
  BY <1>10, RemoveEquipmentTyped
<1>11. CASE Undo
  BY <1>11, UndoTyped
<1>12. CASE UNCHANGED vars
  <2>1. /\ game' = game /\ version' = version /\ operatives' = operatives
        /\ equipment' = equipment /\ events' = events
    BY <1>12 DEF vars
  <2>2. \A id : /\ IsOperativeId(id)' = IsOperativeId(id)
               /\ IsEquipmentId(id)' = IsEquipmentId(id)
    BY <2>1 DEF IsOperativeId, IsEquipmentId
  <2>3. \A e : IsEvent(e) => IsEvent(e)'
    BY <2>1, <2>2 DEF IsEvent
  <2> QED
    BY <2>1, <2>2, <2>3 DEF TypeOK
<1> QED
  BY <1>1, <1>2, <1>3, <1>4, <1>5, <1>6, <1>7, <1>8, <1>9, <1>10, <1>11, <1>12
  DEF Next, Play

(* The columns, the references between rows and log, and the count of the  *)
(* log are right in every game: KTGameService never writes a value a table *)
(* would refuse, nor an event undo could not read.                         *)
THEOREM TypeCorrect == Spec => []TypeOK
<1>1. Init => TypeOK
  BY InitTyped
<1>2. TypeOK /\ [Next]_vars => TypeOK'
  BY NextTyped
<1> QED
  BY <1>1, <1>2, PTL DEF Spec

-----------------------------------------------------------------------------
(* What a step does to the log: an event is appended, and only undo        *)
(* touches another                                                         *)

Appends(e) ==
  /\ version' = version + 1
  /\ DOMAIN events' = DOMAIN events \cup {NextSequence}
  /\ events'[NextSequence] = e
  /\ \A i \in DOMAIN events : events'[i] = events[i]

LEMMA WriteAppends ==
  ASSUME TypeOK, NEW type, NEW op, NEW target, NEW before,
         Write(type, op, target, before)
  PROVE  Appends([type |-> type, op |-> op, target |-> target, before |-> before,
                  turning_point |-> game'.turning_point, undone_by |-> None])
<1>1. NextSequence = version /\ version \notin DOMAIN events
  BY NextSequenceIsVersion DEF TypeOK
<1> QED
  BY <1>1 DEF Write, With, Appends

AppendsStanding == \E e : Appends(e) /\ e.type # "undone" /\ e.undone_by = None

LEMMA WriteAppendsStanding ==
  ASSUME TypeOK, NEW type, NEW op, NEW target, NEW before,
         Write(type, op, target, before), type # "undone"
  PROVE  AppendsStanding
<1>1. PICK e : e = [type |-> type, op |-> op, target |-> target, before |-> before,
                    turning_point |-> game'.turning_point, undone_by |-> None]
  OBVIOUS
<1>2. Appends(e)
  BY <1>1, WriteAppends
<1>3. e.type = type /\ e.undone_by = None
  BY <1>1
<1> QED
  BY <1>2, <1>3 DEF AppendsStanding

LEMMA PlayAppends ==
  ASSUME TypeOK, Play
  PROVE  AppendsStanding
<1>1. CASE UpdateGame
  BY <1>1, WriteAppendsStanding DEF UpdateGame, WriteGame
<1>2. ASSUME NEW p \in Ploys, UsePloy(p) PROVE AppendsStanding
  BY <1>2, WriteAppendsStanding DEF UsePloy, WriteGame
<1>3. CASE Advance
  BY <1>3, WriteAppendsStanding DEF Advance, WriteGame
<1>4. ASSUME NEW c \in Cards, AddOperative(c) PROVE AppendsStanding
  BY <1>4, WriteAppendsStanding DEF AddOperative
<1>5. ASSUME NEW id \in DOMAIN operatives, NEW c \in Cards, TransformOperative(id, c)
      PROVE  AppendsStanding
  BY <1>5, WriteAppendsStanding DEF TransformOperative, WriteOperative
<1>6. ASSUME NEW id \in DOMAIN operatives, UpdateOperative(id) PROVE AppendsStanding
  BY <1>6, WriteAppendsStanding DEF UpdateOperative, WriteOperative
<1>7. ASSUME NEW id \in DOMAIN operatives, ActivateOperative(id) PROVE AppendsStanding
  BY <1>7, WriteAppendsStanding DEF ActivateOperative, WriteOperative
<1>8. ASSUME NEW k \in Kit, AddEquipment(k) PROVE AppendsStanding
  BY <1>8, WriteAppendsStanding DEF AddEquipment
<1>9. ASSUME NEW id \in DOMAIN equipment, RevealEquipment(id) PROVE AppendsStanding
  BY <1>9, WriteAppendsStanding DEF RevealEquipment, WriteEquipment
<1>10. ASSUME NEW id \in DOMAIN equipment, RemoveEquipment(id) PROVE AppendsStanding
  BY <1>10, WriteAppendsStanding DEF RemoveEquipment
<1> QED
  BY <1>1, <1>2, <1>3, <1>4, <1>5, <1>6, <1>7, <1>8, <1>9, <1>10 DEF Play

(* Undo marks the newest standing event and appends one that names it.     *)
UndoesStanding(i) ==
  /\ i \in DOMAIN events
  /\ events[i].type # "undone"
  /\ events[i].undone_by = None
  /\ version' = version + 1
  /\ DOMAIN events' = DOMAIN events \cup {NextSequence}
  /\ events'[NextSequence].type = "undone"
  /\ events'[NextSequence].target = i
  /\ events'[NextSequence].undone_by = None
  /\ events'[i] = [events[i] EXCEPT !.undone_by = NextSequence]
  /\ \A j \in DOMAIN events \ {i} : events'[j] = events[j]

LEMMA UndoMarks ==
  ASSUME TypeOK, Undo
  PROVE  \E i : IsNewest(i) /\ UndoesStanding(i)
<1>1. PICK i \in DOMAIN events :
        /\ IsNewest(i)
        /\ events' = With(Compensated(i), NextSequence,
             [type |-> "undone", op |-> "undo", target |-> i, before |-> <<>>,
              turning_point |-> game'.turning_point, undone_by |-> None])
        /\ version' = version + 1
  BY DEF Undo
<1>2. NextSequence = version /\ version \notin DOMAIN events
  BY NextSequenceIsVersion DEF TypeOK
<1>3. PICK e : e = [type |-> "undone", op |-> "undo", target |-> i, before |-> <<>>,
                    turning_point |-> game'.turning_point, undone_by |-> None]
  OBVIOUS
<1>4. events[i].type # "undone" /\ events[i].undone_by = None
  BY <1>1 DEF IsNewest, Standing
<1>5. Set(events[i], [undone_by |-> NextSequence])
        = [events[i] EXCEPT !.undone_by = NextSequence]
  <2>1. DOMAIN events[i] = {"type", "op", "target", "before", "turning_point", "undone_by"}
    BY DEF TypeOK, IsEvent
  <2> QED
    BY <2>1 DEF Set
<1>6. PICK marked : marked = Set(events[i], [undone_by |-> NextSequence])
  OBVIOUS
<1>7. events' = With([events EXCEPT ![i] = marked], NextSequence, e)
  BY <1>1, <1>3, <1>6 DEF Compensated
<1>8. /\ DOMAIN events' = DOMAIN events \cup {NextSequence}
      /\ events'[NextSequence] = e
      /\ events'[i] = marked
      /\ \A j \in DOMAIN events \ {i} : events'[j] = events[j]
  BY <1>1, <1>2, <1>7 DEF With
<1>9. e.type = "undone" /\ e.target = i /\ e.undone_by = None
  BY <1>3
<1> QED
  BY <1>1, <1>4, <1>5, <1>6, <1>8, <1>9 DEF UndoesStanding

(* No write and no undo loses or rewrites anything the log held.           *)
THEOREM LogIsAppendOnly == Spec => LogOnlyGrows
<1>1. ASSUME TypeOK, [Next]_vars PROVE [LogGrows]_vars
  <2>1. CASE Play
    BY <1>1, <2>1, PlayAppends DEF AppendsStanding, Appends, LogGrows
  <2>2. CASE Undo
    BY <1>1, <2>2, UndoMarks DEF UndoesStanding, LogGrows
  <2>3. CASE UNCHANGED vars
    BY <2>3
  <2> QED
    BY <1>1, <2>1, <2>2, <2>3 DEF Next
<1> QED
  BY <1>1, TypeCorrect, PTL DEF Spec, LogOnlyGrows

(* An event that was undone and the one that undid it name each other: no  *)
(* event can be undone twice, in a game of any length.                     *)
LEMMA UndoNamesKept ==
  ASSUME TypeOK, UndoNamesItsEvent, [Next]_vars
  PROVE  UndoNamesItsEvent'
<1>1. NextSequence = version /\ version \in Nat /\ DOMAIN events = 1..(version - 1)
  BY NextSequenceIsVersion DEF TypeOK
<1>2. CASE Play
  <2>1. PICK e : Appends(e) /\ e.type # "undone" /\ e.undone_by = None
    BY <1>2, PlayAppends DEF AppendsStanding
  <2> QED
    BY <1>1, <2>1 DEF Appends, UndoNamesItsEvent
<1>3. CASE Undo
  <2>1. PICK i : UndoesStanding(i)
    BY <1>3, UndoMarks
  <2>2. /\ events'[i].type = events[i].type
        /\ events'[i].undone_by = NextSequence
    BY <2>1 DEF UndoesStanding, TypeOK, IsEvent
  <2>3. PICK n : n = NextSequence
    OBVIOUS
  <2>4. /\ n \notin DOMAIN events /\ n \in Nat /\ n # None
        /\ \A j \in DOMAIN events : n > j
        /\ i \in DOMAIN events
        /\ DOMAIN events' = DOMAIN events \cup {n}
        /\ events'[n].type = "undone" /\ events'[n].target = i
        /\ events'[n].undone_by = None
        /\ events[i].type # "undone" /\ events[i].undone_by = None
        /\ events'[i].type = events[i].type /\ events'[i].undone_by = n
        /\ \A j \in DOMAIN events \ {i} : events'[j] = events[j]
    BY <1>1, <2>1, <2>2, <2>3, NoneAssumption DEF UndoesStanding
  <2>5. ASSUME NEW j \in DOMAIN events \ {i}, events[j].undone_by # None
        PROVE  /\ events'[j].undone_by \in DOMAIN events'
               /\ events'[j].undone_by > j
               /\ events'[events'[j].undone_by].type = "undone"
               /\ events'[events'[j].undone_by].target = j
    BY <2>4, <2>5 DEF UndoNamesItsEvent
  <2>6. ASSUME NEW j \in DOMAIN events \ {i}, events[j].type = "undone"
        PROVE  /\ events'[j].target \in DOMAIN events'
               /\ events'[events'[j].target].undone_by = j
               /\ events'[j].undone_by = None
    <3>1. /\ events[j].target \in DOMAIN events
          /\ events[events[j].target].undone_by = j
          /\ events[j].undone_by = None
      BY <2>6 DEF UndoNamesItsEvent
    <3>2. j # None
      BY <1>1, NoneAssumption
    <3>3. events[j].target # i
      BY <2>4, <3>1, <3>2
    <3> QED
      BY <2>4, <3>1, <3>3
  <2> QED
    BY <2>4, <2>5, <2>6 DEF UndoNamesItsEvent
<1>4. CASE UNCHANGED vars
  BY <1>4 DEF vars, UndoNamesItsEvent
<1> QED
  BY <1>2, <1>3, <1>4 DEF Next

THEOREM UndoNames == Spec => []UndoNamesItsEvent
<1>1. Init => UndoNamesItsEvent
  BY DEF Init, UndoNamesItsEvent
<1>2. TypeOK /\ UndoNamesItsEvent /\ [Next]_vars => UndoNamesItsEvent'
  BY UndoNamesKept
<1> QED
  BY <1>1, <1>2, TypeCorrect, PTL DEF Spec

(* What was written between an event and the undo of it was undone before  *)
(* that: undo is last in, first out, however writes and undos alternate.   *)
(* The newest standing event is undone when every later one already is.    *)
LEMMA NestingKept ==
  ASSUME TypeOK, UndoNamesItsEvent, UndoIsNested, [Next]_vars
  PROVE  UndoIsNested'
<1>1. NextSequence = version /\ version \in Nat /\ DOMAIN events = 1..(version - 1)
  BY NextSequenceIsVersion DEF TypeOK
<1>2. PICK n : n = NextSequence
  OBVIOUS
<1>3. n \notin DOMAIN events /\ n \in Nat /\ n # None /\ \A j \in DOMAIN events : n > j
  BY <1>1, <1>2, NoneAssumption
<1>4. \A k \in DOMAIN events : events[k].undone_by # None =>
        events[k].undone_by \in DOMAIN events
  BY DEF UndoNamesItsEvent
<1>5. CASE Play
  <2>1. PICK e : Appends(e) /\ e.type # "undone" /\ e.undone_by = None
    BY <1>5, PlayAppends DEF AppendsStanding
  <2>2. /\ DOMAIN events' = DOMAIN events \cup {n}
        /\ events'[n].undone_by = None
        /\ \A k \in DOMAIN events : events'[k] = events[k]
    BY <1>2, <2>1 DEF Appends
  <2>3. SUFFICES ASSUME NEW k \in DOMAIN events', NEW j \in DOMAIN events',
                        events'[k].undone_by # None,
                        k < j, j < events'[k].undone_by, events'[j].type # "undone"
                 PROVE  /\ events'[j].undone_by # None
                        /\ events'[j].undone_by < events'[k].undone_by
    BY DEF UndoIsNested
  <2>4. k \in DOMAIN events /\ events[k].undone_by \in DOMAIN events
    BY <1>4, <2>2, <2>3
  <2>5. j \in DOMAIN events
    BY <1>1, <1>3, <2>2, <2>3, <2>4
  <2> QED
    BY <2>2, <2>3, <2>4, <2>5 DEF UndoIsNested
<1>6. CASE Undo
  <2>1. PICK i : IsNewest(i) /\ UndoesStanding(i)
    BY <1>6, UndoMarks
  <2>2. /\ i \in DOMAIN events /\ events[i].undone_by = None /\ events[i].type # "undone"
        /\ DOMAIN events' = DOMAIN events \cup {n}
        /\ events'[n].type = "undone" /\ events'[n].undone_by = None
        /\ events'[i].undone_by = n
        /\ \A k \in DOMAIN events \ {i} : events'[k] = events[k]
    BY <1>2, <2>1 DEF UndoesStanding, TypeOK, IsEvent
  <2>3. \A j \in DOMAIN events :
          i < j /\ events[j].type # "undone" => events[j].undone_by # None
    BY <1>1, <2>1, <2>2 DEF IsNewest, Standing
  <2>4. SUFFICES ASSUME NEW k \in DOMAIN events', NEW j \in DOMAIN events',
                        events'[k].undone_by # None,
                        k < j, j < events'[k].undone_by, events'[j].type # "undone"
                 PROVE  /\ events'[j].undone_by # None
                        /\ events'[j].undone_by < events'[k].undone_by
    BY DEF UndoIsNested
  <2>5. k \in DOMAIN events /\ j \in DOMAIN events
    BY <1>1, <1>3, <1>4, <2>2, <2>4
  <2>6. CASE k = i
    <3>1. j # i /\ events'[j] = events[j] /\ events[j].undone_by # None
      BY <1>1, <2>2, <2>3, <2>4, <2>5, <2>6
    <3>2. events[j].undone_by \in DOMAIN events
      BY <1>4, <2>5, <3>1
    <3> QED
      BY <1>3, <2>2, <2>6, <3>1, <3>2
  <2>7. CASE k # i
    <3>1. events'[k] = events[k]
      BY <2>2, <2>5, <2>7
    <3>2. j # i
      BY <2>2, <2>4, <2>5, <3>1 DEF UndoIsNested
    <3> QED
      BY <2>2, <2>4, <2>5, <3>1, <3>2 DEF UndoIsNested
  <2> QED
    BY <2>6, <2>7
<1>7. CASE UNCHANGED vars
  BY <1>7 DEF vars, UndoIsNested
<1> QED
  BY <1>5, <1>6, <1>7 DEF Next

THEOREM UndoNests == Spec => []UndoIsNested
<1>1. Init => UndoIsNested
  BY DEF Init, UndoIsNested
<1>2. TypeOK /\ UndoNamesItsEvent /\ UndoIsNested /\ [Next]_vars => UndoIsNested'
  BY NestingKept
<1> QED
  BY <1>1, <1>2, TypeCorrect, UndoNames, PTL DEF Spec

=============================================================================
