------------------------------- MODULE KTGame -------------------------------
(***************************************************************************)
(* One battle of Kill Team: the row of kt_games, its operatives, its       *)
(* equipment and its event log, and every operation KTGameService performs *)
(* on them, one request at a time.  What concurrent requests do to each    *)
(* other is the subject of module KTGameSessions.                          *)
(*                                                                         *)
(* Every write goes through _write: it appends an event that carries the   *)
(* values it replaced and moves the game's version.  Undo reverts the      *)
(* newest event that still stands, and appends an event of its own.        *)
(*                                                                         *)
(* An action is a request that is answered with success and changes        *)
(* something.  A refused request, and a write that leaves every field as   *)
(* it was, are stuttering steps.                                           *)
(***************************************************************************)
EXTENDS Integers, Sequences, FiniteSets

CONSTANTS
  LastTurningPoint,  \* turning points in a game: 4 in the code
  Cards,             \* KTOperative rows, of every kill team
  TeamCards,         \* those of the game's kill team
  WithdrawnCards,    \* those the catalog has flagged withdrawn
  MaxWounds,         \* [Cards -> Nat]: the wounds column of a card
  Roster,            \* the roster's rows: a sequence of [card, position]
  Ploys,             \* names in the game's ploy snapshot
  Cost,              \* [Ploys -> Nat]: cp_cost
  Kit,               \* KTEquipment rows, of every kill team
  TeamKit,           \* the team's own and the universal ones
  WithdrawnKit,
  Notes,             \* contents of the fields of a game nothing reads back:
                     \* opponent_name, VP, markers, choices
  Marks,             \* and of an operative's: order, tokens, actions_used
  None,
  MaxCP,             \* bound: the command points a PATCH may set
  MaxRecorded,       \* bound: the ploys a PATCH records
  MaxMoved,          \* bound: the fields one PATCH of the game moves
  MaxEvents          \* bound: the length of the log

ASSUME TurningPointAssumption == LastTurningPoint \in Nat \ {0}
ASSUME CardAssumption ==
  /\ TeamCards \subseteq Cards
  /\ MaxWounds \in [Cards -> Nat]
  /\ Roster \in Seq([card : TeamCards, position : Nat])
ASSUME PloyAssumption == Cost \in [Ploys -> Nat]
ASSUME KitAssumption == TeamKit \subseteq Kit
ASSUME BoundAssumption ==
  MaxCP \in Nat /\ MaxRecorded \in Nat /\ MaxMoved \in Nat /\ MaxEvents \in Nat
ASSUME NoneAssumption == None \notin Nat /\ None \notin STRING
ASSUME DocumentAssumption == Notes # {} /\ Marks # {}

VARIABLES
  game,        \* the row of kt_games, without its version
  version,     \* kt_games.version
  operatives,  \* kt_game_operatives: a function from row ids to rows
  equipment,   \* kt_game_equipment: a function from row ids to rows
  events       \* kt_game_events: a function from sequences to rows; the
               \* sequence stands for the event's id

vars == <<game, version, operatives, equipment, events>>

-----------------------------------------------------------------------------
(* The columns of each table, with the values they take *)

TurningPoints == 1..LastTurningPoint
Statuses == {"setup", "in_progress", "finished"}
Initiatives == {"player", "opponent", None}
OperativeStatuses == {"reserve", "on_board", "incapacitated"}
PloyEntries == [name : Ploys, turning_point : TurningPoints]

GameColumns ==
  [status |-> Statuses, turning_point |-> TurningPoints,
   phase |-> {"strategy", "firefight"}, initiative |-> Initiatives,
   command_points |-> Nat, ploys_used |-> Seq(PloyEntries), notes |-> Notes]

(* card stands for the whole datacard snapshot but wounds, which is the    *)
(* one field of it the service reads back.                                 *)
OperativeColumns ==
  [card |-> TeamCards, wounds |-> Nat, current_wounds |-> Nat,
   status |-> OperativeStatuses, marks |-> Marks,
   activated_in |-> TurningPoints \cup {None},
   added_in |-> TurningPoints \cup {None},
   position |-> Nat]

EquipmentColumns ==
  [piece |-> TeamKit, revealed |-> BOOLEAN, position |-> Nat]

-----------------------------------------------------------------------------
(* Partial functions and field writes *)

With(f, x, y) == [z \in DOMAIN f \cup {x} |-> IF z = x THEN y ELSE f[z]]
Without(f, x) == [z \in DOMAIN f \ {x} |-> f[z]]

(* The row after setattr of every field of changes. *)
Set(row, changes) ==
  [f \in DOMAIN row |-> IF f \in DOMAIN changes THEN changes[f] ELSE row[f]]

(* What _apply reports: the fields that really move, with the values they  *)
(* had.                                                                    *)
Before_After(row, changes) ==
  [f \in {g \in DOMAIN changes : row[g] # changes[g]} |-> changes[f]]

Before(row, changes) ==
  [f \in {g \in DOMAIN changes : row[g] # changes[g]} |-> row[f]]

NothingMoved(before) == DOMAIN before = {}

Moves(row, changes) == Cardinality(DOMAIN Before(row, changes))

Highest(S) == CHOOSE n \in S : \A m \in S : m <= n

NextSequence_Standing ==
  LET standing == {i \in DOMAIN events :
                     events[i].type # "undone" /\ events[i].undone_by = None}
  IN IF standing = {} THEN 1 ELSE Highest(standing) + 1

NextSequence == IF DOMAIN events = {} THEN 1 ELSE Highest(DOMAIN events) + 1

(* A UUID no row has had: the event that creates a row gives it its id. *)
NewId == Len(Roster) + NextSequence

NextPosition_Count(rows) == Cardinality(DOMAIN rows)

NextPosition(rows) ==
  IF DOMAIN rows = {} THEN 0
  ELSE Highest({rows[x].position : x \in DOMAIN rows}) + 1

-----------------------------------------------------------------------------
(* The game as create_game leaves it *)

Snapshot(c) == [card |-> c, wounds |-> MaxWounds[c]]

NewOperative(c, position, added) ==
  [card |-> c, wounds |-> MaxWounds[c], current_wounds |-> MaxWounds[c],
   status |-> "on_board", marks |-> CHOOSE m \in Marks : TRUE,
   activated_in |-> None, added_in |-> added, position |-> position]

NewGame ==
  [status |-> "setup", turning_point |-> 1, phase |-> "strategy",
   initiative |-> None, command_points |-> 0, ploys_used |-> <<>>,
   notes |-> CHOOSE n \in Notes : TRUE]

Init ==
  /\ game = NewGame
  /\ version = 1
  /\ operatives = [i \in 1..Len(Roster) |->
                     NewOperative(Roster[i].card, Roster[i].position, None)]
  /\ equipment = <<>>
  /\ events = <<>>

-----------------------------------------------------------------------------
(* Writing: what every mutation ends with *)

(* The bound is Write's; the two PATCHes try it before they choose their   *)
(* fields too, to spare TLC the choice where the log is full.              *)
Write(type, op, target, before) ==
  /\ NextSequence <= MaxEvents
  /\ events' = With(events, NextSequence,
       [type |-> type, op |-> op, target |-> target, before |-> before,
        turning_point |-> game'.turning_point, undone_by |-> None])
  /\ version' = version + 1

WriteGame(type, changes) ==
  /\ ~NothingMoved(Before(game, changes))
  /\ game' = Set(game, changes)
  /\ UNCHANGED <<operatives, equipment>>
  /\ Write(type, "fields", None, Before(game, changes))

WriteOperative(type, id, changes) ==
  /\ ~NothingMoved(Before(operatives[id], changes))
  /\ operatives' = [operatives EXCEPT ![id] = Set(@, changes)]
  /\ UNCHANGED <<game, equipment>>
  /\ Write(type, "fields", id, Before(operatives[id], changes))

WriteEquipment(type, id, changes) ==
  /\ ~NothingMoved(Before(equipment[id], changes))
  /\ equipment' = [equipment EXCEPT ![id] = Set(@, changes)]
  /\ UNCHANGED <<game, operatives>>
  /\ Write(type, "fields", id, Before(equipment[id], changes))

(* _require_game for every write but advance and undo. *)
RequireOpen_Never == TRUE

RequireOpen == game.status # "finished"

-----------------------------------------------------------------------------
(* The game's own fields *)

(* The lists of ploys a PATCH may record: of the game's own, each as often *)
(* as the player likes.                                                    *)
PloyLists == UNION {[1..n -> PloyEntries] : n \in 0..MaxRecorded}

(* A field a PATCH leaves out and a field sent with its current value come *)
(* to the same write, so every field is chosen.                            *)
UpdateGame ==
  /\ RequireOpen
  /\ NextSequence <= MaxEvents
  /\ \E s \in Statuses, i \in Initiatives, cp \in 0..MaxCP,
        used \in PloyLists \cup {game.ploys_used}, n \in Notes :
       LET fields == [status |-> s, initiative |-> i, command_points |-> cp,
                      ploys_used |-> used, notes |-> n]
       IN Moves(game, fields) <= MaxMoved /\ WriteGame("game_updated", fields)

UsePloy(p) ==
  /\ RequireOpen
  /\ Cost[p] <= game.command_points
  /\ WriteGame("ploy_used",
       [command_points |-> game.command_points - Cost[p],
        ploys_used |-> Append(game.ploys_used,
          [name |-> p, turning_point |-> game.turning_point])])

(* Strategy to firefight; firefight to the next turning point's strategy   *)
(* phase, initiative back to nobody; out of the last firefight phase the   *)
(* game is finished.  A game still in setup is under way once it moves.    *)
UnderWay == IF game.status = "setup" THEN "in_progress" ELSE game.status

Moved_KeepsPhase ==
  CASE game.phase = "strategy" -> [phase |-> "firefight", status |-> UnderWay]
    [] game.phase # "strategy" /\ game.turning_point < LastTurningPoint ->
         [turning_point |-> game.turning_point + 1,
          initiative |-> None, status |-> UnderWay]
    [] OTHER -> [status |-> "finished"]

Moved ==
  CASE game.phase = "strategy" -> [phase |-> "firefight", status |-> UnderWay]
    [] game.phase # "strategy" /\ game.turning_point < LastTurningPoint ->
         [phase |-> "strategy", turning_point |-> game.turning_point + 1,
          initiative |-> None, status |-> UnderWay]
    [] OTHER -> [status |-> "finished"]

Advance_Unguarded == WriteGame("advanced", Moved)

Advance ==
  /\ game.status # "finished"
  /\ WriteGame("advanced", Moved)

-----------------------------------------------------------------------------
(* Operatives *)

(* Whether equipment or a rule brought it is recorded and never read.      *)
AddOperative(c) ==
  /\ RequireOpen
  /\ c \in TeamCards \ WithdrawnCards
  /\ operatives' = With(operatives, NewId,
       NewOperative(c, NextPosition(operatives), game.turning_point))
  /\ UNCHANGED <<game, equipment>>
  /\ Write("operative_added", "created", NewId, <<>>)

TransformOperative_Uncapped(id, c) ==
  /\ RequireOpen
  /\ c \in TeamCards
  /\ WriteOperative("operative_transformed", id, Snapshot(c))

(* A card with fewer wounds than the model has left caps them. *)
TransformOperative(id, c) ==
  /\ RequireOpen
  /\ c \in TeamCards
  /\ LET left == operatives[id].current_wounds
         capped == IF left > MaxWounds[c] THEN MaxWounds[c] ELSE left
     IN WriteOperative("operative_transformed", id,
          [card |-> Snapshot(c).card, wounds |-> Snapshot(c).wounds,
           current_wounds |-> capped])

(* w or s is None when the PATCH does not send that field.  Zero wounds    *)
(* take an operative out and wounds above zero bring an incapacitated one  *)
(* back, unless the PATCH names a status.                                  *)
StatusSet(row, w, s) ==
  CASE s # None -> s
    [] s = None /\ w = 0 -> "incapacitated"
    [] s = None /\ w \notin {0, None} /\ row.status = "incapacitated" -> "on_board"
    [] OTHER -> row.status

WoundsAllowed(row) == 0..row.wounds

UpdateOperative(id) ==
  /\ RequireOpen
  /\ NextSequence <= MaxEvents
  /\ \E w \in WoundsAllowed(operatives[id]) \cup {None},
        s \in OperativeStatuses \cup {None}, m \in Marks :
       WriteOperative("operative_updated", id,
         [current_wounds |-> IF w = None THEN operatives[id].current_wounds ELSE w,
          status |-> StatusSet(operatives[id], w, s),
          marks |-> m])

ActivateOperative(id) ==
  /\ RequireOpen
  /\ operatives[id].status # "incapacitated"
  /\ operatives[id].activated_in # game.turning_point
  /\ WriteOperative("operative_activated", id,
       [activated_in |-> game.turning_point])

-----------------------------------------------------------------------------
(* Equipment *)

NotTaken_Unchecked(k) == TRUE

NotTaken(k) == \A x \in DOMAIN equipment : equipment[x].piece # k

AddEquipment(k) ==
  /\ RequireOpen
  /\ k \in TeamKit \ WithdrawnKit
  /\ NotTaken(k)
  /\ equipment' = With(equipment, NewId,
       [piece |-> k, revealed |-> FALSE, position |-> NextPosition(equipment)])
  /\ UNCHANGED <<game, operatives>>
  /\ Write("equipment_added", "created", NewId, <<>>)

RevealEquipment(id) ==
  /\ RequireOpen
  /\ WriteEquipment("equipment_revealed", id, [revealed |-> TRUE])

RemoveEquipment_Forgets(id) ==
  /\ RequireOpen
  /\ equipment' = Without(equipment, id)
  /\ UNCHANGED <<game, operatives>>
  /\ Write("equipment_removed", "deleted", id, Set(equipment[id], [revealed |-> FALSE]))

(* The event carries the whole row. *)
RemoveEquipment(id) ==
  /\ RequireOpen
  /\ equipment' = Without(equipment, id)
  /\ UNCHANGED <<game, operatives>>
  /\ Write("equipment_removed", "deleted", id, equipment[id])

-----------------------------------------------------------------------------
(* Undo *)

Standing_WithUndos == {i \in DOMAIN events : events[i].undone_by = None}

Standing == {i \in DOMAIN events :
               events[i].type # "undone" /\ events[i].undone_by = None}

IsNewest_Oldest(i) == i \in Standing /\ \A j \in Standing : i <= j

IsNewest(i) == i \in Standing /\ \A j \in Standing : j <= i

(* What a battle has written: everything but the version and the log. *)
State == [game |-> game, operatives |-> operatives, equipment |-> equipment]

(* An operative is looked for before a piece of equipment.                 *)
Revert(s, e) ==
  LET operative == e.target \in DOMAIN s.operatives
  IN [game |->
        IF e.op = "fields" /\ e.target = None THEN Set(s.game, e.before)
        ELSE s.game,
      operatives |->
        CASE e.op = "fields" /\ operative ->
               With(s.operatives, e.target, Set(s.operatives[e.target], e.before))
          [] e.op = "created" /\ operative -> Without(s.operatives, e.target)
          [] OTHER -> s.operatives,
      equipment |->
        CASE e.op = "fields" /\ e.target # None /\ ~operative ->
               With(s.equipment, e.target, Set(s.equipment[e.target], e.before))
          [] e.op = "created" /\ ~operative -> Without(s.equipment, e.target)
          [] e.op = "deleted" -> With(s.equipment, e.target, e.before)
          [] OTHER -> s.equipment]

(* Reverting e finds the row it wrote (or NotFoundError), and the row it   *)
(* recreates meets no other with its id or its piece (or IntegrityError).  *)
CanRevert(s, e) ==
  /\ e.op = "fields" => \/ e.target = None
                        \/ e.target \in DOMAIN s.operatives \cup DOMAIN s.equipment
  /\ e.op = "deleted" =>
       /\ e.target \notin DOMAIN s.equipment
       /\ \A x \in DOMAIN s.equipment : s.equipment[x].piece # e.before.piece

Compensated_Erased(i) == Without(events, i)

Compensated(i) ==
  [events EXCEPT ![i] = Set(@, [undone_by |-> NextSequence])]

Undo ==
  \E i \in DOMAIN events :
    /\ IsNewest(i)
    /\ CanRevert(State, events[i])
    /\ NextSequence <= MaxEvents
    /\ LET reverted == Revert(State, events[i]) IN
         /\ game' = reverted.game
         /\ operatives' = reverted.operatives
         /\ equipment' = reverted.equipment
    /\ events' = With(Compensated(i), NextSequence,
         [type |-> "undone", op |-> "undo", target |-> i, before |-> <<>>,
          turning_point |-> game'.turning_point, undone_by |-> None])
    /\ version' = version + 1

-----------------------------------------------------------------------------
Play ==
  \/ UpdateGame
  \/ \E p \in Ploys : UsePloy(p)
  \/ Advance
  \/ \E c \in Cards : AddOperative(c)
  \/ \E id \in DOMAIN operatives, c \in Cards : TransformOperative(id, c)
  \/ \E id \in DOMAIN operatives : UpdateOperative(id)
  \/ \E id \in DOMAIN operatives : ActivateOperative(id)
  \/ \E k \in Kit : AddEquipment(k)
  \/ \E id \in DOMAIN equipment : RevealEquipment(id)
  \/ \E id \in DOMAIN equipment : RemoveEquipment(id)

Next == Play \/ Undo

Spec == Init /\ [][Next]_vars

-----------------------------------------------------------------------------
(* Properties *)

IsRow(row, columns) ==
  /\ DOMAIN row = DOMAIN columns
  /\ \A f \in DOMAIN columns : row[f] \in columns[f]

IsPart(part, columns) ==
  /\ DOMAIN part \subseteq DOMAIN columns
  /\ \A f \in DOMAIN part : part[f] \in columns[f]

OperativeWrites == {"operative_updated", "operative_activated", "operative_transformed"}

IsOperativeId(id) ==
  \/ id \in 1..Len(Roster)
  \/ \E i \in DOMAIN events :
       events[i].type = "operative_added" /\ id = Len(Roster) + i

IsEquipmentId(id) ==
  \E i \in DOMAIN events :
    events[i].type = "equipment_added" /\ id = Len(Roster) + i

IsEvent(e) ==
  /\ DOMAIN e = {"type", "op", "target", "before", "turning_point", "undone_by"}
  /\ e.turning_point \in TurningPoints
  /\ e.undone_by \in Nat \cup {None}
  /\ \/ /\ e.type \in {"game_updated", "ploy_used", "advanced"}
        /\ e.op = "fields" /\ e.target = None
        /\ IsPart(e.before, GameColumns)
     \/ /\ e.type \in OperativeWrites
        /\ e.op = "fields" /\ IsOperativeId(e.target)
        /\ IsPart(e.before, OperativeColumns)
     \/ /\ e.type = "equipment_revealed"
        /\ e.op = "fields" /\ IsEquipmentId(e.target)
        /\ IsPart(e.before, EquipmentColumns)
     \/ /\ e.type = "operative_added"
        /\ e.op = "created" /\ IsOperativeId(e.target)
     \/ /\ e.type = "equipment_added"
        /\ e.op = "created" /\ IsEquipmentId(e.target)
     \/ /\ e.type = "equipment_removed"
        /\ e.op = "deleted" /\ IsEquipmentId(e.target)
        /\ IsRow(e.before, EquipmentColumns)
     \/ /\ e.type = "undone"
        /\ e.op = "undo" /\ e.target \in DOMAIN events

(* Every row holds what its table's columns take; every event names a row  *)
(* of the table its type writes, and carries columns of that table; and    *)
(* the log has no gap: sequences run from 1 and the version counts the     *)
(* writes.                                                                 *)
TypeOK ==
  /\ IsRow(game, GameColumns)
  /\ version \in Nat \ {0}
  /\ \A id \in DOMAIN operatives :
       IsOperativeId(id) /\ IsRow(operatives[id], OperativeColumns)
  /\ \A id \in DOMAIN equipment :
       IsEquipmentId(id) /\ IsRow(equipment[id], EquipmentColumns)
  /\ DOMAIN events = 1..(version - 1)
  /\ \A i \in DOMAIN events : IsEvent(events[i])

(* ck_kt_game_operative_current_wounds over any mix of wounds, transforms  *)
(* and undos: no operative has more wounds left than the card its row      *)
(* shows, and the row's maximum is that card's.                            *)
WoundsWithinCard ==
  \A id \in DOMAIN operatives :
    /\ operatives[id].current_wounds <= operatives[id].wounds
    /\ operatives[id].wounds = MaxWounds[operatives[id].card]

(* undo never answers "points at a row that is gone" and never recreates a *)
(* row onto another: whatever the newest standing event wrote is still     *)
(* there to be reverted.                                                   *)
UndoNeverStuck ==
  \A i \in DOMAIN events : IsNewest(i) => CanRevert(State, events[i])

(* Decision #66: the event that finished a game is the one undo reverts    *)
(* next, so a finished game is always one undo away from being open again. *)
FinishedReopens ==
  game.status = "finished" =>
    \E i \in DOMAIN events :
      IsNewest(i) /\ Revert(State, events[i]).game.status # "finished"

(* Undo is last in, first out: what was written between an event and the   *)
(* undo of it was undone in between too.                                   *)
UndoIsNested ==
  \A i, j \in DOMAIN events :
    (/\ events[i].undone_by # None
     /\ i < j /\ j < events[i].undone_by
     /\ events[j].type # "undone") =>
       events[j].undone_by # None /\ events[j].undone_by < events[i].undone_by

(* An event and the undo of it name each other, so no event is undone      *)
(* twice and no undo is of nothing.                                        *)
UndoNamesItsEvent ==
  \A i \in DOMAIN events :
    /\ events[i].undone_by # None =>
         /\ events[i].undone_by \in DOMAIN events
         /\ events[i].undone_by > i
         /\ events[events[i].undone_by].type = "undone"
         /\ events[events[i].undone_by].target = i
    /\ events[i].type = "undone" =>
         /\ events[i].target \in DOMAIN events
         /\ events[events[i].target].undone_by = i
         /\ events[i].undone_by = None

(* The row's stamp is the turning point of its newest standing activation, *)
(* and no two standing activations of one operative share a turning point: *)
(* an operative acts once in a turning point, through every undo.          *)
Activations(id) ==
  {i \in Standing : events[i].type = "operative_activated" /\ events[i].target = id}

ActivatesOncePerTurn ==
  \A id \in DOMAIN operatives :
    /\ \A i, j \in Activations(id) :
         i # j => events[i].turning_point # events[j].turning_point
    /\ operatives[id].activated_in =
         IF Activations(id) = {} THEN None
         ELSE events[Highest(Activations(id))].turning_point

(* The clock is what the standing log says: a phase per standing advance,  *)
(* so no write skips a phase and no undo leaves one behind.                *)
ClockCountsAdvances ==
  LET steps == {i \in Standing : events[i].type = "advanced" /\ "phase" \in DOMAIN events[i].before}
      clock == 2 * (game.turning_point - 1) + (IF game.phase = "firefight" THEN 1 ELSE 0)
  IN Cardinality(steps) = clock

(* uq_kt_game_equipment, and no two pieces in one place: a piece removed,  *)
(* taken again and brought back by undo is still there once.               *)
EquipmentTakenOnce ==
  \A x, y \in DOMAIN equipment :
    x # y => /\ equipment[x].piece # equipment[y].piece
             /\ equipment[x].position # equipment[y].position

(* The log is append-only: a step adds one event at the end and touches no *)
(* other, save for the undone_by of the event it undoes.                   *)
LogGrows ==
  /\ DOMAIN events' = DOMAIN events \cup {NextSequence}
  /\ version' = version + 1
  /\ \A i \in DOMAIN events :
       \/ events'[i] = events[i]
       \/ /\ events[i].undone_by = None
          /\ events'[i] = [events[i] EXCEPT !.undone_by = NextSequence]
          /\ events'[NextSequence].type = "undone"

LogOnlyGrows == [][LogGrows]_vars

(* Decision #66: once finished, a game moves only by the undo that reopens *)
(* it, and that undo touches no operative and no equipment.                *)
FinishedIsFrozen ==
  [][game.status = "finished" =>
       /\ events'[NextSequence].type = "undone"
       /\ game'.status # "finished"
       /\ UNCHANGED <<operatives, equipment>>]_vars

=============================================================================
