------------------------ MODULE KTGameHistoryProofs ------------------------
(***************************************************************************)
(* Undo restores what was there before, in a battle of any length, with    *)
(* any catalog, roster and team: KTGame implements UndoStack.              *)
(*                                                                         *)
(* The log keeps only the fields each write moved, so that what undo does  *)
(* is known of one state only: the one the event itself left.  The         *)
(* inductive invariant is therefore a chain.  past gives each standing     *)
(* event the state it found; reverting the event on the state the next     *)
(* standing event found (on the present state, for the newest) gives that  *)
(* state back.  A write adds a link at the end, undo takes the last one    *)
(* off.  What else is proved rests on the chain: undo is never stuck, and  *)
(* every state undo returns to was sound when it was left.                 *)
(***************************************************************************)
EXTENDS KTGameHistory, KTGameProofs

-----------------------------------------------------------------------------
(* A state of a battle without its log *)

IsFunction(f) == f = [x \in DOMAIN f |-> f[x]]

Restores(s, e, t) == CanRevert(s, e) /\ Revert(s, e) = t

IsWithinCard(row) ==
  /\ row.current_wounds <= row.wounds
  /\ row.wounds = MaxWounds[row.card]

(* Rows are functions, no operative has more wounds than its card, and no  *)
(* two pieces of equipment share a kind or a position.                     *)
Sound(s) ==
  /\ IsFunction(s.game) /\ IsFunction(s.operatives) /\ IsFunction(s.equipment)
  /\ \A id \in DOMAIN s.operatives :
       IsFunction(s.operatives[id]) /\ IsWithinCard(s.operatives[id])
  /\ \A id \in DOMAIN s.equipment : IsFunction(s.equipment[id])
  /\ \A x, y \in DOMAIN s.equipment :
       x # y => /\ s.equipment[x].piece # s.equipment[y].piece
                /\ s.equipment[x].position # s.equipment[y].position

(* Restoring the fields a write moved undoes the write. *)
LEMMA SetBack ==
  ASSUME NEW row, NEW changes, IsFunction(row)
  PROVE  /\ IsFunction(Set(row, changes))
         /\ Set(Set(row, changes), Before(row, changes)) = row
BY DEF IsFunction, Set, Before

(* Adding what is not there and taking it away, and the other way round.   *)
LEMMA WithoutWith ==
  ASSUME NEW f, NEW x, NEW y, IsFunction(f), x \notin DOMAIN f
  PROVE  Without(With(f, x, y), x) = f
BY DEF IsFunction, With, Without

LEMMA WithWithout ==
  ASSUME NEW f, NEW x \in DOMAIN f, IsFunction(f)
  PROVE  With(Without(f, x), x, f[x]) = f
BY DEF IsFunction, With, Without

LEMMA WithExcept ==
  ASSUME NEW f, NEW x \in DOMAIN f, NEW y, IsFunction(f)
  PROVE  With([f EXCEPT ![x] = y], x, f[x]) = f
BY DEF IsFunction, With

(* Ids are naturals, those in use are in one table, and NewId is in none.  *)
LEMMA IdsInUse ==
  ASSUME TypeOK
  PROVE  /\ None \notin DOMAIN operatives \cup DOMAIN equipment
         /\ DOMAIN operatives \cap DOMAIN equipment = {}
         /\ NewId \notin DOMAIN operatives \cup DOMAIN equipment
<1>1. /\ Len(Roster) \in Nat
      /\ version \in Nat \ {0}
      /\ NewId = Len(Roster) + version
  BY CardAssumption, NextSequenceIsVersion DEF TypeOK, NewId
<1>2. \A id \in DOMAIN operatives :
        id \in 1..(Len(Roster) + version - 1) /\ ~IsEquipmentId(id)
  BY IdsAreDisjoint DEF TypeOK
<1>3. \A id \in DOMAIN equipment :
        id \in 1..(Len(Roster) + version - 1) /\ IsEquipmentId(id)
  BY IdsAreDisjoint DEF TypeOK
<1> QED
  BY <1>1, <1>2, <1>3, NoneAssumption

-----------------------------------------------------------------------------
(* Each way of writing leaves an event that takes it back *)

LEMMA WriteLeaves ==
  ASSUME TypeOK, NEW type, NEW op, NEW target, NEW before,
         Write(type, op, target, before)
  PROVE  /\ events'[NextSequence].type = type
         /\ events'[NextSequence].op = op
         /\ events'[NextSequence].target = target
         /\ events'[NextSequence].before = before
         /\ events'[NextSequence].turning_point = game'.turning_point
         /\ events'[NextSequence].undone_by = None
<1>1. PICK e : e = [type |-> type, op |-> op, target |-> target, before |-> before,
                    turning_point |-> game'.turning_point, undone_by |-> None]
  OBVIOUS
<1>2. events'[NextSequence] = e
  BY <1>1, WriteAppends DEF Appends
<1>3. /\ e.type = type /\ e.op = op /\ e.target = target /\ e.before = before
      /\ e.turning_point = game'.turning_point /\ e.undone_by = None
  BY <1>1
<1> QED
  BY <1>2, <1>3

LEMMA GameWriteRestores ==
  ASSUME TypeOK, Sound(State), NEW type, NEW changes, WriteGame(type, changes)
  PROVE  Restores(State', events'[NextSequence], State)
<1>1. PICK before : before = Before(game, changes)
  OBVIOUS
<1>2. PICK e : e = events'[NextSequence]
  OBVIOUS
<1>3. e.op = "fields" /\ e.target = None /\ e.before = before
  BY <1>1, <1>2, WriteLeaves DEF WriteGame
<1>4. None \notin DOMAIN operatives
  BY IdsInUse
<1>5. Set(game', before) = game
  BY <1>1, SetBack DEF WriteGame, Sound, State
<1>6. operatives' = operatives /\ equipment' = equipment
  BY DEF WriteGame
<1> QED
  BY <1>2, <1>3, <1>4, <1>5, <1>6 DEF Restores, CanRevert, Revert, State

LEMMA OperativeWriteRestores ==
  ASSUME TypeOK, Sound(State), NEW type, NEW id \in DOMAIN operatives, NEW changes,
         WriteOperative(type, id, changes)
  PROVE  Restores(State', events'[NextSequence], State)
<1>1. PICK before : before = Before(operatives[id], changes)
  OBVIOUS
<1>2. PICK e : e = events'[NextSequence]
  OBVIOUS
<1>3. e.op = "fields" /\ e.target = id /\ e.before = before
  BY <1>1, <1>2, WriteLeaves DEF WriteOperative
<1>4. id # None
  BY IdsInUse
<1>5. PICK row : row = Set(operatives[id], changes)
  OBVIOUS
<1>6. Set(row, before) = operatives[id]
  BY <1>1, <1>5, SetBack DEF Sound, State
<1>7. operatives' = [operatives EXCEPT ![id] = row] /\ IsFunction(operatives)
  BY <1>5 DEF WriteOperative, Sound, State
<1>8. With(operatives', id, Set(operatives'[id], before)) = operatives
  <2>1. operatives'[id] = row
    BY <1>7
  <2> QED
    BY <1>6, <1>7, <2>1, WithExcept
<1>9. id \in DOMAIN operatives' /\ game' = game /\ equipment' = equipment
  BY <1>7 DEF WriteOperative
<1> QED
  BY <1>2, <1>3, <1>4, <1>8, <1>9 DEF Restores, CanRevert, Revert, State

LEMMA EquipmentWriteRestores ==
  ASSUME TypeOK, Sound(State), NEW type, NEW id \in DOMAIN equipment, NEW changes,
         WriteEquipment(type, id, changes)
  PROVE  Restores(State', events'[NextSequence], State)
<1>1. PICK before : before = Before(equipment[id], changes)
  OBVIOUS
<1>2. PICK e : e = events'[NextSequence]
  OBVIOUS
<1>3. e.op = "fields" /\ e.target = id /\ e.before = before
  BY <1>1, <1>2, WriteLeaves DEF WriteEquipment
<1>4. id # None /\ id \notin DOMAIN operatives
  BY IdsInUse
<1>5. PICK row : row = Set(equipment[id], changes)
  OBVIOUS
<1>6. Set(row, before) = equipment[id]
  BY <1>1, <1>5, SetBack DEF Sound, State
<1>7. equipment' = [equipment EXCEPT ![id] = row] /\ IsFunction(equipment)
  BY <1>5 DEF WriteEquipment, Sound, State
<1>8. With(equipment', id, Set(equipment'[id], before)) = equipment
  <2>1. equipment'[id] = row
    BY <1>7
  <2> QED
    BY <1>6, <1>7, <2>1, WithExcept
<1>9. id \in DOMAIN equipment' /\ game' = game /\ operatives' = operatives
  BY <1>7 DEF WriteEquipment
<1> QED
  BY <1>2, <1>3, <1>4, <1>8, <1>9 DEF Restores, CanRevert, Revert, State

LEMMA AddOperativeRestores ==
  ASSUME TypeOK, Sound(State), NEW c, AddOperative(c)
  PROVE  Restores(State', events'[NextSequence], State)
<1>1. PICK id, row : id = NewId /\ operatives' = With(operatives, id, row)
  BY DEF AddOperative
<1>2. PICK e : e = events'[NextSequence]
  OBVIOUS
<1>3. e.op = "created" /\ e.target = id
  BY <1>1, <1>2, WriteLeaves DEF AddOperative
<1>4. id \notin DOMAIN operatives
  BY <1>1, IdsInUse
<1>5. Without(operatives', id) = operatives /\ id \in DOMAIN operatives'
  <2>1. IsFunction(operatives)
    BY DEF Sound, State
  <2>2. id \in DOMAIN With(operatives, id, row)
    BY DEF With
  <2> QED
    BY <1>1, <1>4, <2>1, <2>2, WithoutWith
<1>6. game' = game /\ equipment' = equipment
  BY DEF AddOperative
<1> QED
  BY <1>2, <1>3, <1>5, <1>6 DEF Restores, CanRevert, Revert, State

LEMMA AddEquipmentRestores ==
  ASSUME TypeOK, Sound(State), NEW k, AddEquipment(k)
  PROVE  Restores(State', events'[NextSequence], State)
<1>1. PICK id, row : id = NewId /\ equipment' = With(equipment, id, row)
  BY DEF AddEquipment
<1>2. PICK e : e = events'[NextSequence]
  OBVIOUS
<1>3. e.op = "created" /\ e.target = id
  BY <1>1, <1>2, WriteLeaves DEF AddEquipment
<1>4. id \notin DOMAIN equipment /\ id \notin DOMAIN operatives
  BY <1>1, IdsInUse
<1>5. Without(equipment', id) = equipment
  BY <1>1, <1>4, WithoutWith DEF Sound, State
<1>6. game' = game /\ operatives' = operatives
  BY DEF AddEquipment
<1> QED
  BY <1>2, <1>3, <1>4, <1>5, <1>6 DEF Restores, CanRevert, Revert, State

(* The row removed comes back where no other has its piece, for no other   *)
(* had it before.                                                          *)
LEMMA RemoveEquipmentRestores ==
  ASSUME TypeOK, Sound(State), NEW id \in DOMAIN equipment, RemoveEquipment(id)
  PROVE  Restores(State', events'[NextSequence], State)
<1>1. PICK row : row = equipment[id]
  OBVIOUS
<1>2. PICK e : e = events'[NextSequence]
  OBVIOUS
<1>3. e.op = "deleted" /\ e.target = id /\ e.before = row
  BY <1>1, <1>2, WriteLeaves DEF RemoveEquipment
<1>4. equipment' = Without(equipment, id)
  BY DEF RemoveEquipment
<1>5. With(equipment', id, row) = equipment
  BY <1>1, <1>4, WithWithout DEF Sound, State
<1>6. \A x \in DOMAIN equipment' : x # id /\ equipment'[x].piece # row.piece
  BY <1>1, <1>4 DEF Without, Sound, State
<1>7. game' = game /\ operatives' = operatives
  BY DEF RemoveEquipment
<1> QED
  BY <1>2, <1>3, <1>5, <1>6, <1>7 DEF Restores, CanRevert, Revert, State

LEMMA PlayRestores ==
  ASSUME TypeOK, Sound(State), Play
  PROVE  Restores(State', events'[NextSequence], State)
<1>1. CASE UpdateGame
  BY <1>1, GameWriteRestores DEF UpdateGame
<1>2. ASSUME NEW p \in Ploys, UsePloy(p)
      PROVE  Restores(State', events'[NextSequence], State)
  BY <1>2, GameWriteRestores DEF UsePloy
<1>3. CASE Advance
  BY <1>3, GameWriteRestores DEF Advance
<1>4. ASSUME NEW c \in Cards, AddOperative(c)
      PROVE  Restores(State', events'[NextSequence], State)
  BY <1>4, AddOperativeRestores
<1>5. ASSUME NEW id \in DOMAIN operatives, NEW c \in Cards, TransformOperative(id, c)
      PROVE  Restores(State', events'[NextSequence], State)
  BY <1>5, OperativeWriteRestores DEF TransformOperative
<1>6. ASSUME NEW id \in DOMAIN operatives, UpdateOperative(id)
      PROVE  Restores(State', events'[NextSequence], State)
  BY <1>6, OperativeWriteRestores DEF UpdateOperative
<1>7. ASSUME NEW id \in DOMAIN operatives, ActivateOperative(id)
      PROVE  Restores(State', events'[NextSequence], State)
  BY <1>7, OperativeWriteRestores DEF ActivateOperative
<1>8. ASSUME NEW k \in Kit, AddEquipment(k)
      PROVE  Restores(State', events'[NextSequence], State)
  BY <1>8, AddEquipmentRestores
<1>9. ASSUME NEW id \in DOMAIN equipment, RevealEquipment(id)
      PROVE  Restores(State', events'[NextSequence], State)
  BY <1>9, EquipmentWriteRestores DEF RevealEquipment
<1>10. ASSUME NEW id \in DOMAIN equipment, RemoveEquipment(id)
       PROVE  Restores(State', events'[NextSequence], State)
  BY <1>10, RemoveEquipmentRestores
<1> QED
  BY <1>1, <1>2, <1>3, <1>4, <1>5, <1>6, <1>7, <1>8, <1>9, <1>10 DEF Play

-----------------------------------------------------------------------------
(* A write leaves a sound state sound *)

LEMMA GameWriteSound ==
  ASSUME Sound(State), NEW type, NEW changes, WriteGame(type, changes)
  PROVE  Sound(State')
BY SetBack DEF WriteGame, Sound, State

LEMMA OperativeWriteSound ==
  ASSUME Sound(State), NEW type, NEW id \in DOMAIN operatives, NEW changes,
         WriteOperative(type, id, changes), IsWithinCard(Set(operatives[id], changes))
  PROVE  Sound(State')
<1>1. PICK row : row = Set(operatives[id], changes)
  OBVIOUS
<1>2. IsFunction(row) /\ IsWithinCard(row)
  BY <1>1, SetBack DEF Sound, State
<1>3. /\ operatives' = [operatives EXCEPT ![id] = row]
      /\ game' = game /\ equipment' = equipment
  BY <1>1 DEF WriteOperative
<1>4. IsFunction(operatives')
  BY <1>3 DEF IsFunction
<1>5. \A x \in DOMAIN operatives' : IsFunction(operatives'[x]) /\ IsWithinCard(operatives'[x])
  BY <1>2, <1>3 DEF Sound, State
<1> QED
  BY <1>3, <1>4, <1>5 DEF Sound, State

LEMMA TransformSound ==
  ASSUME TypeOK, Sound(State), NEW id \in DOMAIN operatives, NEW c, TransformOperative(id, c)
  PROVE  Sound(State')
<1>1. PICK left, capped, changes :
        /\ left = operatives[id].current_wounds
        /\ capped = IF left > MaxWounds[c] THEN MaxWounds[c] ELSE left
        /\ changes = [card |-> c, wounds |-> MaxWounds[c], current_wounds |-> capped]
  OBVIOUS
<1>2. WriteOperative("operative_transformed", id, changes)
  BY <1>1 DEF TransformOperative, Snapshot
<1>3. DOMAIN operatives[id] = DOMAIN OperativeColumns /\ left \in Nat /\ MaxWounds[c] \in Nat
  BY <1>1, CardAssumption DEF TypeOK, IsRow, OperativeColumns, TransformOperative
<1>4. PICK row : row = Set(operatives[id], changes)
  OBVIOUS
<1>5. row.card = c /\ row.wounds = MaxWounds[c] /\ row.current_wounds = capped
  BY <1>1, <1>3, <1>4 DEF Set, OperativeColumns
<1>6. IsWithinCard(row)
  BY <1>1, <1>3, <1>5 DEF IsWithinCard
<1> QED
  BY <1>2, <1>4, <1>6, OperativeWriteSound

LEMMA UpdateOperativeSound ==
  ASSUME TypeOK, Sound(State), NEW id \in DOMAIN operatives, UpdateOperative(id)
  PROVE  Sound(State')
<1>1. PICK w, s, m :
        /\ w \in 0..operatives[id].wounds \cup {None}
        /\ WriteOperative("operative_updated", id,
             [current_wounds |-> IF w = None THEN operatives[id].current_wounds ELSE w,
              status |-> s, marks |-> m])
  BY DEF UpdateOperative, WoundsAllowed
<1>2. PICK left, changes :
        /\ left = IF w = None THEN operatives[id].current_wounds ELSE w
        /\ changes = [current_wounds |-> left, status |-> s, marks |-> m]
  OBVIOUS
<1>3. /\ DOMAIN operatives[id] = DOMAIN OperativeColumns
      /\ operatives[id].wounds \in Nat
      /\ IsWithinCard(operatives[id])
  BY DEF TypeOK, IsRow, OperativeColumns, Sound, State
<1>4. left <= operatives[id].wounds
  BY <1>1, <1>2, <1>3 DEF IsWithinCard
<1>5. PICK row : row = Set(operatives[id], changes)
  OBVIOUS
<1>6. /\ row.card = operatives[id].card /\ row.wounds = operatives[id].wounds
      /\ row.current_wounds = left
  BY <1>2, <1>3, <1>5 DEF Set, OperativeColumns
<1>7. IsWithinCard(row)
  BY <1>3, <1>4, <1>6 DEF IsWithinCard
<1> QED
  BY <1>1, <1>2, <1>5, <1>7, OperativeWriteSound

LEMMA ActivateSound ==
  ASSUME TypeOK, Sound(State), NEW id \in DOMAIN operatives, ActivateOperative(id)
  PROVE  Sound(State')
<1>1. PICK row, changes :
        /\ changes = [activated_in |-> game.turning_point]
        /\ row = Set(operatives[id], changes)
  OBVIOUS
<1>2. DOMAIN operatives[id] = DOMAIN OperativeColumns /\ IsWithinCard(operatives[id])
  BY DEF TypeOK, IsRow, Sound, State
<1>3. /\ row.card = operatives[id].card /\ row.wounds = operatives[id].wounds
      /\ row.current_wounds = operatives[id].current_wounds
  BY <1>1, <1>2 DEF Set, OperativeColumns
<1>4. IsWithinCard(row)
  BY <1>2, <1>3 DEF IsWithinCard
<1> QED
  BY <1>1, <1>4, OperativeWriteSound DEF ActivateOperative

LEMMA AddOperativeSound ==
  ASSUME TypeOK, Sound(State), NEW c, AddOperative(c)
  PROVE  Sound(State')
<1>1. PICK id, row, p :
        /\ id = NewId
        /\ row = NewOperative(c, p, game.turning_point)
        /\ operatives' = With(operatives, id, row)
  BY DEF AddOperative
<1>2. MaxWounds[c] \in Nat
  BY CardAssumption DEF AddOperative
<1>3. IsFunction(row)
  BY <1>1 DEF NewOperative, IsFunction
<1>4. IsWithinCard(row)
  BY <1>1, <1>2 DEF NewOperative, IsWithinCard
<1>5. IsFunction(operatives')
  BY <1>1 DEF With, IsFunction
<1>6. \A x \in DOMAIN operatives' : IsFunction(operatives'[x]) /\ IsWithinCard(operatives'[x])
  BY <1>1, <1>3, <1>4 DEF With, Sound, State
<1>7. game' = game /\ equipment' = equipment
  BY DEF AddOperative
<1> QED
  BY <1>5, <1>6, <1>7 DEF Sound, State

LEMMA RevealSound ==
  ASSUME TypeOK, Sound(State), NEW id \in DOMAIN equipment, RevealEquipment(id)
  PROVE  Sound(State')
<1>1. PICK row, changes :
        /\ changes = [revealed |-> TRUE]
        /\ row = Set(equipment[id], changes)
  OBVIOUS
<1>2. IsFunction(row)
  BY <1>1, SetBack DEF Sound, State
<1>3. row.piece = equipment[id].piece /\ row.position = equipment[id].position
  <2>1. DOMAIN equipment[id] = DOMAIN EquipmentColumns
    BY DEF TypeOK, IsRow
  <2> QED
    BY <1>1, <2>1 DEF Set, EquipmentColumns
<1>4. /\ equipment' = [equipment EXCEPT ![id] = row]
      /\ game' = game /\ operatives' = operatives
  BY <1>1 DEF RevealEquipment, WriteEquipment
<1>5. /\ IsFunction(equipment')
      /\ \A x \in DOMAIN equipment' : IsFunction(equipment'[x])
  BY <1>2, <1>4 DEF IsFunction, Sound, State
<1>6. \A x \in DOMAIN equipment : /\ equipment'[x].piece = equipment[x].piece
                                  /\ equipment'[x].position = equipment[x].position
  BY <1>3, <1>4
<1> QED
  BY <1>4, <1>5, <1>6 DEF Sound, State

(* A position above every other. *)
LEMMA NextPositionIsNew ==
  ASSUME TypeOK
  PROVE  \A x \in DOMAIN equipment : equipment[x].position # NextPosition(equipment)
<1>1. SUFFICES ASSUME NEW x \in DOMAIN equipment
               PROVE  equipment[x].position # NextPosition(equipment)
  OBVIOUS
<1> DEFINE positions == {equipment[y].position : y \in DOMAIN equipment}
<1>2. positions \subseteq Nat /\ positions # {} /\ equipment[x].position \in positions
  BY DEF TypeOK, IsRow, EquipmentColumns
<1>3. IsFiniteSet(positions)
  <2> DEFINE f == [y \in DOMAIN equipment |-> equipment[y].position]
  <2>1. f \in Surjection(DOMAIN equipment, positions)
    BY DEF Surjection
  <2> HIDE DEF f
  <2> QED
    BY <2>1, TablesAreFinite, FS_Surjection
<1>4. PICK highest : highest = Highest(positions)
  OBVIOUS
<1>5. highest \in positions /\ \A p \in positions : p <= highest
  BY <1>2, <1>3, <1>4, HighestIsMaximum
<1>6. NextPosition(equipment) = highest + 1
  BY <1>4 DEF NextPosition
<1> HIDE DEF positions
<1> QED
  BY <1>2, <1>5, <1>6

LEMMA AddEquipmentSound ==
  ASSUME TypeOK, Sound(State), NEW k, AddEquipment(k)
  PROVE  Sound(State')
<1>1. PICK id, row :
        /\ id = NewId
        /\ row = [piece |-> k, revealed |-> FALSE, position |-> NextPosition(equipment)]
        /\ equipment' = With(equipment, id, row)
  BY DEF AddEquipment
<1>2. id \notin DOMAIN equipment
  BY <1>1, IdsInUse
<1>3. IsFunction(row)
  BY <1>1 DEF IsFunction
<1>4. /\ IsFunction(equipment')
      /\ \A x \in DOMAIN equipment' : IsFunction(equipment'[x])
  BY <1>1, <1>3 DEF With, IsFunction, Sound, State
<1>5. \A x \in DOMAIN equipment : /\ equipment[x].piece # row.piece
                                  /\ equipment[x].position # row.position
  BY <1>1, NextPositionIsNew DEF AddEquipment, NotTaken
<1>6. \A x, y \in DOMAIN equipment' :
        x # y => /\ equipment'[x].piece # equipment'[y].piece
                 /\ equipment'[x].position # equipment'[y].position
  BY <1>1, <1>2, <1>5 DEF With, Sound, State
<1>7. game' = game /\ operatives' = operatives
  BY DEF AddEquipment
<1> QED
  BY <1>4, <1>6, <1>7 DEF Sound, State

LEMMA RemoveEquipmentSound ==
  ASSUME Sound(State), NEW id, RemoveEquipment(id)
  PROVE  Sound(State')
<1>1. /\ equipment' = Without(equipment, id)
      /\ game' = game /\ operatives' = operatives
  BY DEF RemoveEquipment
<1>2. IsFunction(equipment') /\ DOMAIN equipment' \subseteq DOMAIN equipment
  BY <1>1 DEF Without, IsFunction
<1>3. \A x \in DOMAIN equipment' : equipment'[x] = equipment[x]
  BY <1>1 DEF Without
<1> QED
  BY <1>1, <1>2, <1>3 DEF Sound, State

LEMMA PlaySound ==
  ASSUME TypeOK, Sound(State), Play
  PROVE  Sound(State')
<1>1. CASE UpdateGame
  BY <1>1, GameWriteSound DEF UpdateGame
<1>2. ASSUME NEW p \in Ploys, UsePloy(p) PROVE Sound(State')
  BY <1>2, GameWriteSound DEF UsePloy
<1>3. CASE Advance
  BY <1>3, GameWriteSound DEF Advance
<1>4. ASSUME NEW c \in Cards, AddOperative(c) PROVE Sound(State')
  BY <1>4, AddOperativeSound
<1>5. ASSUME NEW id \in DOMAIN operatives, NEW c \in Cards, TransformOperative(id, c)
      PROVE  Sound(State')
  BY <1>5, TransformSound
<1>6. ASSUME NEW id \in DOMAIN operatives, UpdateOperative(id) PROVE Sound(State')
  BY <1>6, UpdateOperativeSound
<1>7. ASSUME NEW id \in DOMAIN operatives, ActivateOperative(id) PROVE Sound(State')
  BY <1>7, ActivateSound
<1>8. ASSUME NEW k \in Kit, AddEquipment(k) PROVE Sound(State')
  BY <1>8, AddEquipmentSound
<1>9. ASSUME NEW id \in DOMAIN equipment, RevealEquipment(id) PROVE Sound(State')
  BY <1>9, RevealSound
<1>10. ASSUME NEW id \in DOMAIN equipment, RemoveEquipment(id) PROVE Sound(State')
  BY <1>10, RemoveEquipmentSound
<1> QED
  BY <1>1, <1>2, <1>3, <1>4, <1>5, <1>6, <1>7, <1>8, <1>9, <1>10 DEF Play

-----------------------------------------------------------------------------
(* The inductive invariant *)

(* The standing event after i, if i is not the newest. *)
Follows(j, i) ==
  /\ i \in Standing /\ j \in Standing /\ i < j
  /\ \A k \in Standing : ~(i < k /\ k < j)

(* Each event that stands takes the state it left back to the one it found. *)
Chain ==
  /\ DOMAIN past = Standing
  /\ IsFunction(past)
  /\ \A i \in Standing : IsNewest(i) => Restores(State, events[i], past[i])
  /\ \A i, j \in Standing : Follows(j, i) => Restores(past[j], events[i], past[i])

(* Nothing is written on a finished game, and it was finished by a write   *)
(* of its own row.                                                         *)
Open ==
  /\ \A i \in Standing : past[i].game.status # "finished"
  /\ game.status = "finished" =>
       /\ Standing # {}
       /\ \A i \in Standing :
            IsNewest(i) => events[i].op = "fields" /\ events[i].target = None

AllSound == Sound(State) /\ \A i \in Standing : Sound(past[i])

HInv == TypeOK /\ Chain /\ Open /\ AllSound

LEMMA InitInv ==
  ASSUME HInit
  PROVE  HInv
<1>1. TypeOK
  BY InitTyped DEF HInit
<1>2. Standing = {} /\ DOMAIN past = {} /\ IsFunction(past)
  <2>1. events = <<>> /\ past = <<>>
    BY DEF HInit, Init
  <2> QED
    BY <2>1 DEF Standing, IsFunction
<1>3. Chain
  BY <1>2 DEF Chain
<1>4. Open
  BY <1>2 DEF Open, HInit, Init, NewGame
<1>5. Sound(State)
  <2>1. IsFunction(game)
    BY DEF HInit, Init, NewGame, IsFunction
  <2>2. DOMAIN equipment = {} /\ IsFunction(equipment)
    BY DEF HInit, Init, IsFunction
  <2>3. IsFunction(operatives)
    BY DEF HInit, Init, IsFunction
  <2>4. ASSUME NEW id \in DOMAIN operatives
        PROVE  IsFunction(operatives[id]) /\ IsWithinCard(operatives[id])
    <3>1. id \in 1..Len(Roster)
      BY DEF HInit, Init
    <3>2. PICK c, p : c = Roster[id].card /\ p = Roster[id].position
      OBVIOUS
    <3>3. c \in Cards /\ MaxWounds[c] \in Nat
      <4>1. PICK rows : rows = [card : TeamCards, position : Nat]
        OBVIOUS
      <4>2. Roster \in Seq(rows)
        BY <4>1, CardAssumption
      <4>3. Roster[id] \in rows
        BY <3>1, <4>2
      <4>4. c \in TeamCards
        BY <3>2, <4>1, <4>3
      <4> QED
        BY <4>4, CardAssumption
    <3>4. PICK row : row = NewOperative(c, p, None)
      OBVIOUS
    <3>5. IsFunction(row)
      BY <3>4 DEF NewOperative, IsFunction
    <3>6. IsWithinCard(row)
      BY <3>3, <3>4 DEF NewOperative, IsWithinCard
    <3>7. operatives[id] = row
      BY <3>1, <3>2, <3>4 DEF HInit, Init
    <3> QED
      BY <3>5, <3>6, <3>7
  <2> QED
    BY <2>1, <2>2, <2>3, <2>4 DEF Sound, State
<1> QED
  BY <1>1, <1>2, <1>3, <1>4, <1>5 DEF HInv, AllSound

(* What a write does to what stands. *)
LEMMA PlayStands ==
  ASSUME TypeOK, Play
  PROVE  /\ NextSequence \notin Standing
         /\ \A i \in Standing : i \in Nat /\ i < NextSequence
         /\ NextSequence \in Nat
         /\ Standing' = Standing \cup {NextSequence}
         /\ \A i \in Standing : events'[i] = events[i]
<1>1. NextSequence = version /\ version \in Nat /\ DOMAIN events = 1..(version - 1)
  BY NextSequenceIsVersion DEF TypeOK
<1>2. PICK e : Appends(e) /\ e.type # "undone" /\ e.undone_by = None
  BY PlayAppends DEF AppendsStanding
<1> QED
  BY <1>1, <1>2 DEF Appends, Standing

(* What an undo does to it. *)
LEMMA UndoStands ==
  ASSUME TypeOK, Undo, NEW i, IsNewest(i), UndoesStanding(i)
  PROVE  /\ Standing' = Standing \ {i}
         /\ \A k \in Standing' : events'[k] = events[k]
         /\ \A k \in Standing : k \in Nat /\ (k # i => k < i)
         /\ Highest(Standing) = i
<1>1. NextSequence = version /\ version \in Nat /\ DOMAIN events = 1..(version - 1)
  BY NextSequenceIsVersion DEF TypeOK
<1>2. PICK n : n = NextSequence
  OBVIOUS
<1>3. /\ i \in DOMAIN events /\ n \notin DOMAIN events /\ n # None
      /\ DOMAIN events' = DOMAIN events \cup {n}
      /\ events'[n].type = "undone"
      /\ events'[i] = [events[i] EXCEPT !.undone_by = n]
      /\ \A k \in DOMAIN events \ {i} : events'[k] = events[k]
  BY <1>1, <1>2, NoneAssumption DEF UndoesStanding
<1>4. events'[i].undone_by = n
  BY <1>3 DEF TypeOK, IsEvent
<1>5. Standing' = Standing \ {i}
  BY <1>3, <1>4 DEF Standing
<1>6. \A k \in Standing : k \in Nat /\ k <= i
  BY <1>1 DEF IsNewest, Standing
<1>7. Highest(Standing) = i
  <2>1. i \in Standing /\ \A k \in Standing : k <= i
    BY DEF IsNewest
  <2> QED
    BY <1>6, <2>1 DEF Highest
<1>8. \A k \in Standing' : events'[k] = events[k]
  BY <1>3, <1>5 DEF Standing
<1>9. i \in Nat
  BY <1>6 DEF IsNewest
<1>10. \A k \in Standing : k \in Nat /\ (k # i => k < i)
  BY <1>6, <1>9
<1> QED
  BY <1>5, <1>7, <1>8, <1>10

(* Nothing but undo moves a finished game, and only a write of its own row *)
(* finishes it.                                                            *)
LEMMA PlayIsOnOpen ==
  ASSUME TypeOK, Play
  PROVE  /\ game.status # "finished"
         /\ \/ game' = game
            \/ events'[NextSequence].op = "fields" /\ events'[NextSequence].target = None
<1> DEFINE Goal == /\ game.status # "finished"
                   /\ \/ game' = game
                      \/ events'[NextSequence].op = "fields" /\ events'[NextSequence].target = None
<1>1. ASSUME NEW type, NEW changes, WriteGame(type, changes)
      PROVE  events'[NextSequence].op = "fields" /\ events'[NextSequence].target = None
  BY <1>1, WriteLeaves DEF WriteGame
<1>2. CASE UpdateGame
  BY <1>1, <1>2 DEF UpdateGame, RequireOpen
<1>3. ASSUME NEW p \in Ploys, UsePloy(p) PROVE Goal
  BY <1>1, <1>3 DEF UsePloy, RequireOpen
<1>4. CASE Advance
  BY <1>1, <1>4 DEF Advance
<1>5. ASSUME NEW c \in Cards, AddOperative(c) PROVE Goal
  BY <1>5 DEF AddOperative, RequireOpen
<1>6. ASSUME NEW id \in DOMAIN operatives, NEW c \in Cards, TransformOperative(id, c)
      PROVE  Goal
  BY <1>6 DEF TransformOperative, RequireOpen, WriteOperative
<1>7. ASSUME NEW id \in DOMAIN operatives, UpdateOperative(id) PROVE Goal
  BY <1>7 DEF UpdateOperative, RequireOpen, WriteOperative
<1>8. ASSUME NEW id \in DOMAIN operatives, ActivateOperative(id) PROVE Goal
  BY <1>8 DEF ActivateOperative, RequireOpen, WriteOperative
<1>9. ASSUME NEW k \in Kit, AddEquipment(k) PROVE Goal
  BY <1>9 DEF AddEquipment, RequireOpen
<1>10. ASSUME NEW id \in DOMAIN equipment, RevealEquipment(id) PROVE Goal
  BY <1>10 DEF RevealEquipment, RequireOpen, WriteEquipment
<1>11. ASSUME NEW id \in DOMAIN equipment, RemoveEquipment(id) PROVE Goal
  BY <1>11 DEF RemoveEquipment, RequireOpen
<1> QED
  BY <1>2, <1>3, <1>4, <1>5, <1>6, <1>7, <1>8, <1>9, <1>10, <1>11 DEF Play

(* A write adds a link at the end of the chain. *)
LEMMA PlayInv ==
  ASSUME HInv, HPlay
  PROVE  HInv'
<1>1. TypeOK /\ Sound(State) /\ Play
  BY DEF HInv, AllSound, HPlay
<1>2. TypeOK'
  BY <1>1, NextTyped DEF Next
<1>3. PICK n : n = NextSequence
  OBVIOUS
<1>4. /\ n \notin Standing /\ n \in Nat
      /\ \A i \in Standing : i \in Nat /\ i < n
      /\ Standing' = Standing \cup {n}
      /\ \A i \in Standing : events'[i] = events[i]
  BY <1>1, <1>3, PlayStands
<1>5. Restores(State', events'[n], State) /\ Sound(State')
  BY <1>1, <1>3, PlayRestores, PlaySound
<1>6. /\ game.status # "finished"
      /\ game' = game \/ (events'[n].op = "fields" /\ events'[n].target = None)
  BY <1>1, <1>3, PlayIsOnOpen
<1>7. /\ DOMAIN past' = Standing' /\ IsFunction(past')
      /\ past'[n] = State
      /\ \A i \in Standing : past'[i] = past[i]
  <2>1. DOMAIN past = Standing
    BY DEF HInv, Chain
  <2>2. past' = With(past, n, State)
    BY <1>3 DEF HPlay
  <2> QED
    BY <1>4, <2>1, <2>2 DEF With, IsFunction
<1>8. \A i \in Standing' : IsNewest(i)' => i = n
  BY <1>4 DEF IsNewest
<1>9. ASSUME NEW i \in Standing', NEW j \in Standing', Follows(j, i)'
      PROVE  Restores(past'[j], events'[i], past'[i])
  <2>1. i \in Standing
    BY <1>4, <1>9 DEF Follows
  <2>2. CASE j = n
    <3>1. IsNewest(i)
      BY <1>4, <1>9, <2>1, <2>2 DEF Follows, IsNewest
    <3>2. Restores(State, events[i], past[i])
      BY <2>1, <3>1 DEF HInv, Chain
    <3> QED
      BY <1>4, <1>7, <2>1, <2>2, <3>2
  <2>3. CASE j # n
    <3>1. j \in Standing
      BY <1>4, <2>3
    <3>2. Follows(j, i)
      BY <1>4, <1>9, <2>1, <3>1 DEF Follows
    <3>3. Restores(past[j], events[i], past[i])
      BY <2>1, <3>1, <3>2 DEF HInv, Chain
    <3> QED
      BY <1>4, <1>7, <2>1, <3>1, <3>3
  <2> QED
    BY <2>2, <2>3
<1>10. Chain'
  BY <1>5, <1>7, <1>8, <1>9 DEF Chain
<1>11. Open'
  <2>1. \A i \in Standing' : past'[i].game.status # "finished"
    BY <1>4, <1>6, <1>7 DEF HInv, Open, State
  <2> QED
    BY <1>4, <1>6, <1>8, <2>1 DEF Open
<1>12. AllSound'
  BY <1>1, <1>4, <1>5, <1>7 DEF HInv, AllSound
<1> QED
  BY <1>2, <1>10, <1>11, <1>12 DEF HInv

(* Undo returns to the state its event found, and leaves the chain that    *)
(* led to it.                                                              *)
LEMMA UndoReturns ==
  ASSUME HInv, HUndo
  PROVE  \E i : /\ IsNewest(i) /\ UndoesStanding(i)
                /\ State' = past[i]
                /\ past' = Without(past, i)
<1>1. TypeOK /\ Undo
  BY DEF HInv, HUndo
<1>2. PICK i : IsNewest(i) /\ UndoesStanding(i)
  BY <1>1, UndoMarks
<1>3. PICK j \in DOMAIN events :
        /\ IsNewest(j)
        /\ game' = Revert(State, events[j]).game
        /\ operatives' = Revert(State, events[j]).operatives
        /\ equipment' = Revert(State, events[j]).equipment
  BY <1>1 DEF Undo
<1>4. /\ \A k \in Standing : k \in Nat /\ (k # i => k < i)
      /\ Highest(Standing) = i
  BY <1>1, <1>2, UndoStands
<1>5. j = i
  BY <1>2, <1>3, <1>4 DEF IsNewest
<1>6. Revert(State, events[i]) = past[i]
  BY <1>2 DEF HInv, Chain, Restores, IsNewest
<1>7. past[i] = [game |-> past[i].game, operatives |-> past[i].operatives,
                 equipment |-> past[i].equipment]
  <2>1. \E g, o, q : past[i] = [game |-> g, operatives |-> o, equipment |-> q]
    BY <1>6 DEF Revert
  <2> QED
    BY <2>1
<1>8. State' = past[i]
  BY <1>3, <1>5, <1>6, <1>7 DEF State
<1> QED
  BY <1>2, <1>4, <1>8 DEF HUndo

LEMMA UndoInv ==
  ASSUME HInv, HUndo
  PROVE  HInv'
<1>1. TypeOK /\ Undo
  BY DEF HInv, HUndo
<1>2. TypeOK'
  BY <1>1, NextTyped DEF Next
<1>3. PICK i : /\ IsNewest(i) /\ UndoesStanding(i)
               /\ State' = past[i]
               /\ past' = Without(past, i)
  BY UndoReturns
<1>4. /\ Standing' = Standing \ {i}
      /\ \A k \in Standing' : events'[k] = events[k]
      /\ \A k \in Standing : k \in Nat /\ (k # i => k < i)
      /\ i \in Standing
  BY <1>1, <1>3, UndoStands DEF IsNewest
<1>5. /\ DOMAIN past' = Standing' /\ IsFunction(past')
      /\ \A k \in Standing' : past'[k] = past[k]
  <2>1. DOMAIN past = Standing
    BY DEF HInv, Chain
  <2> QED
    BY <1>3, <1>4, <2>1 DEF Without, IsFunction
<1>6. ASSUME NEW k \in Standing', IsNewest(k)'
      PROVE  Restores(State', events'[k], past'[k])
  <2>1. Follows(i, k)
    BY <1>4, <1>6 DEF Follows, IsNewest
  <2>2. Restores(past[i], events[k], past[k])
    BY <1>4, <2>1 DEF HInv, Chain
  <2> QED
    BY <1>3, <1>4, <1>5, <2>2
<1>7. ASSUME NEW k \in Standing', NEW j \in Standing', Follows(j, k)'
      PROVE  Restores(past'[j], events'[k], past'[k])
  <2>1. Follows(j, k)
    BY <1>4, <1>7 DEF Follows
  <2>2. Restores(past[j], events[k], past[k])
    BY <1>4, <2>1 DEF HInv, Chain
  <2> QED
    BY <1>4, <1>5, <2>2
<1>8. Chain'
  BY <1>5, <1>6, <1>7 DEF Chain
<1>9. game'.status # "finished"
  <2>1. past[i].game.status # "finished"
    BY <1>4 DEF HInv, Open
  <2> QED
    BY <1>3, <2>1 DEF State
<1>10. Open'
  BY <1>4, <1>5, <1>9 DEF HInv, Open
<1>11. AllSound'
  BY <1>3, <1>4, <1>5 DEF HInv, AllSound
<1> QED
  BY <1>2, <1>8, <1>10, <1>11 DEF HInv

LEMMA StutterInv ==
  ASSUME HInv, UNCHANGED <<vars, past>>
  PROVE  HInv'
<1>1. /\ game' = game /\ version' = version /\ operatives' = operatives
      /\ equipment' = equipment /\ events' = events /\ past' = past
  BY DEF vars
<1>2. TypeOK'
  BY NextTyped DEF HInv, vars
<1>3. Standing' = Standing /\ State' = State
  BY <1>1 DEF Standing, State
<1>4. Chain' /\ Open' /\ AllSound'
  BY <1>1, <1>3 DEF HInv, Chain, Open, AllSound, IsNewest, Follows
<1> QED
  BY <1>2, <1>4 DEF HInv

(* Every reachable state satisfies the invariant: the chain of states the  *)
(* log leads back through is whole.                                        *)
THEOREM ChainIsWhole == HSpec => []HInv
<1>1. HInit => HInv
  BY InitInv
<1>2. HInv /\ [HNext]_<<vars, past>> => HInv'
  BY PlayInv, UndoInv, StutterInv DEF HNext
<1> QED
  BY <1>1, <1>2, PTL DEF HSpec

-----------------------------------------------------------------------------
(* KTGame implements UndoStack *)

(* A field that moves leaves another row. *)
LEMMA SetMoves ==
  ASSUME NEW row, NEW changes, DOMAIN changes \subseteq DOMAIN row,
         ~NothingMoved(Before(row, changes))
  PROVE  Set(row, changes) # row
<1>1. PICK f \in DOMAIN changes : row[f] # changes[f]
  BY DEF NothingMoved, Before
<1>2. Set(row, changes)[f] = changes[f]
  BY <1>1 DEF Set
<1> QED
  BY <1>1, <1>2

(* Every write, not only those that move the game's row, leaves a state    *)
(* other than the one it found, so an undo of it shows.                    *)
LEMMA PlayMoves ==
  ASSUME TypeOK, Play
  PROVE  State' # State
<1> DEFINE Touched == game' # game \/ operatives' # operatives \/ equipment' # equipment
<1>1. DOMAIN game = DOMAIN GameColumns
  BY DEF TypeOK, IsRow
<1>2. \A id \in DOMAIN operatives : DOMAIN operatives[id] = DOMAIN OperativeColumns
  BY DEF TypeOK, IsRow
<1>3. \A id \in DOMAIN equipment : DOMAIN equipment[id] = DOMAIN EquipmentColumns
  BY DEF TypeOK, IsRow
<1>4. ASSUME NEW type, NEW changes, DOMAIN changes \subseteq DOMAIN GameColumns,
             WriteGame(type, changes)
      PROVE  Touched
  BY <1>1, <1>4, SetMoves DEF WriteGame
<1>5. ASSUME NEW type, NEW id \in DOMAIN operatives, NEW changes,
             DOMAIN changes \subseteq DOMAIN OperativeColumns,
             WriteOperative(type, id, changes)
      PROVE  Touched
  <2>1. Set(operatives[id], changes) # operatives[id]
    BY <1>2, <1>5, SetMoves DEF WriteOperative
  <2>2. operatives'[id] = Set(operatives[id], changes)
    BY <1>5 DEF WriteOperative
  <2> QED
    BY <2>1, <2>2
<1>6. ASSUME UpdateGame PROVE Touched
  BY <1>4, <1>6 DEF UpdateGame, GameColumns
<1>7. ASSUME NEW p \in Ploys, UsePloy(p) PROVE Touched
  BY <1>4, <1>7 DEF UsePloy, GameColumns
<1>8. ASSUME Advance PROVE Touched
  <2>1. DOMAIN Moved \subseteq DOMAIN GameColumns
    BY DEF Moved, GameColumns
  <2> QED
    BY <1>4, <1>8, <2>1 DEF Advance
<1>9. ASSUME NEW c \in Cards, AddOperative(c) PROVE Touched
  <2>1. NewId \in DOMAIN operatives'
    BY <1>9 DEF AddOperative, With
  <2> QED
    BY <2>1, IdsInUse
<1>10. ASSUME NEW id \in DOMAIN operatives, NEW c \in Cards, TransformOperative(id, c)
       PROVE  Touched
  BY <1>5, <1>10 DEF TransformOperative, OperativeColumns
<1>11. ASSUME NEW id \in DOMAIN operatives, UpdateOperative(id) PROVE Touched
  BY <1>5, <1>11 DEF UpdateOperative, OperativeColumns
<1>12. ASSUME NEW id \in DOMAIN operatives, ActivateOperative(id) PROVE Touched
  BY <1>5, <1>12 DEF ActivateOperative, OperativeColumns
<1>13. ASSUME NEW k \in Kit, AddEquipment(k) PROVE Touched
  <2>1. NewId \in DOMAIN equipment'
    BY <1>13 DEF AddEquipment, With
  <2> QED
    BY <2>1, IdsInUse
<1>14. ASSUME NEW id \in DOMAIN equipment, RevealEquipment(id) PROVE Touched
  <2>1. Set(equipment[id], [revealed |-> TRUE]) # equipment[id]
    BY <1>3, <1>14, SetMoves DEF RevealEquipment, WriteEquipment, EquipmentColumns
  <2>2. equipment'[id] = Set(equipment[id], [revealed |-> TRUE])
    BY <1>14 DEF RevealEquipment, WriteEquipment
  <2> QED
    BY <2>1, <2>2
<1>15. ASSUME NEW id \in DOMAIN equipment, RemoveEquipment(id) PROVE Touched
  <2>1. id \notin DOMAIN equipment'
    BY <1>15 DEF RemoveEquipment, Without
  <2> QED
    BY <2>1
<1> HIDE DEF Touched
<1>16. Touched
  BY <1>6, <1>7, <1>8, <1>9, <1>10, <1>11, <1>12, <1>13, <1>14, <1>15 DEF Play
<1> QED
  BY <1>16 DEF State, Touched

LEMMA PlayIsDo ==
  ASSUME HInv, HPlay
  PROVE  Abstract!Do
<1>1. PICK n : n = NextSequence
  OBVIOUS
<1>2. past' = With(past, n, State)
  BY <1>1 DEF HPlay
<1>3. DOMAIN past = Standing
  BY DEF HInv, Chain
<1>4. \A m \in DOMAIN past : m < n
  BY <1>1, <1>3, PlayStands DEF HInv, HPlay
<1>5. State' # State
  BY PlayMoves DEF HInv, HPlay
<1>6. n \in DOMAIN past'
  BY <1>2 DEF With
<1> QED
  BY <1>2, <1>4, <1>5, <1>6 DEF Abstract!Do, With

LEMMA UndoIsUndo ==
  ASSUME HInv, HUndo
  PROVE  Abstract!Undo
<1>1. PICK i : /\ IsNewest(i) /\ UndoesStanding(i)
               /\ State' = past[i] /\ past' = Without(past, i)
  BY UndoReturns
<1>2. DOMAIN past = Standing
  BY DEF HInv, Chain
<1> QED
  BY <1>1, <1>2 DEF Abstract!Undo, IsNewest, Without

(* KTGameService.undo restores exactly the state the newest standing event *)
(* found: the battle is a stack of states, pushed by every write and       *)
(* popped by undo.                                                         *)
THEOREM UndoIsExact == HSpec => UndoRestores
<1>1. HInit => Abstract!Init
  BY DEF HInit, Abstract!Init
<1>2. HInv /\ [HNext]_<<vars, past>> => [Abstract!Next]_<<State, past>>
  <2>1. SUFFICES ASSUME HInv, [HNext]_<<vars, past>>
                 PROVE  [Abstract!Next]_<<State, past>>
    OBVIOUS
  <2>2. CASE HPlay
    BY <2>1, <2>2, PlayIsDo DEF Abstract!Next
  <2>3. CASE HUndo
    BY <2>1, <2>3, UndoIsUndo DEF Abstract!Next
  <2>4. CASE UNCHANGED <<vars, past>>
    BY <2>4 DEF vars, State
  <2> QED
    BY <2>1, <2>2, <2>3, <2>4 DEF HNext
<1> QED
  BY <1>1, <1>2, ChainIsWhole, PTL DEF HSpec, UndoRestores, Abstract!Spec

-----------------------------------------------------------------------------
(* What the chain gives *)

(* undo never answers that a row is gone, nor recreates one onto another.  *)
THEOREM UndoIsNeverStuck == HSpec => []UndoNeverStuck
<1>1. HInv => UndoNeverStuck
  BY DEF HInv, Chain, Restores, UndoNeverStuck, IsNewest
<1> QED
  BY <1>1, ChainIsWhole, PTL

(* No operative has more wounds left than its card shows, through every    *)
(* transform and every undo of one.                                        *)
THEOREM WoundsAreWithinCard == HSpec => []WoundsWithinCard
<1>1. HInv => WoundsWithinCard
  BY DEF HInv, AllSound, Sound, State, IsWithinCard, WoundsWithinCard
<1> QED
  BY <1>1, ChainIsWhole, PTL

(* No piece is in play twice and no two share a place, through every       *)
(* removal and every undo of one.                                          *)
THEOREM EquipmentIsTakenOnce == HSpec => []EquipmentTakenOnce
<1>1. HInv => EquipmentTakenOnce
  BY DEF HInv, AllSound, Sound, State, EquipmentTakenOnce
<1> QED
  BY <1>1, ChainIsWhole, PTL

(* A finished game is one undo away from being open again.                 *)
THEOREM FinishedCanReopen == HSpec => []FinishedReopens
<1>1. ASSUME HInv, game.status = "finished" PROVE
        \E i \in DOMAIN events :
          IsNewest(i) /\ Revert(State, events[i]).game.status # "finished"
  <2>1. Standing # {} /\ Standing \subseteq Nat /\ IsFiniteSet(Standing)
    <3>1. Standing # {}
      BY <1>1 DEF HInv, Open
    <3>2. DOMAIN events = 1..(version - 1) /\ version \in Nat
      BY <1>1 DEF HInv, TypeOK
    <3>3. Standing \subseteq 1..(version - 1)
      BY <3>2 DEF Standing
    <3>4. IsFiniteSet(1..(version - 1))
      BY <3>2, FS_Interval
    <3>5. 1..(version - 1) \subseteq Nat
      BY <3>2
    <3>6. IsFiniteSet(Standing)
      BY <3>3, <3>4, FS_Subset
    <3> QED
      BY <3>1, <3>3, <3>5, <3>6
  <2>2. PICK i \in Standing : \A m \in Standing : m <= i
    BY <2>1, HighestIsMaximum
  <2>3. IsNewest(i) /\ i \in DOMAIN events
    BY <2>2 DEF IsNewest, Standing
  <2>4. Revert(State, events[i]) = past[i] /\ past[i].game.status # "finished"
    BY <1>1, <2>3 DEF HInv, Chain, Restores, Open
  <2> QED
    BY <2>3, <2>4
<1>2. HInv => FinishedReopens
  BY <1>1 DEF FinishedReopens
<1> QED
  BY <1>2, ChainIsWhole, PTL

(* A finished game moves only by the undo that reopens it, and that undo   *)
(* touches no operative and no equipment.                                  *)
THEOREM FinishedStaysFrozen == HSpec => FinishedIsFrozen
<1> DEFINE Frozen == game.status = "finished" =>
             /\ events'[NextSequence].type = "undone"
             /\ game'.status # "finished"
             /\ UNCHANGED <<operatives, equipment>>
<1>1. ASSUME HInv, HPlay PROVE Frozen
  BY <1>1, PlayIsOnOpen DEF HInv, HPlay
<1>2. ASSUME HInv, HUndo, game.status = "finished"
      PROVE  /\ events'[NextSequence].type = "undone"
             /\ game'.status # "finished"
             /\ UNCHANGED <<operatives, equipment>>
  <2>1. PICK i : /\ IsNewest(i) /\ UndoesStanding(i)
                 /\ State' = past[i] /\ past' = Without(past, i)
    BY <1>2, UndoReturns
  <2>2. i \in Standing
    BY <2>1 DEF IsNewest
  <2>3. /\ past[i].game.status # "finished"
        /\ events[i].op = "fields" /\ events[i].target = None
        /\ Revert(State, events[i]) = past[i]
    BY <1>2, <2>1, <2>2 DEF HInv, Open, Chain, Restores
  <2>4. None \notin DOMAIN operatives
    BY <1>2, IdsInUse DEF HInv
  <2>5. past[i].operatives = operatives /\ past[i].equipment = equipment
    BY <2>3, <2>4 DEF Revert, State
  <2> QED
    BY <2>1, <2>3, <2>5 DEF UndoesStanding, State
<1>3. HInv /\ [HNext]_<<vars, past>> => [Frozen]_vars
  BY <1>1, <1>2 DEF HNext
<1> QED
  BY <1>3, ChainIsWhole, PTL DEF HSpec, FinishedIsFrozen

=============================================================================
