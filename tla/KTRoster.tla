------------------------------ MODULE KTRoster ------------------------------
(***************************************************************************)
(* A player's rosters, the operatives on them and the games played from    *)
(* them, written by requests that run at the same time.  Each request is a *)
(* transaction under READ COMMITTED: it loads the roster, looks at what    *)
(* its check is about, writes, and commits.  Rosters have no version: what *)
(* is left to keep them right is the constraints of the tables.            *)
(***************************************************************************)
EXTENDS Integers, Sequences, FiniteSetsExt, SequencesExt

CONSTANTS
  Requests,   \* also the ids of the rows they create
  Jobs,       \* [kind, owner, roster, name, note, card, row, position]
  Databases,  \* what there is to begin with: [rosters, rows, games]
  Cards,      \* KTOperative rows, of every kill team
  Fieldable,  \* those of the team the rosters are for, not withdrawn
  Rank,       \* a number for each row's id: ids are random, and fixed
  None

VARIABLES
  db,  \* what is committed: functions from ids to rows, of kt_rosters,
       \* kt_roster_operatives and kt_games
  tx,  \* [Requests -> transaction]
  job  \* [Requests -> Jobs]: never changes

vars == <<db, tx, job>>

(* Tables hold rows of their columns. *)
Columns == {"owner", "name", "note"}

Typed(d) ==
  /\ DOMAIN d = {"rosters", "rows", "games"}
  /\ \A x \in DOMAIN d.rosters : DOMAIN d.rosters[x] = Columns
  /\ IsFiniteSet(DOMAIN d.rows)
  /\ \A i \in DOMAIN d.rows :
       /\ DOMAIN d.rows[i] = {"roster", "card", "position"}
       /\ d.rows[i].card \in Cards /\ d.rows[i].position \in Nat

NamesDiffer(d) ==
  \A x, y \in DOMAIN d.rosters :
    x # y => <<d.rosters[x].owner, d.rosters[x].name>> # <<d.rosters[y].owner, d.rosters[y].name>>

Resolved(d) ==
  /\ \A g \in DOMAIN d.games : d.games[g].roster \in DOMAIN d.rosters
  /\ \A i \in DOMAIN d.rows : d.rows[i].roster \in DOMAIN d.rosters

(* The constraints of the tables hold of what is there to begin with, and  *)
(* an id is given once.                                                    *)
ASSUME DatabasesAssumption ==
  \A d \in Databases :
    /\ Typed(d) /\ NamesDiffer(d) /\ Resolved(d)
    /\ Requests \cap (DOMAIN d.rosters \cup DOMAIN d.rows \cup DOMAIN d.games) = {}
    /\ None \notin DOMAIN d.rosters

ASSUME IdsAssumption == None \notin Requests /\ Fieldable \subseteq Cards

ASSUME JobsAssumption ==
  \A j \in Jobs :
    /\ j.kind \in {"create", "update", "delete", "add", "move", "remove", "play"}
    /\ j.kind = "move" => j.position \in Int

-----------------------------------------------------------------------------
With(f, x, y) == [z \in DOMAIN f \cup {x} |-> IF z = x THEN y ELSE f[z]]
Without(f, S) == [z \in DOMAIN f \ S |-> f[z]]

RowsOf(d, x) == {i \in DOMAIN d.rows : d.rows[i].roster = x}
GamesOf(d, x) == {g \in DOMAIN d.games : d.games[g].roster = x}

(* _require_name_free, and what uq_kt_roster_owner_name refuses.           *)
NameFree(owner, name, except) ==
  \A x \in DOMAIN db.rosters \ {except} :
    <<db.rosters[x].owner, db.rosters[x].name>> # <<owner, name>>

Free_Unconstrained(owner, name, except) == TRUE

Free(owner, name, except) == NameFree(owner, name, except)

NextPosition(x) ==
  IF RowsOf(db, x) = {} THEN 0 ELSE Max({db.rows[i].position : i \in RowsOf(db, x)}) + 1

(* The fields of a roster that a PATCH moves: those it sends, where they   *)
(* differ from the roster as it was loaded.                                *)
Sent(j) == {f \in {"name", "note"} : j[f] # None}

Moved(r) == {f \in Sent(job[r]) : job[r][f] # tx[r].loaded[f]}

-----------------------------------------------------------------------------
(* Locks.  A foreign key shares the key of the row it names, which only a  *)
(* deletion or a rename of that row excludes.  A unique name is held by    *)
(* whoever takes it and whoever gives it up.                               *)

Lock(what, which) == <<what, which>>

NameLocks(r) ==
  LET j == job[r] IN
  CASE j.kind = "create" -> {Lock("name", <<j.owner, j.name>>)}
    [] j.kind = "update" /\ "name" \in Moved(r) ->
         {Lock("name", <<j.owner, n>>) : n \in {j.name, tx[r].loaded.name}}
    [] j.kind = "delete" -> {Lock("name", <<j.owner, tx[r].loaded.name>>)}
    [] OTHER -> {}

(* The rows loaded with the roster are deleted one by one, and those that  *)
(* came later by the foreign key's ON DELETE CASCADE.                      *)
Orphans_Loaded(r) == tx[r].rows

Orphans(r) == RowsOf(db, job[r].roster)

(* The locks the next statement of a request takes; the one that deletes   *)
(* the roster takes those of the rows it cascades to.                      *)
Needs(r) ==
  LET j == job[r]
      last == tx[r].doomed = <<>>
  IN CASE j.kind = "create" -> NameLocks(r)
       [] j.kind = "update" ->
            {Lock("roster", j.roster)} \cup NameLocks(r)
            \cup {Lock("key", j.roster) : f \in Moved(r) \cap {"name"}}
       [] j.kind = "delete" /\ ~last -> {Lock("row", Head(tx[r].doomed))}
       [] j.kind = "delete" /\ last ->
            {Lock("roster", j.roster), Lock("key", j.roster)} \cup NameLocks(r)
            \cup {Lock("row", i) : i \in Orphans(r)}
       [] j.kind \in {"move", "remove"} -> {Lock("row", j.row)}
       [] OTHER -> {}

Shares(r) == {Lock("key", x) : x \in {job[r].roster : k \in {job[r].kind} \cap {"add", "play"}}}

Unblocked_Unshared(r) ==
  \A q \in Requests \ {r} : Needs(r) \cap tx[q].locks = {}

Unblocked(r) ==
  \A q \in Requests \ {r} :
    /\ Needs(r) \cap (tx[q].locks \cup tx[q].shares) = {}
    /\ Shares(r) \cap tx[q].locks = {}

(* Whether the next statement breaks no constraint, and an UPDATE matches  *)
(* its row.  A DELETE that matches none is let be.                         *)
Played_OrAdded(x) == GamesOf(db, x) # {} \/ RowsOf(db, x) \cap Requests # {}

Played(x) == GamesOf(db, x) # {}

Succeeds(r) ==
  LET j == job[r] IN
  CASE j.kind = "create" -> Free(j.owner, j.name, None)
    [] j.kind = "update" ->
         /\ j.roster \in DOMAIN db.rosters
         /\ "name" \in Moved(r) => Free(j.owner, j.name, j.roster)
    [] j.kind = "delete" -> tx[r].doomed = <<>> => ~Played(j.roster)
    [] j.kind \in {"add", "play"} -> j.roster \in DOMAIN db.rosters
    [] j.kind = "move" -> j.row \in DOMAIN db.rows
    [] OTHER -> TRUE

-----------------------------------------------------------------------------
(* What a committed request has done *)

Set_WholeRow(r) ==
  [f \in Columns |-> IF f \in Sent(job[r]) THEN job[r][f] ELSE tx[r].loaded[f]]

(* Only the columns that moved are in the UPDATE.                          *)
Set(r) ==
  [f \in Columns |->
     IF f \in Moved(r) THEN job[r][f] ELSE db.rosters[job[r].roster][f]]

Result(r) ==
  LET j == job[r] IN
  CASE j.kind = "create" ->
         [db EXCEPT !.rosters = With(@, r, [owner |-> j.owner, name |-> j.name, note |-> j.note])]
    [] j.kind = "update" -> [db EXCEPT !.rosters = With(@, j.roster, Set(r))]
    [] j.kind = "delete" ->
         [db EXCEPT !.rosters = Without(@, {j.roster}), !.rows = Without(@, Orphans(r))]
    [] j.kind = "add" ->
         [db EXCEPT !.rows = With(@, r,
            [roster |-> j.roster, card |-> j.card, position |-> tx[r].position])]
    [] j.kind = "move" -> [db EXCEPT !.rows[j.row].position = j.position]
    [] j.kind = "remove" -> [db EXCEPT !.rows = Without(@, {j.row})]
    [] j.kind = "play" ->
         [db EXCEPT !.games = With(@, r, [roster |-> j.roster, fielded |-> tx[r].rows])]

-----------------------------------------------------------------------------
(* Transactions *)

Init ==
  /\ db \in Databases
  /\ job \in [Requests -> Jobs]
  /\ tx = [r \in Requests |->
             [pc |-> "start", loaded |-> None, rows |-> {}, doomed |-> <<>>,
              position |-> 0, locks |-> {}, shares |-> {}]]

Step(r, t) == tx' = [tx EXCEPT ![r] = t] /\ UNCHANGED <<db, job>>

End(r, outcome) == Step(r, [tx[r] EXCEPT !.pc = outcome, !.locks = {}, !.shares = {}])

(* get_owned_roster_shallow, or create_game's own scoped read; a creation  *)
(* has no roster yet.                                                      *)
Owned(j) == j.roster \in DOMAIN db.rosters /\ db.rosters[j.roster].owner = j.owner

Load(r) ==
  /\ tx[r].pc = "start"
  /\ \/ job[r].kind = "create" /\ Step(r, [tx[r] EXCEPT !.pc = "loaded"])
     \/ /\ job[r].kind # "create" /\ Owned(job[r])
        /\ Step(r, [tx[r] EXCEPT !.pc = "loaded", !.loaded = db.rosters[job[r].roster]])

(* Each service method's refusals.                                         *)
Accepts(r) ==
  LET j == job[r] IN
  CASE j.kind = "create" -> NameFree(j.owner, j.name, None)
    [] j.kind = "update" -> "name" \in Sent(j) => NameFree(j.owner, j.name, j.roster)
    [] j.kind = "delete" -> GamesOf(db, j.roster) = {}
    [] j.kind = "add" -> j.card \in Fieldable
    [] j.kind = "move" -> j.position >= 0 /\ j.row \in RowsOf(db, j.roster)
    [] j.kind = "remove" -> j.row \in RowsOf(db, j.roster)
    [] OTHER -> TRUE

(* Nothing to write: a PATCH, or a move, to what is there already.         *)
Idle(r) ==
  \/ job[r].kind = "update" /\ Moved(r) = {}
  \/ job[r].kind = "move" /\ db.rows[job[r].row].position = job[r].position

Decide(r) ==
  /\ tx[r].pc = "loaded" /\ Accepts(r)
  /\ \/ Idle(r) /\ Step(r, [tx[r] EXCEPT !.pc = "ok"])
     \/ /\ ~Idle(r)
        /\ Step(r, [tx[r] EXCEPT
                      !.pc = IF job[r].kind = "delete" THEN "counted" ELSE "decided",
                      !.rows = RowsOf(db, job[r].roster),
                      !.position = NextPosition(job[r].roster)])

Refuse(r) ==
  /\ \/ tx[r].pc = "start" /\ job[r].kind # "create" /\ ~Owned(job[r])
     \/ tx[r].pc = "loaded" /\ ~Accepts(r)
  /\ End(r, "refused")

(* session.delete loads the roster's operatives, after the games have been *)
(* counted; they are deleted in the order of their ids.                    *)
Collect(r) ==
  /\ tx[r].pc = "counted"
  /\ LET rows == RowsOf(db, job[r].roster)
         ids == SetToSortSeq(rows, LAMBDA i, j : Rank[i] < Rank[j])
     IN Step(r, [tx[r] EXCEPT !.pc = "decided", !.doomed = ids, !.rows = rows])

(* The row that is written; a deletion writes several, the roster last.    *)
Write(r) ==
  /\ tx[r].pc = "decided" /\ Unblocked(r) /\ Succeeds(r)
  /\ Step(r, [tx[r] EXCEPT !.pc = IF tx[r].doomed = <<>> THEN "written" ELSE "decided",
                           !.doomed = IF @ = <<>> THEN <<>> ELSE Tail(@),
                           !.locks = @ \cup Needs(r), !.shares = Shares(r)])

(* IntegrityError or StaleDataError: a 409. *)
Lose(r) ==
  /\ tx[r].pc = "decided" /\ Unblocked(r) /\ ~Succeeds(r)
  /\ End(r, "conflict")

Commit(r) ==
  /\ tx[r].pc = "written"
  /\ db' = Result(r)
  /\ tx' = [tx EXCEPT ![r] = [@ EXCEPT !.pc = "ok", !.locks = {}, !.shares = {}]]
  /\ UNCHANGED job

Outcomes == {"ok", "refused", "conflict", "lost"}

(* The process or its connection dies with the transaction open. *)
Lost(r) == tx[r].pc \notin {"start"} \cup Outcomes /\ End(r, "lost")

Run(r) ==
  \/ Load(r) \/ Decide(r) \/ Refuse(r)
  \/ Collect(r) \/ Write(r) \/ Lose(r) \/ Commit(r)

Next == \E r \in Requests : Run(r) \/ Lost(r)

Spec == Init /\ [][Next]_vars

-----------------------------------------------------------------------------
(* Properties *)

(* Tables hold rows of their columns; no lock has two holders; and whoever *)
(* excludes a key shares it with nobody.                                   *)
TypeOK ==
  /\ Typed(db)
  /\ \A r \in Requests : tx[r].locks \cup tx[r].shares # {} => tx[r].pc \in {"decided", "written"}
  /\ \A q, r \in Requests :
       q # r => tx[q].locks \cap (tx[r].locks \cup tx[r].shares) = {}

(* uq_kt_roster_owner_name: a player's list of rosters is readable,        *)
(* however creations and renames overlap.                                  *)
NamesUnique == NamesDiffer(db)

(* Decision #60: a roster a game was played from stays, so a screen can    *)
(* always say which list it was; and no row is left without its roster.    *)
ReferencesResolve == Resolved(db)

(* A deletion that has found the player's own roster is turned away only   *)
(* for a game that was played from it, whatever is added to it meanwhile.  *)
DeletionYieldsOnlyToGames ==
  \A r \in Requests :
    (/\ job[r].kind = "delete" /\ tx[r].pc \in {"refused", "conflict"}
     /\ tx[r].loaded # None /\ Owned(job[r])) => GamesOf(db, job[r].roster) # {}

(* One tab's rename and another's description both survive: an update      *)
(* moves only the fields its PATCH sent.                                   *)
UpdatesKeepEachOther ==
  [][\A x \in DOMAIN db.rosters \cap DOMAIN db'.rosters :
       \A f \in Columns :
         db'.rosters[x][f] # db.rosters[x][f] =>
           \E r \in Requests :
             /\ tx[r].pc = "written" /\ tx'[r].pc = "ok"
             /\ job[r].kind = "update" /\ job[r].roster = x /\ job[r][f] = db'.rosters[x][f]]_db

=============================================================================
