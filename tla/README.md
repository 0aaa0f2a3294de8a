# Warhammer-unit: a TLA+ verification project

Warhammer-unit is a FastAPI service over PostgreSQL (SQLModel / SQLAlchemy,
psycopg2) that keeps two kinds of game data: Warhammer 40,000 armies and
inventories, and Kill Team rosters and battles. Route handlers are plain
functions, so FastAPI runs them in a pool of threads; each request has one
session, one transaction under READ COMMITTED, committed by `get_session` after
the handler has returned (`app/core/db/connection.py`).

The part of the program with real control flow is the **battle tracker**
(`KTGameService`): a mutable game with an append-only event log, field-level
undo, a clock of phases and turning points, and optimistic locking between
tabs. It is modelled first and in full; then rosters, accounts, the Kill Team catalog
with its seed, and the army builder.

## Inventory

| Component | State | Operations | How it interacts | What is hard | What makes it correct |
|---|---|---|---|---|---|
| Battle tracker (`service_killteam_game.py`, `models_killteam.py`) | a row of `kt_games` with a `version`; `kt_game_operatives`, `kt_game_equipment`, `kt_game_events` | create, update, use ploy, advance, add / transform / update / activate operative, add / reveal / remove equipment, undo, delete | copies the roster and the catalog when it is created, reads catalog rows when something is fielded | undo from field-level payloads; ids of rows that are deleted and recreated; a finished game that only undo can reopen | undo is a stack; the log is append-only; one activation a turning point; wounds within the card; a finished game is frozen |
| Concurrent requests on a battle (`api/killteam_game.py`, `connection.py`, `main.py`) | one transaction per request, row locks | every route of the battle | `version` as SQLAlchemy's `version_id_col`; errors become 409s | check-then-act under READ COMMITTED, lock order, delete against undo, torn reads | what commits is what a serial run would leave; every request is answered |
| Rosters (`service_killteam_roster.py`, `api/killteam_roster.py`) | `kt_rosters`, `kt_roster_operatives` | create, update, delete, add / move / remove operative | composite foreign keys to the catalog and from games | name check against the unique constraint; delete against a game being created; positions | names unique per owner; a played roster stays; rows only of the roster's team |
| Kill Team catalog seed (`scripts/seed_killteam.py`) | the catalog tables, with `withdrawn` flags | seed: upsert, replace rules, withdraw what is missing, count, commit | read by rosters and by game creation | partial payloads, all-or-nothing, rows that come back, what the run reports | the pages it leaves are those the source printed, withdrawn rows flagged and still resolvable |
| Kill Team catalog reads (`service_killteam.py`, `api/killteam.py`) | none | lists and details; the copy `create_game` takes | reads the catalog, in several SELECTs | a seed that commits between two of them | withdrawn rows hidden; whole datacards |
| Armies (`service_army.py`, `api/army.py`) | `armies`, `army_units` | create, update, delete, add / set / remove unit, shortfall, points, validate | references units and factions; shortfall reads the inventory | check-then-act; deletion against an addition; totals past an integer | a unit once per army; shortfall and points agree with the rows |
| Inventory (`service_inventory.py`, `api/inventory.py`) | `user_units` | add, set, remove, list | references units | concurrent adds | a unit once per player |
| Units and factions (`service_unit.py`, `api/unit.py`, `api/faction.py`) | units, weapons, abilities, factions and their links | create, update, delete, link, unlink | referenced by armies and inventories | delete guard against a concurrent reference | nothing referenced is deleted |
| Accounts (`service_user.py`, `service_auth.py`, `api/auth.py`, `make_admin.py`) | `users` | register, log in, grant / revoke admin | every route's `get_current_user` | count-then-act on the last admin; registration race | username and email unique; an admin is left |
| Tokens and passwords (`security.py`, `deps.py`) | none | hash, sign, decode | JWT and bcrypt libraries | - | - |
| Datasheet seed (`scripts/seed_datasheets.py`) | units, weapons, abilities | look up by name, create, link | writes what armies reference | its own transaction | what it reports is there |
| Scrapers (`scrape_wahapedia*.py`) | none | fetch pages, parse HTML | write the JSON the seeds read | parsing | - |
| Errors, logging, pagination, migrations | none | - | - | - | - |

## Modules

| Module | What it is |
|---|---|
| `KTGame` | a battle, one request at a time: every mutating operation of `KTGameService` but `delete_game` |
| `UndoStack` | what a player is promised: a stack of states |
| `KTGameHistory` | `KTGame` with a history variable, and the claim that it implements `UndoStack` |
| `KTGameSessions` | requests on one battle that run concurrently, statement by statement, deletion and reads included |
| `KTRoster` | rosters, the operatives on them and the games played from them: concurrent requests |
| `Accounts` | registration and who is an administrator: concurrent requests |
| `KTPayload` | what one scrape of the source says |
| `KTCatalog` | what the seed promises: the pages a player can browse are those the source printed |
| `KTSeed` | the seed's steps and transaction, and the reads that run beside it |
| `CollectionTables` | the schema of the army builder, and what is computed from it: points, validation, shortfall |
| `Collection` | what the army builder promises: each request is one step on the tables as they are then |
| `CollectionRequests` | concurrent requests on armies, inventories, units, weapons and subfactions, statement by statement, and the datasheet seed |
| `KTGameProofs`, `KTGameHistoryProofs`, `KTGameTurnProofs` | the theorems about `KTGame` and `KTGameHistory` |
| `KTGameSessionsProofs`, `KTRosterProofs`, `AccountsProofs`, `KTSeedProofs`, `CollectionProofs` | the theorems about `KTGameSessions`, `KTRoster`, `Accounts`, `KTSeed` and `CollectionRequests` |
| `MCKTGame`, `MCKTGameHistory`, `MCKTGameSessions`, `MCKTRoster`, `MCAccounts`, `MCKTSeed`, `MCCollection` | instances for TLC |

### KTGame

State and code:

| Variable | Code |
|---|---|
| `game` | the columns of `KTGame`, but `version` and what never changes (owner, team, roster, snapshots of rules and ploys) |
| `version` | `KTGame.version` |
| `operatives`, `equipment` | rows by id; positions are a column |
| `events` | `KTGameEvent` rows by `sequence`, which also stands for the event's id; `before` and `op` are the payload's |

An action is a request that is answered with success and changes something.
Each action carries its handler whole: the lookup and refusal of `_require_game`
(`RequireOpen`), the handler's checks as guards, `_apply` as `Before`/`Set` (only
fields that move are recorded and a write that moves none is not written), and
`_write` as `Write`: the next sequence, the event, the version. A row that is
created gets an id no row ever had (`NewId`, a UUID in the code); a row undo
recreates gets its old one back.

What is abstracted: the datacard snapshot is the card itself (`card`) plus the
one field of it the service reads back (`wounds`); fields nothing reads back
(opponent name, victory points, markers, choices, order, tokens, actions used)
are one field `notes` of the game and one field `marks` of an operative, so that
writing, recording and undoing them is still modelled; the column `source` is
left out. The record of ploys is kept whole: a `PATCH` may send any list of this
game's ploys, one of them twice or none (`PloyLists`, up to `MaxRecorded` long), and
what `use_ploy` adds goes at its end. A `PATCH` chooses a value for every field: a field that is not sent
and one sent with its current value are the same write. Validation that only
shapes values (names, lengths, nulls) is the choice of the inputs. The catalog
does not change during a battle.

`Before_After`, `Moved_KeepsPhase` and the other operators with an underscore
suffix are what the operator after them would be with a plausible mistake in it.
They are not used by any specification: they are the mutations that each
property is shown to catch, kept beside the definitions they vary.

### UndoStack and KTGameHistory

The code keeps a log, not a history. `KTGameHistory` adds the history, `past`,
and the run `history` checks that a battle implements `UndoStack`: every write
pushes the state it found, every undo restores exactly the state on top. This is
the promise of decision #58 in `KILLTEAM.md` and of `undo`'s docstring.

### KTGameSessions

A request is a transaction that goes through the statements the handlers send,
in the order the unit of work sends them: the game is loaded (`Begin`), the
handler reads what it needs and decides (`Prepare`), the change itself is
flushed by the query for the next sequence (`Touch`), that query runs
(`Number`), the game's row is updated where its version is still the one loaded
and the event is inserted (`Bump`), an undo marks its event (`Compensate`), and
`get_session` commits (`Commit`). A deletion loads the collections of the game
and deletes row by row, each table in the order of its ids, and the game last,
under the same version check (`CollectRows` to `DeleteNext`). A `SELECT` sees
what is committed when it runs. An exclusive lock is held to the end of the
transaction, a statement that needs it waits, and is then evaluated against what
has been committed. An insert shares its game's row through the foreign key, so
a deletion of the game waits for it. PostgreSQL aborts a member of a circle of
waiting transactions. A process may die at any point with its transaction open.
The commit comes after the response has been sent, which the model needs no step
for: another request may begin at any time before the commit.

Rows hold a count of the writes to them, so that a write computed from an old
value shows. What the writes mean is `KTGame`'s business: `OneAtATime` is what
allows it to look at one request at a time.

The two SELECTs an undo uses to find its event and the row are one step, and so
are the two that load a game's operatives and equipment. A row that disappears
in between ends in a refusal either way.

### KTRoster

`db` is what is committed, `job` what each request asks for, `tx` how far it is.
A request loads the roster its caller owns (`Load`: `get_owned_roster_shallow`, or
the scoped read of `create_game`), makes the service method's check and reads what
it will write from (`Decide`: the name, the games played, the next position),
writes (`Write`, or `Lose` when a constraint refuses) and commits (`Commit`).
Between any two of these another request may commit. Rosters have no version;
`uq_kt_roster_owner_name`, the composite foreign keys and their ON DELETE CASCADE
are all that stands behind the checks.

An `UPDATE` carries the columns that differ from the row *as it was loaded*
(`Moved`), because that is what the ORM sends. `session.delete` loads the roster's
rows after the games have been counted and deletes those one by one (`Collect`,
then `Write` for each), and the roster last, when the cascade takes the rows that
came in between. A foreign key shares the key of the row it names; a rename and a
deletion exclude it, because the name is a column of a unique index.

What is simplified: an `UPDATE` takes its row's lock and waits for a unique name in
one step, so that a circle of two renames that each want the other's old name (one
of which PostgreSQL aborts, and nothing is written) is not reached. The kill team of
a roster is fixed, its description is `note`, and which cards are `Fieldable` does
not change: what a seed does to a game being created is in `KTSeed`.

### Accounts

`users` are the committed rows, `tx` the transactions. Registration looks for the
username and the email, then inserts, and the two unique columns decide
(`LookForClash`, `Insert`). Granting and revoking loads the caller and the user,
counts the administrators, updates one row if the flag differs from the one loaded
(`Authorize`, `Load`, `Decide`, `Update`). `make_admin` is a request without a
caller. `admitted` and `counted` record who were administrators when the caller was
let in and when they were counted; no step reads them. `Performed` is a request run
whole on one table, `get_current_admin`'s check and the count included, and
`OnlyStaleChecksMatter` compares each commit with it.

### KTPayload, KTCatalog and KTSeed

A catalog row is known by its natural key: its table, its owner (a team, an
operative, or nobody) and its name; its value is all its other columns. A team's
value is its faction. One table of a team's children, `ploy`, stands for its rules
and its equipment as well, and one of an operative's, `weapon`, for its abilities:
the seed loads, sweeps and counts each of them by the same helpers (`_upsert`,
`_withdraw_missing`) and the reads filter them alike. Ploys and equipment of
nobody are the universal ones.

`KTSeed` runs `seed` as the program does. `WellFormed` is `_check_no_duplicates` and
the refusal of an empty payload, before anything is written. Then one step per
team (`SeedTeam`: faction, team, children, then operatives with their profiles,
then the sweep of each parent the payload names, then the composition), the
universal rows (`SeedUniversals`), the top level unless the payload skipped a team
(`SweepTop`), and `Commit`, or `Fail` at any point. The transaction's tables are its
own (`seed.rows`) until it commits. `Counted` is what `Counts` adds up: rows
created, rows of the payload that differ, rows newly flagged, compositions
rewritten. Only one seed runs at a time: it is a command somebody types.

Two readers run beside it, one SELECT a step, each seeing what is committed when
it runs: a team's page (`get_kill_team`, then `list_selection_rules`) and the copy
`create_game` takes of a roster's datacards, their profiles and the team's and
universal ploys. `past` is a history variable, the catalogs each reader may have
seen.

`KTCatalog` is the promise: a payload replaces the page of each team it names at
one stroke and takes the others away, unless it says it is partial. The run
`seed` checks that the tables implement it. The flags are not part of the promise;
only what they hide is.

Left out: the shape of the JSON, positions, and search, order and paging of the
lists.

### CollectionTables, Collection and CollectionRequests

`db` is every table of the army builder in one function from ids to rows; a row
names its table. `Schema` is the columns of each table, `Refers` the table each foreign
key names, `Cascades` those that are ON DELETE CASCADE and `UniqueKey` the unique
constraints `models.py` declares. Abilities are to a unit what weapons are (their services and
link tables are alike), so that `unit_weapons` stands for both; an inventory
entry is to a user what an army's entry is to the army.

A request loads the row its path names (`Load`), makes the checks of its service
method (`Decide` with `Accepts`, or `Refuse`), which turns into the statements it will
flush (`Plan`), and sends them one at a time (`Execute`, or `Lose` when a constraint
refuses or an `UPDATE` or link `DELETE` matches no row), then commits. `DeletePlan` is
the order of `delete_army`, `delete_unit`, `delete_weapon` and `delete_subfaction`: what
is cleared before, the links the ORM looks for at the flush and deletes one by one
(`Gather`), in whatever order its collections have them, and the row last. PostgreSQL
carries that last `DELETE` out in two steps with others in between: it takes the row
itself (`Take`), and then what cascades from it and the check that nothing else names it
(`Delete`, `Checks`). A transaction sees what is committed with what it `wrote` in its place and
without what is `gone` (`View`, `Overlay`), and its commit makes that the tables.
Between any two statements others run and commit; a statement waits for whoever
`Blocks` it: holds a lock it needs, or shares one. `Fail` is an answer that cannot be given after the work is done:
the row to refresh is gone, or the total does not fit.

`Asks` says what the routes let through: amounts that fit their column, the columns a
`PATCH` may set, and only what there is an operation for. `Disturbs` says which
requests touch a row, so that a deletion can be asked to yield to nothing else.

The datasheet seed is a request too (`Seek` is its look-up by name); it ends in
`Report`, because nothing commits its session.

`Collection` is the abstract specification. A request looks at the row it is about,
and later, in one step, adds its row, changes its columns or removes its row with what
cascades, if the tables as they are *then* allow it; or it ends and changes nothing.
That overlapping requests implement it is `CommitsAreSteps`. It is less than
serializability, because the code gives less: a `PATCH` writes the columns that differed
from the row as it was loaded (`Moved`), so that two of one army, `{subfaction X, limit 3}`
and `{subfaction Y, limit 9}`, both of a row with limit 3, can leave `(X, 9)`, which
neither order of the two would. `Collection` allows exactly that (`seen` is the row a
request looked at) and no more: a change is of the row its own request names, and of all
the columns that differed.

What is simplified: searches and lists are left out; text columns are left out but
the names that are looked up. A statement that is not the deletion of a row that
others hang on to takes all its locks in one step. A ring of waits is left standing
until `Lost` takes one of its members out, as PostgreSQL does after `deadlock_timeout`.

## Runs

| Run | Shows |
|---|---|
| `history` | every operation of a battle together, all histories of four writes and the state each left: undo is a stack (`KTGameHistory` implements `UndoStack`) and always finds what it reverts, wounds stay within the card, an operative acts once in a turning point, a piece is there once and in a place of its own, the log only grows |
| `flow` | phases, status, command points and ploys beside one operative and one piece, five writes, to the end of a two-turning-point game and back: a finished game is frozen but for the undo that reopens it (#66), undo is nested and names its event, the clock is what the standing log says |
| `sessions_play` | three concurrent requests, none a deletion |
| `sessions_delete` | two concurrent requests, deletions among them, with fairness: every request is answered |
| `roster` | three requests that create, rename, describe, delete and play rosters and add, move or remove operatives: a player's names stay distinct; an update touches only what its `PATCH` sent; a played roster stays; no row outlives its roster; nothing but a game turns a deletion away |
| `accounts` | three registrations, grants, demotions and runs of `make_admin`: names stay unique, and every change is what its whole request would make of the table it commits to, unless an administrator it counted, or its caller, was demoted after the check |
| `seed` | three runs of the Kill Team seed, failed ones among them, over payloads that change their mind, beside the read of a page and the creation of a battle: the catalog is what was published, what is listed can be fetched, the report is true, every entry of the payload is there, a page is of its time, datacards come whole, a battle fields its roster |
| `collection` | three overlapping requests of eighteen kinds: each commit is one step of its own request on the tables as they are then (two `PATCH`es of one row may mix their columns), no row loses one it names, the shortfall is exact, deletions yield only to others, only deletions (or the seed) can wait for each other in a ring |
| `delete_undone`, `last_admin`, `unlink`, `totals` | what the findings below are about |

Bounds. `MaxEvents` bounds the log, which is the only thing that grows in a battle.
Four writes of every kind (592,916 states) cover write, undo, write, undo and every
pair of operations under two undos; there, cards of two and one wounds make a
transform cap or not, a piece may be taken, removed, and taken again or brought back,
and cards and kit may be withdrawn, a card another team's. `flow` (1,906,779 states) goes
deeper on the clock: five writes end a game of two turning points (four advances)
and undo that. Two turning points are enough to have a first, a next and a last.
`MaxCP = 1` with a ploy that costs 1 has a pool that covers the ploy and one that
does not. `MaxMoved` bounds how many fields of the game one `PATCH` moves, and
`MaxRecorded` how long a list of ploys it sends: one in `flow`; none in `history`, where
a `PATCH` can only empty the list. What the
bounds leave open for a battle is closed by the proofs, which have none. For
sessions, two requests show every race of two (`sessions_delete`, 39,579 states), three
add a request that arrives while two are waiting (`sessions_play`, 149,182 states); the histories they start from have a piece of equipment, an
undone event, or are finished. Requests are symmetric. Rosters and accounts are
checked with three requests: two that race and one that changes what they race
about. In `KTRoster` the roster starts with one row in its second place, so that the
highest position and the number of rows differ; a second roster may have been
played, and a third belongs to somebody else and has a name the player may take.
`roster` (1,847,903 states) has no symmetry, since rows are deleted in the order of their ids.

`seed` (138,258 states) runs three seeds over six payloads: a first edition, a
rebalanced one in which a team changes faction and loses a ploy, a universal ploy
and a weapon for others, one that drops a team and an operative, two partial ones,
and one that names an operative twice, which is refused. Three runs let a row be
created, withdrawn and brought back. `collection` (755,775 states) runs every three
of eighteen requests, in any interleaving, over a player with an army and an
inventory, a unit, a weapon, a faction and a subfaction, with or without entries and
links. Three requests are enough for a ring of two deletions of one row around an
addition; the ring of two units and two weapons takes four, and one with a seed two seeds
or more tables, so that what `RingsAreOfDeletions` says of those is the theorem's to show.
`IntMax = 5` stands for 2^31 - 1: amounts and costs are below it and a product
may not be. A request creates one row (the seed up to three), and ids are never used
twice.

Fairness. `KTGame` states none: nothing forces a player to go on. `FairSpec` of
`KTGameSessions` is weakly fair for each request's next statement and for the
deadlock detector: a thread of the pool keeps running, PostgreSQL grants a lock
that is free and looks for deadlocks after `deadlock_timeout`. A lock is asked
for once and kept until the end, so weak fairness is enough.

`CHECK_DEADLOCK FALSE` is set where the bound on the log stops the model, and where
the requests or the seeds of a run end.

## Findings

`delete_undone` (code bug). `undone_by` is a foreign key from `kt_game_events` to
itself with no `ondelete`, not deferrable and unknown to the ORM as a
relationship. Deleting a game deletes its events one by one in the order of
their primary keys, which are random. If the event of an undo comes before the
event it undid, PostgreSQL refuses its deletion, and `DELETE /api/v1/me/kill-team/games/{id}`
answers 409 "conflict with an existing resource", for good: the ids never change.
`delete_game` says "Delete a game and everything on it"
(`service_killteam_game.py:233`); the test of it deletes a game in which nothing
was undone.

`last_admin` (code bug). `set_admin` "Refuses to demote the last remaining admin"
(`service_user.py:46`), by counting the administrators and then updating one row.
Two demotions of the two last administrators, each of the other or of itself, both
count two, lock different rows and both commit; only `make_admin` on the server
brings one back. `OnlyStaleChecksMatter` says how far it goes: a change of the users is
what its whole request would make of the table it commits to, unless one of
`set_admin`'s two checks was overtaken. The other check is the caller's: of three
administrators, two may demote each other and both succeed, because the second was let
in before the first demotion was committed and the count, of two, is right.

`unlink` (code bug). `unlink_weapon` is "idempotent (no error if not linked)"
(`service_unit.py:371`, and `SPEC.md:582`). It looks for the link and the ORM deletes it at
the flush. Of two requests that have both found it, the second `DELETE` waits for the
first to commit and matches no row; SQLAlchemy raises `StaleDataError`, and `main.py:182`
answers 409 "this game has moved on since it was read". The tests unlink one request at a
time. `unlink_ability` is the same code.

`totals` (code bug). An amount and a unit's cost are each bounded so that they fit an
integer column, to keep a client from the 500 a database overflow is
(`api/fields.py:28`). `points_total` multiplies the two in SQL, where the product of two
integers is an integer: `ArmyService.points_total` raises, and every answer that
carries the army's total is a 500, while `validate`, which multiplies in Python, is
answered.

Divergences between the code and its documents, found while modelling and too
plain for a run of their own:

* `main` of `seed_datasheets` (line 150) opens a session, seeds and leaves it without a
  commit, although `connection.py:37` says scripts "commit themselves". The session rolls
  back as it closes; the counts it prints are of rows that are not there. `seed_killteam`
  does commit. `CollectionRequests` has it so: a seed ends in `Report`, which commits
  nothing. Once it does commit, its look-ups by name will race creations of the same
  name, which no unique key of units or weapons stops.
* Decision #55 (`KILLTEAM.md:76`) says that every table the seed upserts flags a row
  the source drops. The universal ploys and equipment (`seed_killteam.py:525-545`) have
  no sweep: one the source no longer prints is served for good.
* The docstring of `seed_killteam` (lines 14-26) calls decision #55 "decided and not yet
  built"; it is built. It says "Every key above is REQUIRED" (line 57), but the
  universal lists are read with `data.get(..., [])`.
* `activate_operative` says "Refused for an operative on zero wounds, and only for that"
  (`service_killteam_game.py:366`). What it refuses is the status `incapacitated`, which
  a `PATCH` that sets wounds and names a status can separate from the wounds, both ways.
  A second refusal, of an operative that has acted, follows it.

Not findings, worth knowing. A battle created while a seed commits may copy cards of
one edition and profiles of another; each card comes whole and with profiles
(`BattleFieldsTheRoster`), and withdrawn profiles are copied with the others. Two
`PATCH`es of one army or unit can mix their columns (see `Collection`). `set_amount` to the amount there is, of an entry removed
meanwhile, is a 500.

`sessions_delete` reaches a deadlock between a deletion, which locks events before the game, and an undo, which locks the game
before the event it undoes. PostgreSQL aborts one and the loser is answered 500,
not 409, because no handler expects `OperationalError`. `OnlyDeletionDeadlocks`
says it takes a deletion. The army builder has rings of its own, answered 500 in
the same way, with nothing lost: two deletions of one army or unit, when an entry or a
link was added after the first had looked (each then holds what the other wants), and
deletions of two units and two weapons that take each other's links.
`RingsAreOfDeletions` says that besides the seed there are no others.

## Proofs

`KTGameProofs`, `KTGameHistoryProofs` and `KTGameTurnProofs` prove every invariant and
action property the runs check of a battle, for every team, roster, catalog, cost,
number of turning points and length of the log.

`KTGameProofs`:

* `TypeCorrect`: `Spec => []TypeOK`. The columns of every row, the references
  from the log to the rows, and that sequences run from 1 to `version - 1`.
  `TypeOK` is inductive as it stands, because it says of each event which table
  its type writes and that its payload holds columns of that table. The two
  tables never share an id, since the event that created a row tells which table
  it is in, so `_event_target`, which looks for an operative before a piece of
  equipment, finds the right row.
* `LogIsAppendOnly`: `Spec => LogOnlyGrows`.
* `UndoNames`: `Spec => []UndoNamesItsEvent`, inductive with `TypeOK`.
* `UndoNests`: `Spec => []UndoIsNested`, inductive with both: the newest standing
  event is undone when every later one already is.

`KTGameHistoryProofs`, of `HSpec`, which is `Spec` with the history `past` (a variable
no action reads, so that what holds of a battle under `HSpec` holds under `Spec`):

* `UndoIsExact`: `HSpec => UndoRestores`, the refinement of `UndoStack`.
* `UndoIsNeverStuck`, `WoundsAreWithinCard`, `EquipmentIsTakenOnce`,
  `FinishedCanReopen`: `HSpec => []P` for `UndoNeverStuck`, `WoundsWithinCard`,
  `EquipmentTakenOnce`, `FinishedReopens`.
* `FinishedStaysFrozen`: `HSpec => FinishedIsFrozen`.

An event keeps only the fields its write moved, so what reverting it does is known
of one state only, the one it left; but undo after undo reverts it on a state that
was reached some other way. None of these properties is inductive by itself. The
inductive invariant `HInv` is a chain (`Chain`): for each standing event there is the
state it found, and reverting it gives that state back from the state the *next*
standing event found, or from the present one if it is the newest. A write adds a
link (`PlayRestores`: each way of writing leaves an event that takes it back), an undo
takes the last one off, and then the state it returns to is, by the chain, exactly
a state that was there before. Hence `AllSound` (whatever is true of every state as
it is left is true of what undo returns to) and `Open` (no state with an event after
it was finished). `PlayMoves` adds that no write is empty, so that every undo shows.

`KTGameTurnProofs` strengthens the chain once more (`TurnInv`): each state along it
agrees with the part of the log that stood when it was left.

* `ClockIsTheLog`: `HSpec => []ClockCountsAdvances`.
* `OneActivationATurn`: `HSpec => []ActivatesOncePerTurn`; the activations of an
  operative have growing turning points, which is why comparing with the last alone
  is enough.

The proofs assume what the module assumes of its constants: the roster's cards
are the team's, wounds and costs are naturals, there is at least one turning
point, `None` is no number. `MaxEvents`, `MaxCP`, `MaxMoved` and `MaxRecorded` are any naturals:
nothing rests on their size.

`AccountsProofs` proves, for any number of requests and any set of users to begin
with, from `TablesAssumption` (what the tables hold to begin with) and
`JobsAssumption` (what a request may ask):

* `TypeCorrect`: `Spec => []TypeOK`, no two transactions write one row.
* `NamesStayUnique`: `Spec => []NamesUnique`.
* `StaleChecks`: `Spec => OnlyStaleChecksMatter`.

The inductive invariant adds to `TypeOK` one conjunct per request, `Sound`: what a
transaction has written and not committed clashes with nothing, because its row's lock
and the unique keys keep everyone else off it; a demotion that goes ahead counted more
than one administrator, and its caller was one of those `admitted`. So if neither of these
has been demoted since, both checks would pass again at the commit.

The other components are proved about in the same way: for any number of requests,
whatever they ask and whatever the tables hold to begin with, within the assumptions
named below, all of which TLC evaluates for the instances of the runs.

`KTGameSessionsProofs`, from `RequestsAssumption` (finitely many requests) and
`HistoriesAssumption` (the log counts the versions of a game that is there):

* `TypeCorrect`: `Spec => []TypeOK`.
* `VersionVouches`: `Spec => []VersionVouchesForRows`.
* `Serializable`: `Spec => OneAtATime`, which is what allows `KTGame` to look at one
  request at a time.
* `NoDeadlockWithoutDeletion`: `Spec => []OnlyDeletionDeadlocks`.

`IInv` says of each request that while the version it loaded is current, everything
it has read and computed is as if it had been read now (`Vouched`: every commit makes
a version or ends the game), and that from the statement that compares the versions
to its commit it holds the game's row, so that the comparison still holds
(`GameHeld`). Neither is inductive without the other, nor without what is locked when
(`InTurn`). The absence of deadlocks needs the order of the locks only: a row
of the game, then the game, then an event.

`KTRosterProofs`, from `DatabasesAssumption` (the constraints hold of the tables to
begin with, and the ids requests give are new), `IdsAssumption` and `JobsAssumption`
(what the routes offer):

* `TypeCorrect`, `NamesStayUnique`, `ReferencesStay`, `OnlyGamesStopDeletion`:
  `Spec => []P` for `TypeOK`, `NamesUnique`, `ReferencesResolve`,
  `DeletionYieldsOnlyToGames`.
* `UpdatesAreKept`: `Spec => UpdatesKeepEachOther`: a column of a roster changes only to
  what an update that commits at that step sent for it, so none puts back a value it
  loaded before another's commit.

A constraint is checked when a row is written, and committed later. The heart of the
invariant is that what has been written can still be committed (`WrittenIsGranted`):
no other commit takes away what the constraint was checked against, because of the
locks. `AcceptedAreGood` says the same of what a request has only loaded and decided,
where nothing is locked and less can be said. `OwnersStay` says that a roster that was
found is never made again, so that a deletion cannot have been turned away from a
roster that is there only now.

`KTSeedProofs`, from `PayloadsAssumption` (`Nested`: a payload is laid out as the
JSON file is, in which operatives, profiles and ploys lie below what owns them),
`TeamsAssumption` and `RosterAssumption` (a roster's rows are datacards):

* `SeedKeepsItsPromise`: `Spec => CatalogIsWhatWasPublished`, the refinement of
  `KTCatalog`: a commit is one publication, every other step a stutter.
* `TypeCorrect`, `ListsAndPagesAgree`, `ReportTellsTheTruth`, `EntriesLand`,
  `BattlesFieldTheirRoster`, `PagesAreOfTheirTime`, `CardsAreWhole`: `Spec => []P` for
  `TypeOK`, `ListedIffServed`, `ReportIsTruthful`, `EveryEntryLands`,
  `BattleFieldsTheRoster`, `PageIsOfItsTime`, `CardsComeWhole`.

A run writes a row at most once. So its tables are at every step a function of those
it began with (`Partly`, `Whole`, `Seeded`; `Underway` in the invariant), which replaces
an induction over its steps. `Settled` says that what is committed is what the last
payload makes of it, `GoodCatalog` that rows have their parents and what is live has
live parents, `Tallied` that a run has counted nothing just if it has changed nothing.
For the readers, `PageInv` says of what a page holds that some catalog of its time
served it, and of what it has yet to look for that such a catalog had it.

`CollectionProofs`, from `DatabasesAssumption` (finite tables for which the constraints
hold), `IdsAssumption` (ids are given once) and `JobsAssumption`:

* `ReferencesStay`, `WhatToBuyIsRight`, `TypeCorrect`: `Spec => []P` for
  `ReferencesResolve`, `ShortfallIsExact`, `TypeOK`.
* `StepByStep`: `Spec => CommitsAreSteps`, the refinement of `Collection`: each commit is
  one step of its own request, allowed by the tables as they are when it commits.
* `DeletionsYield`: `Spec => []DeletionsYieldToOthers`.
* `OnlyDeletionsRing`: `Spec => []RingsAreOfDeletions`.

The inductive invariant, `Inv`, says that the tables are good, that locks exclude,
and of each request two things: what it has written it may commit (`Granted`: it holds
the locks, or shares the ids, of everything its statements relied on, and its own
view of the tables is good), and what it has still to do is in line with what it
asked for and found (`Line`). `OthersCommit` shows that the commit of another leaves
the first, `LineStays` the second, and `ExecuteKeeps` that a statement keeps both. For
`DeletionsYield` it is strengthened by `Yielding`: until another request touches what
is deleted (`Excused`), its entries are gone before the flush looks for what hangs on
to it, and every link that was found is there when its turn comes.

For `OnlyDeletionsRing` it is strengthened by `Holdings`: a request of one statement
holds nothing while it has that statement to send, and a deletion holds only the locks
of its own row and of what hangs on to it (`HoldsItsOwn`; TLC checked it, and which
deletion may wait for which, on the instance before they were proved). So whoever is waited for and
waits is a deletion or the seed (`HoldersDelete`), and of two deletions of different rows
(`DeletionsFollow`) an army's waits for none, a subfaction's for an army's or a unit's, a
unit's for an army's, and a unit's and a weapon's for each other across a link the other
has taken. A ring can then only go from units to weapons and back. It does not go back over the
link it came by (`OneHoldsTheLink`: the link of a unit and a weapon is one row, and one
request has it), so that after four steps it has met two of each.

### What is only model-checked

* `EveryRequestEnds` of `KTGameSessions` is liveness under fairness.
* The totals of the army builder (`MapThenSumSet`) are recursive; a proof could
  only take what `TotalsAgree` says of them as it is defined.

Induction over numbers and finite sets, where a proof needs it, is done by the least
counterexample; the induction theorems of the library take an operator and cannot be
used.

## Plan

Every property a passing run checks is a theorem but `EveryRequestEnds`. What could
follow:

1. What the proofs rest on beyond the runs' properties, stated on its own where a
   reader would look for it: that a payload loaded twice changes nothing, that an undo
   never needs a row that is gone.
2. The seed in `OnlyDeletionsRing`, if it comes to commit: it would
   have to take its locks in an order that every other request keeps.
3. A promise for the universal ploys and equipment, once the seed flags those the
   source drops.

## Not modelled

Scrapers (HTML parsing, network), observability, error and response shaping,
pagination, migrations and OpenAPI have no state of their own to go wrong.
Password hashing and tokens are the libraries'. Of the lists, search, order and
paging are queries over what the models hold. A JSON file that does not parse ends a
seed before it begins.
