-------------------------- MODULE CollectionTables --------------------------
(***************************************************************************)
(* The tables of the army builder (core/db/models.py) and what is read     *)
(* from them.  A database is a function from ids to rows; a row is a       *)
(* record of its table and of the columns that matter.  What abilities     *)
(* are to a unit is what weapons are: unit_weapons stands for both.        *)
(***************************************************************************)
EXTENDS Naturals, FiniteSets, FiniteSetsExt

CONSTANTS
  IntMax,    \* what an integer column of PostgreSQL holds: 2^31 - 1
  Overflow,  \* what the database answers when an expression goes beyond
  None

-----------------------------------------------------------------------------
(* The schema: the columns of each table, the table each foreign key       *)
(* names, those that are ON DELETE CASCADE, and the columns of each unique *)
(* key.                                                                    *)

Schema ==
  [users |-> {"table"}, factions |-> {"table", "name"},
   subfactions |-> {"table", "faction_id", "name"},
   units |-> {"table", "name", "faction_id", "subfaction_id", "points"},
   weapons |-> {"table", "name"}, unit_weapons |-> {"table", "unit_id", "weapon_id"},
   armies |-> {"table", "owner_user_id", "faction_id", "subfaction_id", "points_limit"},
   army_units |-> {"table", "army_id", "unit_id", "amount"},
   user_unit |-> {"table", "owner_user_id", "unit_id", "amount"}]

Refers ==
  [owner_user_id |-> "users", faction_id |-> "factions", subfaction_id |-> "subfactions",
   army_id |-> "armies", unit_id |-> "units", weapon_id |-> "weapons"]

Cascades ==
  {<<"subfactions", "faction_id">>, <<"armies", "owner_user_id">>,
   <<"user_unit", "owner_user_id">>, <<"army_units", "army_id">>,
   <<"unit_weapons", "unit_id">>, <<"unit_weapons", "weapon_id">>}

UniqueKey ==
  [users |-> {}, factions |-> {"name"}, subfactions |-> {"faction_id", "name"},
   units |-> {}, weapons |-> {}, unit_weapons |-> {"unit_id", "weapon_id"},
   armies |-> {}, army_units |-> {"army_id", "unit_id"},
   user_unit |-> {"owner_user_id", "unit_id"}]

IsRow(row) ==
  /\ row.table \in DOMAIN Schema /\ DOMAIN row = Schema[row.table]
  /\ "amount" \in DOMAIN row => row.amount \in 1..IntMax

Of(d, table) == {i \in DOMAIN d : d[i].table = table}

Columns(row) == DOMAIN row \cap DOMAIN Refers
Names(row) == {row[c] : c \in Columns(row)} \ {None}
NamesByCascade(row) == {row[c] : c \in {k \in Columns(row) : <<row.table, k>> \in Cascades}}

Key(row) == [c \in UniqueKey[row.table] |-> row[c]]
Keyed(row) == UniqueKey[row.table] # {}
SameKey(p, q) == p.table = q.table /\ Keyed(p) /\ Key(p) = Key(q)

(* The columns seed_datasheets looks a row up by: no constraint makes the  *)
(* names of units and weapons unique.                                      *)
NaturalKey ==
  [UniqueKey EXCEPT !.units = {"faction_id", "name"}, !.weapons = {"name"}]

Matches(d, row) ==
  {i \in DOMAIN d :
     d[i].table = row.table /\ \A c \in NaturalKey[row.table] : d[i][c] = row[c]}

Free(d, row) == \A i \in DOMAIN d : ~SameKey(d[i], row)

(* Only subfaction_id may be null. *)
Resolves(d, row) ==
  \A c \in Columns(row) :
    row[c] \in Of(d, Refers[c]) \/ (c = "subfaction_id" /\ row[c] = None)

Typed(d) == \A i \in DOMAIN d : IsRow(d[i])
Resolved(d) == \A i \in DOMAIN d : Resolves(d, d[i])
KeysDiffer(d) == \A i, k \in DOMAIN d : SameKey(d[i], d[k]) => i = k

(* What goes with the rows S, and what would be left naming them: the      *)
(* reference no cascade covers, which forbids the deletion.  Tables that   *)
(* cascade from armies, units and weapons are named by none.               *)
Swept(d, S) == S \cup {i \in DOMAIN d : NamesByCascade(d[i]) \cap S # {}}
Holders(d, S) == {i \in DOMAIN d \ Swept(d, S) : Names(d[i]) \cap Swept(d, S) # {}}

With(d, i, row) == [x \in DOMAIN d \cup {i} |-> IF x = i THEN row ELSE d[x]]
Without(d, S) == [x \in DOMAIN d \ S |-> d[x]]
Set(row, changes) == [c \in DOMAIN row |-> IF c \in DOMAIN changes THEN changes[c] ELSE row[c]]

-----------------------------------------------------------------------------
(* A list is an army, or the inventory of a user; `owner` is its table.    *)

EntriesOf(d, list) ==
  {i \in Of(d, "army_units") : d[i].army_id = list}
  \cup {i \in Of(d, "user_unit") : d[i].owner_user_id = list}

Entry(d, list, unit) == {i \in EntriesOf(d, list) : d[i].unit_id = unit}

EntryRow(owner, list, unit, amount) ==
  IF owner = "armies"
  THEN [table |-> "army_units", army_id |-> list, unit_id |-> unit, amount |-> amount]
  ELSE [table |-> "user_unit", owner_user_id |-> list, unit_id |-> unit, amount |-> amount]

(* What a request is about, and the ids of the rows it creates;            *)
(* get_owned_army hides another player's army.                             *)
HasSubject(j) == j.kind \notin {"create", "seed"}

Found(d, j) ==
  /\ j.id \in Of(d, j.table)
  /\ j.table = "armies" => d[j.id].owner_user_id = j.by

NewId(r, n) == <<r, n>>

(* Only the columns that differ from the row as it was loaded.             *)
Moved(row, changes) ==
  [c \in {k \in DOMAIN changes : row[k] # changes[k]} |-> changes[c]]

LinksOf(d, x) == {i \in Of(d, "unit_weapons") : x \in Names(d[i])}

Price(d, i) == d[i].amount * d[d[i].unit_id].points

Points(d, army) == MapThenSumSet(LAMBDA i : Price(d, i), EntriesOf(d, army))

(* points_total is summed by the database: amount and points are integer   *)
(* columns, and so is their product; SUM itself is a bigint.               *)
PointsTotal(d, army) ==
  IF \E i \in EntriesOf(d, army) : Price(d, i) > IntMax THEN Overflow ELSE Points(d, army)

(* validate sums in Python, whose integers have no bound.                  *)
Validate(d, army) ==
  LET unit(i) == d[d[i].unit_id]
      entries == EntriesOf(d, army)
      issues ==
        {<<"wrong_faction", d[i].unit_id>> :
           i \in {e \in entries : unit(e).faction_id # d[army].faction_id}}
        \cup {<<"wrong_subfaction", d[i].unit_id>> :
           i \in {e \in entries : unit(e).subfaction_id \notin {None, d[army].subfaction_id}}}
        \cup {<<"over_points", None>> :
           x \in {p \in {Points(d, army)} : d[army].points_limit # None /\ p > d[army].points_limit}}
  IN [points_total |-> Points(d, army), ok |-> issues = {}, issues |-> issues]

(* shortfall: owned is a dict by unit, in which a later row of the same    *)
(* unit replaces an earlier one.                                           *)
OwnedOf(d, user, unit) ==
  LET rows == Entry(d, user, unit)
  IN IF rows = {} THEN 0 ELSE d[CHOOSE i \in rows : TRUE].amount

Shortfall(d, army) ==
  LET owned(i) == OwnedOf(d, d[army].owner_user_id, d[i].unit_id)
  IN {[unit |-> d[i].unit_id, need |-> d[i].amount - owned(i)] :
        i \in {e \in EntriesOf(d, army) : d[e].amount > owned(e)}}
=============================================================================
