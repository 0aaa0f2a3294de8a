------------------------- MODULE CollectionRequests -------------------------
(***************************************************************************)
(* Requests on armies, inventories and the catalog of units that run at    *)
(* the same time, and the datasheet seed beside them.  Each is a           *)
(* transaction under READ COMMITTED: it loads the row it is about, checks, *)
(* sends its statements one by one and commits.  No row has a version:     *)
(* the constraints of the tables are what keeps them right.                *)
(***************************************************************************)
EXTENDS CollectionTables, Sequences, SequencesExt

CONSTANTS
  Requests,   \* their ids begin those of the rows they create
  Jobs,       \* [kind, by, table, id, unit, amount, row, changes, rows]
  Loads,      \* which request has which job: a set of [Requests -> Jobs]
  Databases   \* what there is to begin with

VARIABLES
  db,  \* what is committed
  tx,  \* [Requests -> transaction]
  job  \* [Requests -> Jobs]: never changes

vars == <<db, tx, job>>

ASSUME DatabasesAssumption ==
  \A d \in Databases :
    /\ d = [i \in DOMAIN d |-> d[i]] /\ IsFiniteSet(DOMAIN d)
    /\ Typed(d) /\ Resolved(d) /\ KeysDiffer(d)

ASSUME IdsAssumption ==
  /\ None \notin Requests \X Nat
  /\ \A d \in Databases : None \notin DOMAIN d /\ \A i \in DOMAIN d : i \notin Requests \X Nat

(* What the routes let through: the columns a PATCH may set, amounts that  *)
(* fit, and of what there is an operation for.                             *)
Asks(j) ==
  /\ j.kind \in {"add", "set", "remove", "create", "update", "delete", "link", "unlink", "seed"}
  /\ j.kind \in {"add", "set", "remove"} => j.table \in {"armies", "users"}
  /\ j.kind \in {"add", "set"} => j.amount \in Int /\ j.amount <= IntMax
  /\ j.kind = "update" =>
       /\ j.table \in {"armies", "units", "weapons"}
       /\ DOMAIN j.changes \subseteq Schema[j.table] \ {"table", "owner_user_id"}
  /\ j.kind = "delete" => j.table \in {"armies", "units", "weapons", "subfactions"}
  /\ j.kind \in {"link", "unlink"} =>
       /\ j.table = "units" /\ IsRow(j.row)
       /\ j.row.table = "unit_weapons" /\ j.row.unit_id = j.id
  /\ j.kind = "create" =>
       IsRow(j.row) /\ j.row.table \in {"armies", "units", "weapons", "factions", "subfactions"}
  /\ j.kind = "seed" =>
       /\ DOMAIN j.rows = 1..Len(j.rows) /\ Len(j.rows) \in Nat
       /\ \A n \in DOMAIN j.rows : IsRow(j.rows[n])

ASSUME JobsAssumption == Loads \subseteq [Requests -> Jobs] /\ \A j \in Jobs : Asks(j)

-----------------------------------------------------------------------------
(* Statements *)

Statement(op, i, row) == [op |-> op, id |-> i, row |-> row]

Insert(i, row) == Statement("insert", i, row)
Ensure(i, row) == Statement("ensure", i, row)
Update(i, changes) == Statement("update", i, changes)
Delete(i) == Statement("delete", i, <<>>)
Unlink(i) == Statement("unlink", i, <<>>)
Take(i) == Statement("take", i, <<>>)
Clear(i) == Statement("clear", i, <<>>)
Collect(i) == Statement("collect", i, <<>>)

(* The rows a statement takes away: DELETE FROM army_units of a whole      *)
(* list, or one row and its cascade.  The DELETE of an army, a unit or     *)
(* their like first takes its own row, and then looks for what hangs on to *)
(* it, or is left naming it.                                               *)
Gone(d, s) ==
  CASE s.op = "clear" -> EntriesOf(d, s.id)
    [] s.op \in {"delete", "unlink"} -> Swept(d, {s.id} \cap DOMAIN d)
    [] OTHER -> {}

Locked(d, s) == IF s.op = "take" THEN {s.id} \cap DOMAIN d ELSE Gone(d, s)

(* The row a statement leaves at its id, for those that do.                *)
Left(d, s) == IF s.op = "insert" THEN s.row ELSE Set(d[s.id], s.row)

Leaves(s) == s.op \in {"insert", "update"}

(* What a transaction sees: what is committed, and its own writes.         *)
Overlay(d, wrote, gone) ==
  [i \in (DOMAIN d \cup DOMAIN wrote) \ gone |-> IF i \in DOMAIN wrote THEN wrote[i] ELSE d[i]]

View(r) == Overlay(db, tx[r].wrote, tx[r].gone)

(* A statement locks the rows it writes, their keys against other writers, *)
(* and their ids against foreign keys; a foreign key shares the id of the  *)
(* row it names, and the check that nothing names a row taken away the ids *)
(* of what it finds.                                                       *)
KeyLocks(row) == IF Keyed(row) THEN {<<"key", row.table, Key(row)>>} ELSE {}

Needs(d, s) ==
  CASE s.op = "insert" -> KeyLocks(s.row)
    [] s.op = "update" -> {<<"row", s.id>>}
    [] OTHER -> UNION {{<<"row", i>>, <<"id", i>>} \cup KeyLocks(d[i]) : i \in Locked(d, s)}

Shares(s) == {<<"id", i>> : i \in Names(s.row)}

Checks(d, s) ==
  {<<"id", i>> : i \in IF s.op = "delete" THEN Holders(d, {s.id} \cap DOMAIN d) ELSE {}}

Unblocked_Unshared(r, s) ==
  \A q \in Requests \ {r} : Needs(View(r), s) \cap tx[q].locks = {}

Blocks(q, r, s) ==
  \/ Needs(View(r), s) \cap (tx[q].locks \cup tx[q].shares) # {}
  \/ (Shares(s) \cup Checks(View(r), s)) \cap tx[q].locks # {}

Unblocked(r, s) == \A q \in Requests \ {r} : ~Blocks(q, r, s)

(* Whether a statement breaks no constraint, and an UPDATE, or a DELETE    *)
(* from unit_weapons, matches its row: StaleDataError.  Any other DELETE   *)
(* may match none.                                                         *)
Constrained_Never(d, row) == TRUE

Constrained(d, row) == Free(d, row)

Succeeds(d, s) ==
  CASE s.op = "insert" -> Constrained(d, s.row) /\ Resolves(d, s.row)
    [] s.op = "update" -> s.id \in DOMAIN d /\ Resolves(d, Set(d[s.id], s.row))
    [] s.op = "delete" -> s.id \in DOMAIN d => Holders(d, {s.id}) = {}
    [] s.op = "unlink" -> s.id \in DOMAIN d
    [] OTHER -> TRUE

-----------------------------------------------------------------------------
(* What each service method checks, and what it then sends *)

AmountAllowed_Any(n) == TRUE

AmountAllowed(n) == n >= 1

Accepts(d, j) ==
  CASE j.kind = "add" -> /\ AmountAllowed(j.amount) /\ j.unit \in Of(d, "units")
                          /\ Entry(d, j.id, j.unit) = {}
    [] j.kind = "set" -> AmountAllowed(j.amount) /\ Entry(d, j.id, j.unit) # {}
    [] j.kind = "remove" -> Entry(d, j.id, j.unit) # {}
    [] j.kind = "create" -> Resolves(d, j.row) /\ Free(d, j.row)
    [] j.kind = "update" -> Resolves(d, j.changes)
    [] j.kind = "delete" -> Holders(d, {j.id}) = {}
    [] j.kind = "link" -> j.row.weapon_id \in Of(d, "weapons")
    [] OTHER -> TRUE

UpdateIfMoved_WholeRow(i, row, changes) ==
  IF DOMAIN Moved(row, changes) = {} THEN <<>> ELSE <<Update(i, Set(row, changes))>>

UpdateIfMoved(i, row, changes) ==
  IF DOMAIN Moved(row, changes) = {} THEN <<>> ELSE <<Update(i, Moved(row, changes))>>

TheEntry(d, j) == CHOOSE i \in Entry(d, j.id, j.unit) : TRUE
TheLink(d, j) == {i \in LinksOf(d, j.id) : SameKey(d[i], j.row)}

(* A unit and a weapon lose their links before they go, an army its        *)
(* entries.                                                                *)
DeletePlan_Uncleared(table, i) ==
  IF table \in {"armies", "units", "weapons"}
  THEN <<Collect(i), Take(i), Delete(i)>>
  ELSE <<Take(i), Delete(i)>>

DeletePlan(table, i) ==
  CASE table = "armies" -> <<Clear(i), Collect(i), Take(i), Delete(i)>>
    [] table \in {"units", "weapons"} -> <<Collect(i), Take(i), Delete(i)>>
    [] OTHER -> <<Take(i), Delete(i)>>

RemovePlan_Touching(list, i) == <<Delete(i), Update(list, <<>>)>>

RemovePlan(list, i) == <<Delete(i)>>

Plan(r) ==
  LET j == job[r] IN
  CASE j.kind = "add" ->
         <<Insert(NewId(r, 1), EntryRow(j.table, j.id, j.unit, j.amount))>>
    [] j.kind = "set" ->
         UpdateIfMoved(TheEntry(db, j), db[TheEntry(db, j)], [amount |-> j.amount])
    [] j.kind = "remove" -> RemovePlan(j.id, TheEntry(db, j))
    [] j.kind = "create" -> <<Insert(NewId(r, 1), j.row)>>
    [] j.kind = "update" -> UpdateIfMoved(j.id, tx[r].loaded, j.changes)
    [] j.kind = "delete" -> DeletePlan(j.table, j.id)
    [] j.kind = "link" -> IF TheLink(db, j) = {} THEN <<Insert(NewId(r, 1), j.row)>> ELSE <<>>
    [] j.kind = "unlink" -> SetToSeq({Unlink(i) : i \in TheLink(db, j)})
    [] j.kind = "seed" -> [n \in DOMAIN j.rows |-> Ensure(NewId(r, n), j.rows[n])]

(* The row the service refreshes when nothing had to be written.           *)
Refreshed(r) ==
  CASE job[r].kind = "set" -> TheEntry(db, job[r])
    [] job[r].kind = "update" -> job[r].id
    [] OTHER -> None

-----------------------------------------------------------------------------
(* Transactions *)

Outcomes == {"ok", "refused", "conflict", "failed", "lost"}

Init ==
  /\ db \in Databases
  /\ job \in Loads
  /\ tx = [r \in Requests |->
             [pc |-> "start", loaded |-> None, refreshed |-> None, todo |-> <<>>,
              wrote |-> <<>>, gone |-> {}, locks |-> {}, shares |-> {}]]

Step(r, t) == tx' = [tx EXCEPT ![r] = t] /\ UNCHANGED <<db, job>>

(* The session is closed, and what it held is forgotten.                   *)
Ended(outcome) ==
  [pc |-> outcome, loaded |-> None, refreshed |-> None, todo |-> <<>>,
   wrote |-> <<>>, gone |-> {}, locks |-> {}, shares |-> {}]

End(r, outcome) == Step(r, Ended(outcome))

Load(r) ==
  /\ tx[r].pc = "start"
  /\ \/ ~HasSubject(job[r]) /\ Step(r, [tx[r] EXCEPT !.pc = "loaded"])
     \/ /\ HasSubject(job[r]) /\ Found(db, job[r])
        /\ Step(r, [tx[r] EXCEPT !.pc = "loaded", !.loaded = db[job[r].id]])

Decide(r) ==
  /\ tx[r].pc = "loaded" /\ Accepts(db, job[r])
  /\ Step(r, [tx[r] EXCEPT !.pc = "working", !.refreshed = Refreshed(r), !.todo = Plan(r)])

Refuse(r) ==
  /\ \/ tx[r].pc = "start" /\ HasSubject(job[r]) /\ ~Found(db, job[r])
     \/ tx[r].pc = "loaded" /\ ~Accepts(db, job[r])
  /\ End(r, "refused")

Working(r) == tx[r].pc = "working" /\ tx[r].todo # <<>>
Reads(s) == s.op \in {"collect", "ensure"}

(* The flush of a deletion looks for what hangs on to the row, and deletes *)
(* the links it finds, in the order they were loaded, which is any; an     *)
(* entry would have its army_id nulled.                                    *)
OrphansAnEntry(r) ==
  /\ Working(r)
  /\ Head(tx[r].todo).op = "collect" /\ EntriesOf(View(r), Head(tx[r].todo).id) # {}

Gather(r) ==
  /\ Working(r) /\ Head(tx[r].todo).op = "collect" /\ ~OrphansAnEntry(r)
  /\ \E links \in SetToSeqs({Unlink(i) : i \in LinksOf(View(r), Head(tx[r].todo).id)}) :
       Step(r, [tx[r] EXCEPT !.todo = links \o Tail(@)])

(* The seed creates a row where its look-up by name finds none.            *)
Seek(r) ==
  /\ Working(r) /\ Head(tx[r].todo).op = "ensure"
  /\ LET s == Head(tx[r].todo)
         new == IF Matches(View(r), s.row) = {} THEN <<Insert(s.id, s.row)>> ELSE <<>>
     IN Step(r, [tx[r] EXCEPT !.todo = new \o Tail(@)])

Execute(r) ==
  /\ Working(r) /\ ~Reads(Head(tx[r].todo))
  /\ LET s == Head(tx[r].todo)
     IN /\ Unblocked(r, s) /\ Succeeds(View(r), s)
        /\ Step(r, [tx[r] EXCEPT
                !.todo = Tail(@),
                !.wrote = IF Leaves(s) THEN With(@, s.id, Left(View(r), s)) ELSE @,
                !.gone = @ \cup Gone(View(r), s),
                !.locks = @ \cup Needs(View(r), s), !.shares = @ \cup Shares(s)])

(* IntegrityError or StaleDataError: a 409, or the seed's traceback.       *)
Lose(r) ==
  /\ \/ OrphansAnEntry(r)
     \/ /\ Working(r) /\ ~Reads(Head(tx[r].todo))
        /\ Unblocked(r, Head(tx[r].todo)) /\ ~Succeeds(View(r), Head(tx[r].todo))
  /\ End(r, "conflict")

(* The answer to an update needs the row to refresh, and the answer about  *)
(* an army its total.                                                      *)
Answers(r) ==
  /\ tx[r].refreshed # None => tx[r].refreshed \in DOMAIN View(r)
  /\ (job[r].kind = "update" /\ job[r].table = "armies") =>
       PointsTotal(View(r), job[r].id) # Overflow

Complete(r) == tx[r].pc = "working" /\ tx[r].todo = <<>>

Fail(r) == Complete(r) /\ ~Answers(r) /\ End(r, "failed")

(* get_session commits after the handler returned.                         *)
Commit(r) ==
  /\ Complete(r) /\ Answers(r) /\ job[r].kind # "seed"
  /\ db' = View(r)
  /\ tx' = [tx EXCEPT ![r] = Ended("ok")]
  /\ UNCHANGED job

(* main of seed_datasheets leaves its session, which rolls back, and       *)
(* prints what it created.                                                 *)
Report(r) == Complete(r) /\ job[r].kind = "seed" /\ End(r, "ok")

(* The process or its connection dies with the transaction open, or        *)
(* PostgreSQL breaks a ring of waits it is in, which nothing tries again.  *)
Lost(r) == tx[r].pc \in {"loaded", "working"} /\ End(r, "lost")

Run(r) ==
  \/ Load(r) \/ Decide(r) \/ Refuse(r)
  \/ Gather(r) \/ Seek(r) \/ Execute(r) \/ Lose(r)
  \/ Fail(r) \/ Commit(r) \/ Report(r)

Next == \E r \in Requests : Run(r) \/ Lost(r)

Spec == Init /\ [][Next]_vars
-----------------------------------------------------------------------------
(* Properties *)

(* Rows keep the columns of their table, an entry is of at least one unit, *)
(* what a transaction locks it locks alone, and none holds a lock once it  *)
(* has ended.                                                              *)
TypeOK ==
  /\ Typed(db)
  /\ \A r \in Requests :
       /\ tx[r].pc \in {"start", "loaded", "working"} \cup Outcomes
       /\ tx[r].locks \cup tx[r].shares # {} => tx[r].pc = "working"
       /\ \A q \in Requests \ {r} : tx[q].locks \cap (tx[r].locks \cup tx[r].shares) = {}

(* Every row finds the rows it names, though what is deleted and what is   *)
(* added to it overlap: a list can always be drawn with its datasheets.    *)
ReferencesResolve == Resolved(db)

(* shortfall says exactly what to buy: of each unit, what all entries of   *)
(* the army ask beyond all the player owns.  It reads both lists as though *)
(* a unit were in each of them once, which only the unique keys ensure     *)
(* when additions overlap.                                                 *)
Amount(list, unit) == MapThenSumSet(LAMBDA i : db[i].amount, Entry(db, list, unit))

ShortfallIsExact ==
  \A army \in Of(db, "armies"), unit \in Of(db, "units") :
    LET asked == Amount(army, unit)
        owned == Amount(db[army].owner_user_id, unit)
        rows == {s \in Shortfall(db, army) : s.unit = unit}
    IN IF asked > owned
       THEN Cardinality(rows) = 1 /\ \A s \in rows : s.need = asked - owned
       ELSE rows = {}

(* A deletion that finds its row is turned away for something that holds   *)
(* on to the row, or for another request that touched it meanwhile: never  *)
(* for what the row itself owns.  "Remove the army's entries first so the  *)
(* ORM delete doesn't try to null their (NOT NULL) army_id."               *)
Disturbs(q, i) ==
  LET j == job[q] IN
  \/ i \in {j.id, j.unit, NewId(q, 1)} \cup Names(j.row)
  \/ j.kind = "delete" \/ Columns(j.changes) # {}

DeletionsYieldToOthers ==
  \A r \in Requests :
    (job[r].kind = "delete" /\ tx[r].pc \in {"refused", "conflict"} /\ Found(db, job[r])) =>
      \/ Holders(db, {job[r].id}) # {}
      \/ \E q \in Requests \ {r} : tx[q].pc = "ok" /\ Disturbs(q, job[r].id)

(* However requests overlap, each commit is one step of its own request,   *)
(* done on the tables as they are then: a repeated addition adds nothing,  *)
(* a stale check lets no row lose what it names, and nobody's columns are  *)
(* rewritten but those a request asked for and found different.            *)
Busy == {r \in Requests : tx[r].pc \in {"loaded", "working"}}
Seen == [r \in Busy |-> tx[r].loaded]
Finished == {r \in Requests : tx[r].pc \in Outcomes}

OneAtATime == INSTANCE Collection WITH seen <- Seen, done <- Finished

CommitsAreSteps == OneAtATime!Spec

(* unlink_weapon: "Detach a weapon from a unit; idempotent (no error if    *)
(* not linked)."                                                           *)
UnlinkIsIdempotent ==
  \A r \in Requests : job[r].kind = "unlink" => tx[r].pc # "conflict"

(* Requests wait for each other in a ring only around deletions: two of    *)
(* one row, where something was added to it after the first looked; or two *)
(* of units and two of weapons, each taking a link the next one wants; or  *)
(* with the seed, which takes its locks in the order of its source.        *)
(* Everything else holds nothing while it waits.                           *)
WaitsFor(r, q) ==
  /\ Working(r) /\ ~Reads(Head(tx[r].todo))
  /\ q # r /\ Blocks(q, r, Head(tx[r].todo))

Ring(S) == S # {} /\ \A r \in S : \E q \in S : WaitsFor(r, q)

Deletes(r, table) == job[r].kind = "delete" /\ job[r].table = table

DeleteTwo(S, table) ==
  \E q, r \in S : Deletes(q, table) /\ Deletes(r, table) /\ job[q].id # job[r].id

DeleteTheSame(S) ==
  \E q, r \in S :
    q # r /\ Deletes(q, job[q].table) /\ Deletes(r, job[q].table) /\ job[q].id = job[r].id

RingsAreOfDeletions ==
  \A S \in SUBSET Requests :
    Ring(S) =>
      \/ DeleteTheSame(S)
      \/ DeleteTwo(S, "units") /\ DeleteTwo(S, "weapons")
      \/ \E r \in S : job[r].kind = "seed"

(* SPEC.md: points_total is the sum of unit.points times amount; validate  *)
(* computes it too.  fields.py: a value the columns take is never a 500.   *)
TotalsAgree ==
  \A army \in Of(db, "armies") :
    PointsTotal(db, army) = Validate(db, army).points_total
=============================================================================
