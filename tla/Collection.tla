----------------------------- MODULE Collection -----------------------------
(***************************************************************************)
(* What the army builder promises of its tables: each request is done at   *)
(* most once, in one step, on the rows as they are in that step.  It adds  *)
(* the row it asked for where the key is free and every row named is       *)
(* there; or changes the columns it asked for; or takes away its row, if   *)
(* nothing holds on to it, with what cascades.  What it does not promise   *)
(* is that a request looks and acts at once: a PATCH sends the columns     *)
(* that differ from the row as it saw it earlier, so that two of one row   *)
(* may leave columns of each, which neither would have left alone.         *)
(***************************************************************************)
EXTENDS CollectionTables

CONSTANTS
  Requests,
  Loads,      \* which request has which job
  Databases   \* what there is to begin with

VARIABLES
  db,    \* the tables
  job,   \* never changes
  seen,  \* of the requests at work, the row each was about when it looked
  done   \* the requests that have ended

vars == <<db, job, seen, done>>

Init ==
  /\ db \in Databases
  /\ job \in Loads
  /\ seen = <<>>
  /\ done = {}

(* What a request is about is there, and its caller's.                     *)
Allowed(r) == HasSubject(job[r]) => Found(db, job[r])

Look(r) ==
  /\ r \notin done \cup DOMAIN seen /\ Allowed(r)
  /\ seen' = With(seen, r, IF HasSubject(job[r]) THEN db[job[r].id] ELSE None)
  /\ UNCHANGED <<db, job, done>>

End(r) ==
  /\ r \notin done /\ done' = done \cup {r}
  /\ seen' = Without(seen, {r})
  /\ UNCHANGED job

Ready(r) == r \in DOMAIN seen /\ Allowed(r)

RowAsked(j) == IF j.kind = "add" THEN EntryRow(j.table, j.id, j.unit, j.amount) ELSE j.row

Add(r) ==
  LET row == RowAsked(job[r]) IN
  /\ job[r].kind \in {"add", "create", "link"} /\ Ready(r)
  /\ NewId(r, 1) \notin DOMAIN db
  /\ IsRow(row) /\ Free(db, row) /\ Resolves(db, row)
  /\ db' = With(db, NewId(r, 1), row)

ChangesAsked(r) ==
  IF job[r].kind = "update" THEN Moved(seen[r], job[r].changes)
  ELSE [amount |-> job[r].amount]

Change(r) ==
  \E i \in DOMAIN db :
    LET row == Set(db[i], ChangesAsked(r)) IN
    /\ Ready(r)
    /\ \/ job[r].kind = "update" /\ i = job[r].id
       \/ job[r].kind = "set" /\ i \in Entry(db, job[r].id, job[r].unit)
    /\ DOMAIN ChangesAsked(r) \cap UniqueKey[db[i].table] = {}
    /\ IsRow(row) /\ Resolves(db, row)
    /\ db' = [db EXCEPT ![i] = row]

Remove(r) ==
  \E i \in DOMAIN db :
    /\ Ready(r)
    /\ \/ job[r].kind = "delete" /\ i = job[r].id
       \/ job[r].kind = "remove" /\ i \in Entry(db, job[r].id, job[r].unit)
       \/ job[r].kind = "unlink" /\ SameKey(db[i], job[r].row)
    /\ Holders(db, {i}) = {}
    /\ db' = Without(db, Swept(db, {i}))

(* A request that was refused or failed, or found nothing left to do, ends *)
(* and changes nothing.                                                    *)
Next ==
  \E r \in Requests :
    \/ Look(r)
    \/ End(r) /\ (UNCHANGED db \/ Add(r) \/ Change(r) \/ Remove(r))

Spec == Init /\ [][Next]_vars
=============================================================================
