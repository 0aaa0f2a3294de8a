--------------------------- MODULE KTGameSessions ---------------------------
(***************************************************************************)
(* Requests about one game that run at the same time.  Each is a session   *)
(* of its own, a transaction under READ COMMITTED: a SELECT sees what is   *)
(* committed when it runs, a write locks its row until the transaction     *)
(* ends, and waits for whoever holds it.  Nothing is serialised but by the *)
(* version of the game, which every UPDATE and DELETE of its row compares  *)
(* with the one the request loaded.                                        *)
(*                                                                         *)
(* What a row holds is abstracted to a count of the writes to it, so that  *)
(* a write computed from an old value shows.  What each operation does is  *)
(* in KTGame; here are the statements it sends, in their order.            *)
(***************************************************************************)
EXTENDS Integers, Sequences, SequencesExt, FiniteSetsExt, TLC

CONSTANTS
  Requests,
  Jobs,        \* what a request may ask for: [kind, row, expected]
  Histories,   \* databases to start from, each left by earlier requests
  Operatives,  \* rows of kt_game_operatives; the others are equipment
  Orders,      \* the orders the ids of events may have: ids are random
  Finished,    \* what the game's row holds once the game is finished
  None

VARIABLES
  db,    \* what is committed: alive, version, rows, log
  tx,    \* [Requests -> transaction]
  job,   \* [Requests -> Jobs]: never changes
  order  \* [sequence -> rank of the event's id]: never changes

vars == <<db, tx, job, order>>

(* The threads of a pool, and what earlier requests have left: an event    *)
(* for every version after the first.                                      *)
ASSUME RequestsAssumption == IsFiniteSet(Requests)

ASSUME HistoriesAssumption ==
  \A d \in Histories :
    /\ DOMAIN d = {"alive", "version", "rows", "log"}
    /\ d.version \in Nat \ {0}
    /\ d.alive => DOMAIN d.log = 1..(d.version - 1)

-----------------------------------------------------------------------------
(* The database.  Row 0 is the game's own; log is a function from          *)
(* sequences to events.                                                    *)

GameRow == 0

With(f, x, y) == [z \in DOMAIN f \cup {x} |-> IF z = x THEN y ELSE f[z]]
Without(f, x) == [z \in DOMAIN f \ {x} |-> f[z]]

NextSequence(d) == Max({0} \cup DOMAIN d.log) + 1

Standing(d) == {i \in DOMAIN d.log : d.log[i].op # "undo" /\ d.log[i].undone_by = None}

Newest(d) == Max(Standing(d))

(* get_owned_game and _require_game. *)
Edits == {"write", "finish", "add", "remove"}

Admitted(d, j) ==
  /\ d.alive
  /\ j.kind \in Edits => /\ d.rows[GameRow] # Finished
                         /\ j.expected \in {None, d.version}

(* What a request does to a row, and the event that records it.            *)
Change(effect, row, value, op, before) ==
  [effect |-> effect, row |-> row, value |-> value,
   event |-> [op |-> op, row |-> row, before |-> before, undone_by |-> None]]

NoChange == Change("none", GameRow, None, "none", None)

Reversal(d, e) ==
  CASE e.op = "fields" /\ e.row \in DOMAIN d.rows ->
         Change("set", e.row, e.before, "undo", None)
    [] e.op = "created" -> Change("delete", e.row, None, "undo", None)
    [] e.op = "deleted" -> Change("insert", e.row, e.before, "undo", None)
    [] OTHER -> NoChange

(* NoChange when the handler refuses: the row is missing, the piece is     *)
(* taken, nothing is left to undo.  The game's row is the one the request  *)
(* loaded first; the others are read now.                                  *)
Plan(j, d, game) ==
  LET x == j.row
      held == IF x = GameRow THEN game ELSE d.rows[x]
  IN CASE j.kind = "write" /\ x \in DOMAIN d.rows \cup {GameRow} ->
            Change("set", x, held + 1, "fields", held)
       [] j.kind = "finish" -> Change("set", GameRow, Finished, "fields", game)
       [] j.kind = "add" /\ x \notin DOMAIN d.rows -> Change("insert", x, 0, "created", None)
       [] j.kind = "remove" /\ x \in DOMAIN d.rows -> Change("delete", x, None, "deleted", held)
       [] j.kind = "undo" /\ Standing(d) # {} -> Reversal(d, d.log[Newest(d)])
       [] OTHER -> NoChange

(* The rows and the log once the transaction's writes are in.              *)
Changed(rows, c) ==
  CASE c.effect \in {"set", "insert"} -> With(rows, c.row, c.value)
    [] c.effect = "delete" -> Without(rows, c.row)

Applied_GameOnly(d, version, sequence, c, undoes) ==
  [d EXCEPT !.version = IF c.row = GameRow THEN version + 1 ELSE version,
            !.rows = Changed(@, c),
            !.log = With([i \in DOMAIN @ |-> IF i = undoes THEN [@[i] EXCEPT !.undone_by = sequence]
                                             ELSE @[i]],
                         sequence, c.event)]

Applied(d, version, sequence, c, undoes) ==
  [d EXCEPT !.version = version + 1,
            !.rows = Changed(@, c),
            !.log = With([i \in DOMAIN @ |-> IF i = undoes THEN [@[i] EXCEPT !.undone_by = sequence]
                                             ELSE @[i]],
                         sequence, c.event)]

Deleted(d) == [d EXCEPT !.alive = FALSE, !.rows = <<>>, !.log = <<>>]

-----------------------------------------------------------------------------
(* Transactions *)

Row(x) == <<"row", x>>
Event(i) == <<"event", i>>

NewTransaction ==
  [pc |-> "start", outcome |-> None, version |-> 0, game |-> None,
   change |-> NoChange, undoes |-> None, sequence |-> 0,
   rows |-> {}, doomed |-> <<>>, shown |-> None, listed |-> {},
   locks |-> {}, shares |-> FALSE]

Init ==
  /\ db \in Histories
  /\ tx = [r \in Requests |-> NewTransaction]
  /\ job \in [Requests -> Jobs]
  /\ order \in Orders

Revised(t, changes) == [f \in DOMAIN t |-> IF f \in DOMAIN changes THEN changes[f] ELSE t[f]]

Step(r, changes) ==
  /\ tx' = [tx EXCEPT ![r] = Revised(@, changes)]
  /\ UNCHANGED <<db, job, order>>

End(r, outcome) ==
  Step(r, [pc |-> "done", outcome |-> outcome, locks |-> {}, shares |-> FALSE])

(* A deletion has nothing left but the game itself.                        *)
GameIsNext(r) == tx[r].pc = "deleting" /\ tx[r].doomed = <<>>

NextDoomed(r) == IF GameIsNext(r) THEN Row(GameRow) ELSE Head(tx[r].doomed)

(* The row the next statement of a request locks: the change's own, then   *)
(* the game's, then the undone event's.                                    *)
Needs_UndoBumpsFirst(r) ==
  CASE tx[r].pc = "prepared" ->
         {Row(IF tx[r].undoes = None THEN tx[r].change.row ELSE GameRow)}
    [] tx[r].pc = "numbered" ->
         {Row(IF tx[r].undoes = None THEN GameRow ELSE tx[r].change.row)}
    [] tx[r].pc = "bumped" -> {Event(tx[r].undoes)}
    [] tx[r].pc = "deleting" -> {NextDoomed(r)}
    [] OTHER -> {}

Needs(r) ==
  CASE tx[r].pc = "prepared" -> {Row(tx[r].change.row)}
    [] tx[r].pc = "numbered" -> {Row(GameRow)}
    [] tx[r].pc = "bumped" -> {Event(tx[r].undoes)}
    [] tx[r].pc = "deleting" -> {NextDoomed(r)}
    [] OTHER -> {}

Locked(r) == tx[r].locks \cup Needs(r)

Inserting(r) == tx[r].pc = "prepared" /\ tx[r].change.effect = "insert"

(* An insert checks its foreign key: it shares the game's row, which only  *)
(* a DELETE of that row minds.                                             *)
Blockers(r) ==
  {q \in Requests \ {r} :
     \/ Needs(r) \cap tx[q].locks # {}
     \/ Inserting(r) /\ job[q].kind = "delete" /\ Row(GameRow) \in tx[q].locks
     \/ GameIsNext(r) /\ tx[q].shares}

Unblocked(r) == Blockers(r) = {}

(* WHERE id = ... AND version = <the version this request loaded> *)
Current_Unversioned(r) == db.alive

Current(r) == db.alive /\ db.version = tx[r].version

(* Whether a change finds its row: an UPDATE must match one, an INSERT     *)
(* needs its game and its key free; a DELETE that matches none is let be.  *)
Lands(c) ==
  CASE c.effect = "set" -> c.row \in DOMAIN db.rows
    [] c.effect = "insert" -> db.alive /\ c.row \notin DOMAIN db.rows
    [] c.effect = "delete" -> TRUE

(* Its foreign key keeps an event that undid another until that one is     *)
(* gone.                                                                   *)
Deletable(r, x) ==
  \A j \in DOMAIN db.log :
    Event(db.log[j].undone_by) = x => Event(j) \in tx[r].locks

(* Whether the next statement of a request matches a row and breaks no     *)
(* constraint.                                                             *)
Succeeds(r) ==
  CASE tx[r].pc = "prepared" ->
         IF tx[r].change.row = GameRow THEN Current(r) ELSE Lands(tx[r].change)
    [] tx[r].pc = "numbered" -> Current(r) /\ tx[r].sequence \notin DOMAIN db.log
    [] tx[r].pc = "bumped" -> tx[r].undoes \in DOMAIN db.log
    [] tx[r].pc = "deleting" ->
         IF GameIsNext(r) THEN Current(r) ELSE Deletable(r, NextDoomed(r))

-----------------------------------------------------------------------------
(* The statements of a request *)

(* The game is loaded once: the service finds it in the session.           *)
Begin(r) ==
  /\ tx[r].pc = "start"
  /\ Admitted(db, job[r])
  /\ Step(r, [pc |-> "loaded", version |-> db.version, game |-> db.rows[GameRow]])

Prepare(r) ==
  /\ tx[r].pc = "loaded"
  /\ LET c == Plan(job[r], db, tx[r].game) IN
       /\ c # NoChange
       /\ Step(r, [pc |-> "prepared", change |-> c,
                   undoes |-> IF job[r].kind = "undo" THEN Newest(db) ELSE None])

Refuse(r) ==
  /\ \/ tx[r].pc = "start" /\ ~Admitted(db, job[r])
     \/ /\ tx[r].pc = "loaded" /\ job[r].kind \in Edits \cup {"undo"}
        /\ Plan(job[r], db, tx[r].game) = NoChange
  /\ End(r, "refused")

(* The change itself, sent before the next sequence is asked for.          *)
Touch(r) ==
  /\ tx[r].pc = "prepared"
  /\ Unblocked(r) /\ Succeeds(r)
  /\ Step(r, [pc |-> "touched", locks |-> Locked(r),
              shares |-> tx[r].change.effect = "insert"])

Number(r) ==
  /\ tx[r].pc = "touched"
  /\ Step(r, [pc |-> "numbered", sequence |-> NextSequence(db)])

(* The new version, and the event. *)
Bump(r) ==
  /\ tx[r].pc = "numbered"
  /\ Unblocked(r) /\ Succeeds(r)
  /\ Step(r, [pc |-> IF tx[r].undoes = None THEN "written" ELSE "bumped",
              locks |-> Locked(r)])

(* undone_by of the event that was undone. *)
Compensate(r) ==
  /\ tx[r].pc = "bumped"
  /\ Unblocked(r) /\ Succeeds(r)
  /\ Step(r, [pc |-> "written", locks |-> Locked(r)])

(* session.delete loads the game's collections, and the flush deletes what *)
(* they held one by one: equipment, events and operatives, each in the     *)
(* order of their ids, then the game.                                      *)
CollectRows(r) ==
  /\ tx[r].pc = "loaded" /\ job[r].kind = "delete"
  /\ Step(r, [pc |-> "collecting", rows |-> DOMAIN db.rows \ {GameRow}])

InOrder(S) == SetToSortSeq(S, <)

CollectEvents(r) ==
  /\ tx[r].pc = "collecting"
  /\ LET rows(S) == [i \in 1..Cardinality(S) |-> Row(InOrder(S)[i])]
         ids == SetToSortSeq(DOMAIN db.log, LAMBDA i, j : order[i] < order[j])
         log == [i \in DOMAIN ids |-> Event(ids[i])]
     IN Step(r, [pc |-> "deleting",
                 doomed |-> rows(tx[r].rows \ Operatives) \o log
                            \o rows(tx[r].rows \cap Operatives)])

DeleteNext(r) ==
  /\ tx[r].pc = "deleting"
  /\ Unblocked(r) /\ Succeeds(r)
  /\ Step(r, [pc |-> IF GameIsNext(r) THEN "written" ELSE "deleting",
              doomed |-> IF GameIsNext(r) THEN <<>> ELSE Tail(tx[r].doomed),
              locks |-> Locked(r)])

Lose_Retries(r) ==
  /\ tx[r].pc \in {"prepared", "numbered", "bumped", "deleting"}
  /\ Unblocked(r) /\ ~Succeeds(r)
  /\ Step(r, [pc |-> "loaded", locks |-> {}, shares |-> FALSE])

(* No row matched (StaleDataError) or a constraint broke (IntegrityError): *)
(* the transaction is rolled back and the answer is a 409.                 *)
Lose(r) ==
  /\ tx[r].pc \in {"prepared", "numbered", "bumped", "deleting"}
  /\ Unblocked(r) /\ ~Succeeds(r)
  /\ End(r, "conflict")

(* get_session, after the handler has returned.                            *)
Commit(r) ==
  /\ tx[r].pc = "written"
  /\ db' = IF job[r].kind = "delete" THEN Deleted(db)
           ELSE Applied(db, tx[r].version, tx[r].sequence, tx[r].change, tx[r].undoes)
  /\ tx' = [tx EXCEPT ![r] =
              Revised(@, [pc |-> "done", outcome |-> "ok", locks |-> {}, shares |-> FALSE])]
  /\ UNCHANGED <<job, order>>

(* get_game: the game, then its rows, then its events, a SELECT each.      *)
ReadRows(r) ==
  /\ tx[r].pc = "loaded" /\ job[r].kind = "read"
  /\ Step(r, [pc |-> "reading", shown |-> db.rows])

ReadEvents(r) ==
  /\ tx[r].pc = "reading"
  /\ Step(r, [pc |-> "done", outcome |-> "ok", listed |-> DOMAIN db.log])

-----------------------------------------------------------------------------
(* What is not the request's doing *)

(* A circle of requests, each waiting for the next.                        *)
WaitsInCircle(r) ==
  \E n \in 1..Cardinality(Requests) : \E circle \in [1..n -> Requests] :
    /\ circle[1] = r
    /\ \A i \in 1..n : circle[IF i = n THEN 1 ELSE i + 1] \in Blockers(circle[i])

(* PostgreSQL aborts one of a circle of waiting transactions, which no     *)
(* handler expects: the answer is a 500.                                   *)
DeadlockAborts(r) == WaitsInCircle(r) /\ End(r, "error")

(* The process or its connection dies with the transaction open.           *)
Lost(r) == tx[r].pc \notin {"start", "done"} /\ End(r, "lost")

Run(r) ==
  \/ Begin(r) \/ Prepare(r) \/ Refuse(r)
  \/ Touch(r) \/ Number(r) \/ Bump(r) \/ Compensate(r)
  \/ CollectRows(r) \/ CollectEvents(r) \/ DeleteNext(r)
  \/ Lose(r) \/ Commit(r)
  \/ ReadRows(r) \/ ReadEvents(r)

Next == \E r \in Requests : Run(r) \/ DeadlockAborts(r) \/ Lost(r)

Spec == Init /\ [][Next]_vars

(* A thread of the pool goes on with its request while it can, and the     *)
(* database looks for deadlocks.                                           *)
FairSpec ==
  /\ Spec
  /\ \A r \in Requests : WF_vars(Run(r)) /\ WF_vars(DeadlockAborts(r))

-----------------------------------------------------------------------------
(* Properties *)

Outcomes == {"ok", "refused", "conflict", "error", "lost"}

ASSUME NoneAssumption == None \notin Outcomes

(* Requests are what they may be, no two hold one lock, and the log counts *)
(* the versions.                                                           *)
TypeOK ==
  /\ job \in [Requests -> Jobs]
  /\ \A r \in Requests : /\ (tx[r].pc = "done") = (tx[r].outcome \in Outcomes)
                         /\ tx[r].version \in 0..db.version
  /\ \A q, r \in Requests : q # r => tx[q].locks \cap tx[r].locks = {}
  /\ db.alive => DOMAIN db.log = 1..(db.version - 1)

(* What a job comes to when it runs with nothing beside it.                *)
Performed(d, j) ==
  LET c == Plan(j, d, d.rows[GameRow]) IN
  IF ~Admitted(d, j) \/ j.kind = "read" THEN d
  ELSE IF j.kind = "delete" THEN Deleted(d)
  ELSE IF c = NoChange THEN d
  ELSE Applied(d, d.version, NextSequence(d), c, IF j.kind = "undo" THEN Newest(d) ELSE None)

(* Decision #9: whatever runs at the same time, what is committed is what  *)
(* the same requests leave behind one at a time.  So no command point pays *)
(* for two ploys, no event is undone twice, nothing is written to a game   *)
(* finished or deleted meanwhile, and a version sent is the one replaced.  *)
OneAtATime ==
  [][\E r \in Requests : db' = Performed(db, job[r])]_db

(* A client may rely on the version it was shown: while it is current, so  *)
(* is every row and event shown with it, though they were read later.      *)
VersionVouchesForRows ==
  \A r \in Requests :
    (/\ job[r].kind = "read" /\ tx[r].outcome = "ok"
     /\ db.alive /\ tx[r].version = db.version) =>
       tx[r].shown = db.rows /\ tx[r].listed = DOMAIN db.log

(* Requests that edit or undo never wait for each other in a circle: only  *)
(* a deletion, which takes the rows and events before the game, can.       *)
OnlyDeletionDeadlocks ==
  \A r \in Requests :
    WaitsInCircle(r) => \E q \in Requests : job[q].kind = "delete" /\ tx[q].pc = "deleting"

(* Nobody waits for ever: every request is answered. *)
EveryRequestEnds == \A r \in Requests : <>(tx[r].pc = "done")

(* delete_game: "Delete a game and everything on it".  A deletion is only  *)
(* turned away if the game moved since it was loaded.                      *)
DeletionTakesTheWholeGame ==
  \A r \in Requests :
    job[r].kind = "delete" /\ tx[r].outcome = "conflict" =>
      ~db.alive \/ db.version # tx[r].version

=============================================================================
