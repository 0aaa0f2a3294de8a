------------------------- MODULE KTGameSessionsProofs -------------------------
(***************************************************************************)
(* The version of a game is all that orders the requests about it.  Here   *)
(* is why it is enough, for any number of requests and any history: while  *)
(* the version a request loaded is current, so is everything it has read   *)
(* since, and from the statement that compares the two until the commit    *)
(* the lock on the game's row keeps it so.                                 *)
(***************************************************************************)
EXTENDS KTGameSessions, FiniteSetTheorems, TLAPS

-----------------------------------------------------------------------------
(* The inductive invariant: of the tables, of each request, and of any two *)

Fields == {"pc", "outcome", "version", "game", "change", "undoes", "sequence", "rows", "doomed",
           "shown", "listed", "locks", "shares"}

Tables ==
  /\ DOMAIN db = {"alive", "version", "rows", "log"}
  /\ db.version \in Nat \ {0}
  /\ db.alive => DOMAIN db.log = 1..(db.version - 1)

Sessions ==
  /\ job \in [Requests -> Jobs]
  /\ DOMAIN tx = Requests
  /\ \A r \in Requests : DOMAIN tx[r] = Fields

Writing == {"prepared", "touched", "numbered", "bumped"}
Deleting == {"collecting", "deleting"}
Running == {"loaded", "reading", "written"} \cup Writing \cup Deleting

Ending(t) ==
  /\ (t.pc = "done") = (t.outcome \in Outcomes)
  /\ t.version \in 0..db.version

(* Which requests take which steps. *)
Kind(t, j) ==
  /\ t.pc \in Writing => j.kind \notin {"delete", "read"}
  /\ t.pc \in Deleting => j.kind = "delete"
  /\ t.pc = "written" => j.kind # "read"
  /\ t.pc = "reading" => j.kind = "read"

(* What a request has read and computed is as if all of it had been now.   *)
UpToDate(t, j) ==
  /\ t.pc \in Running => Admitted(db, j) /\ t.game = db.rows[GameRow]
  /\ (t.pc \in Writing \cup {"written"} /\ j.kind # "delete") =>
       /\ t.change = Plan(j, db, t.game) /\ t.change # NoChange
       /\ t.undoes = IF j.kind = "undo" THEN Newest(db) ELSE None
  /\ (t.pc \in {"numbered", "bumped", "written"} /\ j.kind # "delete") =>
       t.sequence = NextSequence(db)
  /\ t.pc = "reading" => t.shown = db.rows
  /\ (t.outcome = "ok" /\ j.kind = "read") => t.shown = db.rows /\ t.listed = DOMAIN db.log

(* A current version vouches for all of it: every commit makes a version,  *)
(* or ends the game.                                                       *)
Vouched(t, j) == (db.alive /\ t.version = db.version) => UpToDate(t, j)

(* Whoever has compared the versions holds the game's row, and the         *)
(* comparison still holds.                                                 *)
GameHeld(t) ==
  t.pc \in {"bumped", "written"} =>
    Row(GameRow) \in t.locks /\ db.alive /\ db.version = t.version

(* What is locked when. *)
InTurn(t) ==
  /\ t.pc \in {"start", "loaded", "prepared", "collecting", "reading", "done"} => t.locks = {}
  /\ t.pc \notin {"written", "deleting"} => \A l \in t.locks : l[1] = "row"

Good(t, j) == Ending(t) /\ Kind(t, j) /\ Vouched(t, j) /\ GameHeld(t) /\ InTurn(t)

LocksExclude ==
  \A q, r \in Requests : q # r => tx[q].locks \cap tx[r].locks = {}

IInv ==
  /\ Tables /\ Sessions /\ LocksExclude
  /\ \A r \in Requests : Good(tx[r], job[r])

-----------------------------------------------------------------------------
(* Steps that commit nothing *)

LEMMA StepKeeps ==
  ASSUME NEW r \in Requests, NEW c, IInv, Step(r, c),
         Good(Revised(tx[r], c), job[r]),
         \A q \in Requests \ {r} : Revised(tx[r], c).locks \cap tx[q].locks = {}
  PROVE  IInv'
<1>1. PICK t : t = Revised(tx[r], c)
  OBVIOUS
<1>2. /\ db' = db /\ job' = job /\ DOMAIN tx' = Requests
      /\ tx'[r] = t /\ \A q \in Requests \ {r} : tx'[q] = tx[q]
  BY <1>1 DEF Step, IInv, Sessions
<1>3. DOMAIN t = Fields
  BY <1>1 DEF Revised, IInv, Sessions
<1>4. Tables' /\ Sessions'
  BY <1>2, <1>3 DEF IInv, Tables, Sessions
<1>5. LocksExclude'
  <2> SUFFICES ASSUME NEW p \in Requests, NEW q \in Requests, p # q
               PROVE  tx'[p].locks \cap tx'[q].locks = {}
    BY DEF LocksExclude
  <2>1. CASE p = r
    BY <1>1, <1>2, <2>1
  <2>2. CASE q = r
    BY <1>1, <1>2, <2>2
  <2>3. CASE p # r /\ q # r
    BY <1>2, <2>3 DEF IInv, LocksExclude
  <2> QED BY <2>1, <2>2, <2>3
<1>6. ASSUME NEW q \in Requests PROVE Good(tx[q], job[q])'
  <2>1. Good(tx'[q], job'[q])
    BY <1>1, <1>2 DEF IInv
  <2> QED
    BY <1>2, <2>1 DEF Good, Ending, Kind, Vouched, UpToDate, GameHeld, InTurn
<1> QED BY <1>4, <1>5, <1>6 DEF IInv

(* A step that leaves what a request holds leaves the others be.           *)
LEMMA SameLocks ==
  ASSUME NEW r \in Requests, IInv, NEW t, t.locks \in {{}, tx[r].locks}
  PROVE  \A q \in Requests \ {r} : t.locks \cap tx[q].locks = {}
BY DEF IInv, LocksExclude

LEMMA BeginKeeps ==
  ASSUME NEW r \in Requests, IInv, Begin(r)
  PROVE  IInv'
<1> DEFINE c == [pc |-> "loaded", version |-> db.version, game |-> db.rows[GameRow]]
           t == Revised(tx[r], c)
<1>1. /\ t.pc = "loaded" /\ t.version = db.version /\ t.game = db.rows[GameRow]
      /\ t.outcome = tx[r].outcome /\ t.locks = tx[r].locks
  BY DEF Revised, IInv, Sessions, Fields
<1>2. tx[r].pc = "start" /\ Admitted(db, job[r]) /\ Step(r, c) /\ Good(tx[r], job[r])
  BY DEF Begin, IInv
<1>3. Good(t, job[r])
  <2> HIDE DEF t
  <2> QED
    BY <1>1, <1>2, NoneAssumption
    DEF Good, Ending, Kind, Vouched, UpToDate, GameHeld, InTurn, Writing, Deleting, Outcomes,
        IInv, Tables
<1>4. \A q \in Requests \ {r} : t.locks \cap tx[q].locks = {}
  BY <1>1, SameLocks
<1> QED BY <1>2, <1>3, <1>4, StepKeeps

LEMMA PrepareKeeps ==
  ASSUME NEW r \in Requests, IInv, Prepare(r)
  PROVE  IInv'
<1> DEFINE p == Plan(job[r], db, tx[r].game)
           u == IF job[r].kind = "undo" THEN Newest(db) ELSE None
           c == [pc |-> "prepared", change |-> p, undoes |-> u]
           t == Revised(tx[r], c)
<1>1. /\ t.pc = "prepared" /\ t.change = p /\ t.undoes = u /\ t.version = tx[r].version
      /\ t.outcome = tx[r].outcome /\ t.locks = tx[r].locks /\ t.game = tx[r].game
  BY DEF Revised, IInv, Sessions, Fields
<1>2. tx[r].pc = "loaded" /\ p # NoChange /\ Step(r, c) /\ Good(tx[r], job[r])
  BY DEF Prepare, IInv
<1>3. job[r].kind \notin {"delete", "read"}
  <2>1. job[r].kind \in {"delete", "read"} => p = NoChange
    BY DEF Plan
  <2> QED BY <1>2, <2>1
<1>4. Good(t, job[r])
  <2> HIDE DEF t, p
  <2> QED
    BY <1>1, <1>2, <1>3
    DEF Good, Ending, Kind, Vouched, UpToDate, GameHeld, InTurn, Writing, Deleting, Running, p
<1>5. \A q \in Requests \ {r} : t.locks \cap tx[q].locks = {}
  BY <1>1, SameLocks
<1> QED BY <1>2, <1>4, <1>5, StepKeeps

LEMMA EndKeeps ==
  ASSUME NEW r \in Requests, NEW o \in Outcomes, o # "ok", IInv, End(r, o)
  PROVE  IInv'
<1> DEFINE c == [pc |-> "done", outcome |-> o, locks |-> {}, shares |-> FALSE]
           t == Revised(tx[r], c)
<1>1. /\ t.pc = "done" /\ t.outcome = o /\ t.version = tx[r].version /\ t.locks = {}
  BY DEF Revised, IInv, Sessions, Fields
<1>2. Step(r, c) /\ Good(tx[r], job[r])
  BY DEF End, IInv
<1>3. Good(t, job[r])
  <2> HIDE DEF t
  <2> QED
    BY <1>1, <1>2
    DEF Good, Ending, Kind, Vouched, UpToDate, GameHeld, InTurn, Writing, Deleting, Running
<1>4. \A q \in Requests \ {r} : t.locks \cap tx[q].locks = {}
  BY <1>1
<1> QED BY <1>2, <1>3, <1>4, StepKeeps

(* Refused, turned away by the database, aborted or lost: locks are given  *)
(* back.                                                                   *)
LEMMA EndingKeeps ==
  ASSUME NEW r \in Requests, IInv, Refuse(r) \/ Lose(r) \/ DeadlockAborts(r) \/ Lost(r)
  PROVE  IInv'
<1>1. \E o \in {"refused", "conflict", "error", "lost"} : End(r, o)
  BY DEF Refuse, Lose, DeadlockAborts, Lost
<1> QED BY <1>1, EndKeeps DEF Outcomes

(* A statement that locks a row nobody has.                                *)
LEMMA NeedsAreFree ==
  ASSUME NEW r \in Requests, IInv, Unblocked(r), NEW t, t.locks = Locked(r)
  PROVE  \A q \in Requests \ {r} : t.locks \cap tx[q].locks = {}
<1> SUFFICES ASSUME NEW q \in Requests \ {r} PROVE t.locks \cap tx[q].locks = {}
  OBVIOUS
<1>1. Needs(r) \cap tx[q].locks = {}
  BY DEF Unblocked, Blockers
<1>2. tx[r].locks \cap tx[q].locks = {}
  BY DEF IInv, LocksExclude
<1> QED BY <1>1, <1>2 DEF Locked

LEMMA TouchKeeps ==
  ASSUME NEW r \in Requests, IInv, Touch(r)
  PROVE  IInv'
<1> DEFINE inserts == tx[r].change.effect = "insert"
           c == [pc |-> "touched", locks |-> Locked(r), shares |-> inserts]
           t == Revised(tx[r], c)
<1>1. /\ t.pc = "touched" /\ t.locks = Locked(r) /\ t.change = tx[r].change
      /\ t.undoes = tx[r].undoes /\ t.version = tx[r].version
      /\ t.outcome = tx[r].outcome /\ t.game = tx[r].game
  BY DEF Revised, IInv, Sessions, Fields
<1>2. tx[r].pc = "prepared" /\ Unblocked(r) /\ Step(r, c) /\ Good(tx[r], job[r])
  BY DEF Touch, IInv
<1>3. Locked(r) = {Row(tx[r].change.row)}
  BY <1>2 DEF Locked, Needs, Good, InTurn
<1>4. Good(t, job[r])
  <2> HIDE DEF t
  <2> QED
    BY <1>1, <1>2, <1>3
    DEF Good, Ending, Kind, Vouched, UpToDate, GameHeld, InTurn, Writing, Deleting, Running, Row
<1>5. \A q \in Requests \ {r} : t.locks \cap tx[q].locks = {}
  BY <1>1, <1>2, NeedsAreFree
<1> QED BY <1>2, <1>4, <1>5, StepKeeps

LEMMA NumberKeeps ==
  ASSUME NEW r \in Requests, IInv, Number(r)
  PROVE  IInv'
<1> DEFINE c == [pc |-> "numbered", sequence |-> NextSequence(db)]
           t == Revised(tx[r], c)
<1>1. /\ t.pc = "numbered" /\ t.locks = tx[r].locks /\ t.change = tx[r].change
      /\ t.undoes = tx[r].undoes /\ t.version = tx[r].version /\ t.sequence = NextSequence(db)
      /\ t.outcome = tx[r].outcome /\ t.game = tx[r].game
  BY DEF Revised, IInv, Sessions, Fields
<1>2. tx[r].pc = "touched" /\ Step(r, c) /\ Good(tx[r], job[r])
  BY DEF Number, IInv
<1>3. Good(t, job[r])
  <2> HIDE DEF t
  <2> QED
    BY <1>1, <1>2
    DEF Good, Ending, Kind, Vouched, UpToDate, GameHeld, InTurn, Writing, Deleting, Running
<1>4. \A q \in Requests \ {r} : t.locks \cap tx[q].locks = {}
  BY <1>1, SameLocks
<1> QED BY <1>2, <1>3, <1>4, StepKeeps

(* The statement that compares the versions, and locks the game's row.     *)
LEMMA BumpKeeps ==
  ASSUME NEW r \in Requests, IInv, Bump(r)
  PROVE  IInv'
<1> DEFINE pc == IF tx[r].undoes = None THEN "written" ELSE "bumped"
           c == [pc |-> pc, locks |-> Locked(r)]
           t == Revised(tx[r], c)
<1>1. /\ t.pc \in {"written", "bumped"} /\ t.locks = Locked(r) /\ t.change = tx[r].change
      /\ t.undoes = tx[r].undoes /\ t.version = tx[r].version /\ t.sequence = tx[r].sequence
      /\ t.outcome = tx[r].outcome /\ t.game = tx[r].game
  BY DEF Revised, IInv, Sessions, Fields
<1>2. tx[r].pc = "numbered" /\ Unblocked(r) /\ Succeeds(r) /\ Step(r, c) /\ Good(tx[r], job[r])
  BY DEF Bump, IInv
<1>3. db.alive /\ db.version = tx[r].version
  BY <1>2 DEF Succeeds, Current
<1>4. Locked(r) = tx[r].locks \cup {Row(GameRow)}
  BY <1>2 DEF Locked, Needs
<1>5. Good(t, job[r])
  <2> HIDE DEF t
  <2> QED
    BY <1>1, <1>2, <1>3, <1>4
    DEF Good, Ending, Kind, Vouched, UpToDate, GameHeld, InTurn, Writing, Deleting, Running, Row
<1>6. \A q \in Requests \ {r} : t.locks \cap tx[q].locks = {}
  BY <1>1, <1>2, NeedsAreFree
<1> QED BY <1>2, <1>5, <1>6, StepKeeps

LEMMA CompensateKeeps ==
  ASSUME NEW r \in Requests, IInv, Compensate(r)
  PROVE  IInv'
<1> DEFINE c == [pc |-> "written", locks |-> Locked(r)]
           t == Revised(tx[r], c)
<1>1. /\ t.pc = "written" /\ t.locks = Locked(r) /\ t.change = tx[r].change
      /\ t.undoes = tx[r].undoes /\ t.version = tx[r].version /\ t.sequence = tx[r].sequence
      /\ t.outcome = tx[r].outcome /\ t.game = tx[r].game
  BY DEF Revised, IInv, Sessions, Fields
<1>2. tx[r].pc = "bumped" /\ Unblocked(r) /\ Step(r, c) /\ Good(tx[r], job[r])
  BY DEF Compensate, IInv
<1>3. tx[r].locks \subseteq Locked(r)
  BY DEF Locked
<1>4. Good(t, job[r])
  <2> HIDE DEF t
  <2> QED
    BY <1>1, <1>2, <1>3
    DEF Good, Ending, Kind, Vouched, UpToDate, GameHeld, InTurn, Writing, Deleting, Running
<1>5. \A q \in Requests \ {r} : t.locks \cap tx[q].locks = {}
  BY <1>1, <1>2, NeedsAreFree
<1> QED BY <1>2, <1>4, <1>5, StepKeeps

LEMMA CollectRowsKeeps ==
  ASSUME NEW r \in Requests, IInv, CollectRows(r)
  PROVE  IInv'
<1> DEFINE c == [pc |-> "collecting", rows |-> DOMAIN db.rows \ {GameRow}]
           t == Revised(tx[r], c)
<1>1. /\ t.pc = "collecting" /\ t.locks = tx[r].locks /\ t.version = tx[r].version
      /\ t.outcome = tx[r].outcome /\ t.game = tx[r].game
  BY DEF Revised, IInv, Sessions, Fields
<1>2. tx[r].pc = "loaded" /\ job[r].kind = "delete" /\ Step(r, c) /\ Good(tx[r], job[r])
  BY DEF CollectRows, IInv
<1>3. Good(t, job[r])
  <2> HIDE DEF t
  <2> QED
    BY <1>1, <1>2
    DEF Good, Ending, Kind, Vouched, UpToDate, GameHeld, InTurn, Writing, Deleting, Running
<1>4. \A q \in Requests \ {r} : t.locks \cap tx[q].locks = {}
  BY <1>1, SameLocks
<1> QED BY <1>2, <1>3, <1>4, StepKeeps

LEMMA CollectEventsKeeps ==
  ASSUME NEW r \in Requests, IInv, CollectEvents(r)
  PROVE  IInv'
<1>1. PICK doomed : Step(r, [pc |-> "deleting", doomed |-> doomed])
  BY DEF CollectEvents
<1> DEFINE c == [pc |-> "deleting", doomed |-> doomed]
           t == Revised(tx[r], c)
<1>2. /\ t.pc = "deleting" /\ t.locks = tx[r].locks /\ t.version = tx[r].version
      /\ t.outcome = tx[r].outcome /\ t.game = tx[r].game
  BY DEF Revised, IInv, Sessions, Fields
<1>3. tx[r].pc = "collecting" /\ Good(tx[r], job[r])
  BY DEF CollectEvents, IInv
<1>4. Good(t, job[r])
  <2> HIDE DEF t
  <2> QED
    BY <1>2, <1>3
    DEF Good, Ending, Kind, Vouched, UpToDate, GameHeld, InTurn, Writing, Deleting, Running
<1>5. \A q \in Requests \ {r} : t.locks \cap tx[q].locks = {}
  BY <1>2, SameLocks
<1> QED BY <1>1, <1>4, <1>5, StepKeeps

(* The rows and events one by one, then the game, if its version is still  *)
(* the one that was loaded.                                                *)
LEMMA DeleteNextKeeps ==
  ASSUME NEW r \in Requests, IInv, DeleteNext(r)
  PROVE  IInv'
<1> DEFINE pc == IF GameIsNext(r) THEN "written" ELSE "deleting"
           rest == IF GameIsNext(r) THEN <<>> ELSE Tail(tx[r].doomed)
           c == [pc |-> pc, doomed |-> rest, locks |-> Locked(r)]
           t == Revised(tx[r], c)
<1>1. /\ t.pc = pc /\ t.locks = Locked(r) /\ t.version = tx[r].version
      /\ t.outcome = tx[r].outcome /\ t.game = tx[r].game
  BY DEF Revised, IInv, Sessions, Fields
<1>2. tx[r].pc = "deleting" /\ Unblocked(r) /\ Succeeds(r) /\ Step(r, c) /\ Good(tx[r], job[r])
  BY DEF DeleteNext, IInv
<1>3. GameIsNext(r) => Row(GameRow) \in Locked(r) /\ db.alive /\ db.version = tx[r].version
  BY <1>2 DEF GameIsNext, Locked, Needs, NextDoomed, Succeeds, Current
<1>4. Good(t, job[r])
  <2> HIDE DEF t
  <2> QED
    BY <1>1, <1>2, <1>3
    DEF Good, Ending, Kind, Vouched, UpToDate, GameHeld, InTurn, Writing, Deleting, Running
<1>5. \A q \in Requests \ {r} : t.locks \cap tx[q].locks = {}
  BY <1>1, <1>2, NeedsAreFree
<1> QED BY <1>2, <1>4, <1>5, StepKeeps

LEMMA ReadRowsKeeps ==
  ASSUME NEW r \in Requests, IInv, ReadRows(r)
  PROVE  IInv'
<1> DEFINE c == [pc |-> "reading", shown |-> db.rows]
           t == Revised(tx[r], c)
<1>1. /\ t.pc = "reading" /\ t.shown = db.rows /\ t.locks = tx[r].locks
      /\ t.version = tx[r].version /\ t.outcome = tx[r].outcome /\ t.game = tx[r].game
  BY DEF Revised, IInv, Sessions, Fields
<1>2. tx[r].pc = "loaded" /\ job[r].kind = "read" /\ Step(r, c) /\ Good(tx[r], job[r])
  BY DEF ReadRows, IInv
<1>3. Good(t, job[r])
  <2> HIDE DEF t
  <2> QED
    BY <1>1, <1>2, NoneAssumption
    DEF Good, Ending, Kind, Vouched, UpToDate, GameHeld, InTurn, Writing, Deleting, Running, Outcomes
<1>4. \A q \in Requests \ {r} : t.locks \cap tx[q].locks = {}
  BY <1>1, SameLocks
<1> QED BY <1>2, <1>3, <1>4, StepKeeps

LEMMA ReadEventsKeeps ==
  ASSUME NEW r \in Requests, IInv, ReadEvents(r)
  PROVE  IInv'
<1> DEFINE c == [pc |-> "done", outcome |-> "ok", listed |-> DOMAIN db.log]
           t == Revised(tx[r], c)
<1>1. /\ t.pc = "done" /\ t.outcome = "ok" /\ t.listed = DOMAIN db.log
      /\ t.shown = tx[r].shown /\ t.locks = tx[r].locks /\ t.version = tx[r].version
  BY DEF Revised, IInv, Sessions, Fields
<1>2. tx[r].pc = "reading" /\ Step(r, c) /\ Good(tx[r], job[r])
  BY DEF ReadEvents, IInv
<1>3. Good(t, job[r])
  <2> HIDE DEF t
  <2> QED
    BY <1>1, <1>2
    DEF Good, Ending, Kind, Vouched, UpToDate, GameHeld, InTurn, Writing, Deleting, Running, Outcomes
<1>4. \A q \in Requests \ {r} : t.locks \cap tx[q].locks = {}
  BY <1>1, SameLocks
<1> QED BY <1>2, <1>3, <1>4, StepKeeps

-----------------------------------------------------------------------------
(* The commit *)

LEMMA MaxUpTo ==
  ASSUME NEW n \in Nat
  PROVE  Max({0} \cup 1..n) = n
BY DEF Max

(* While a request's version is current, its sequence is the version: the  *)
(* log has an event for each version after the first.                      *)
LEMMA NextSequenceIsVersion ==
  ASSUME Tables, db.alive
  PROVE  NextSequence(db) = db.version
<1>1. db.version - 1 \in Nat /\ DOMAIN db.log = 1..(db.version - 1)
  BY DEF Tables
<1> QED BY <1>1, MaxUpTo DEF NextSequence, Tables

(* What a commit makes of the database is what its job makes of it alone.  *)
LEMMA CommitPerforms ==
  ASSUME NEW r \in Requests, IInv, Commit(r)
  PROVE  /\ db.alive /\ tx[r].version = db.version /\ Row(GameRow) \in tx[r].locks
         /\ job[r].kind # "delete" => tx[r].sequence = db.version
         /\ db' = Performed(db, job[r])
<1> DEFINE j == job[r]
           t == tx[r]
<1>1. t.pc = "written" /\ Good(t, j)
  BY DEF Commit, IInv
<1>2. db.alive /\ t.version = db.version /\ Row(GameRow) \in t.locks
  BY <1>1 DEF Good, GameHeld
<1>3. UpToDate(t, j) /\ j.kind # "read"
  BY <1>1, <1>2 DEF Good, Vouched, Kind
<1>4. Admitted(db, j) /\ t.game = db.rows[GameRow]
  BY <1>1, <1>3 DEF UpToDate, Running
<1>5. CASE j.kind = "delete"
  <2>1. db' = Deleted(db)
    BY <1>5 DEF Commit
  <2> QED BY <1>2, <1>3, <1>4, <1>5, <2>1 DEF Performed
<1>6. CASE j.kind # "delete"
  <2>1. /\ t.change = Plan(j, db, t.game) /\ t.change # NoChange
        /\ t.undoes = IF j.kind = "undo" THEN Newest(db) ELSE None
        /\ t.sequence = NextSequence(db)
    BY <1>1, <1>3, <1>6 DEF UpToDate
  <2>2. db' = Applied(db, t.version, t.sequence, t.change, t.undoes)
    BY <1>6 DEF Commit
  <2>3. t.sequence = db.version
    BY <1>2, <2>1, NextSequenceIsVersion DEF IInv
  <2> QED BY <1>2, <1>3, <1>4, <1>6, <2>1, <2>2, <2>3 DEF Performed
<1> QED BY <1>5, <1>6

(* A commit makes a version, or ends the game. *)
LEMMA CommitMoves ==
  ASSUME NEW r \in Requests, IInv, Commit(r)
  PROVE  /\ Tables'
         /\ db'.alive => db'.version = db.version + 1
         /\ db'.version \in Nat /\ db.version <= db'.version
<1> DEFINE t == tx[r]
<1>1. /\ db.alive /\ t.version = db.version
      /\ job[r].kind # "delete" => t.sequence = db.version
  BY CommitPerforms
<1>2. Tables
  BY DEF IInv
<1>3. CASE job[r].kind = "delete"
  <2>1. db' = Deleted(db)
    BY <1>3 DEF Commit
  <2>2. DOMAIN db' = DOMAIN db /\ ~db'.alive /\ db'.version = db.version
    BY <1>2, <2>1 DEF Deleted, Tables
  <2> QED BY <1>2, <2>2 DEF Tables
<1>4. CASE job[r].kind # "delete"
  <2>1. db' = Applied(db, t.version, t.sequence, t.change, t.undoes)
    BY <1>4 DEF Commit
  <2>2. DOMAIN db' = DOMAIN db /\ db'.version = db.version + 1
    BY <1>1, <1>2, <2>1 DEF Applied, Tables
  <2>3. DOMAIN db'.log = DOMAIN db.log \cup {t.sequence}
    BY <1>2, <2>1 DEF Applied, Tables, With
  <2>4. DOMAIN db'.log = 1..(db'.version - 1)
    BY <1>1, <1>2, <1>4, <2>2, <2>3 DEF Tables
  <2> QED BY <1>2, <2>2, <2>4 DEF Tables
<1> QED BY <1>3, <1>4

LEMMA CommitKeeps ==
  ASSUME NEW r \in Requests, IInv, Commit(r)
  PROVE  IInv'
<1> DEFINE c == [pc |-> "done", outcome |-> "ok", locks |-> {}, shares |-> FALSE]
<1>1. PICK t : t = Revised(tx[r], c)
  OBVIOUS
<1>2. /\ t.pc = "done" /\ t.outcome = "ok" /\ t.locks = {} /\ t.version = tx[r].version
      /\ DOMAIN t = Fields
  BY <1>1 DEF Revised, IInv, Sessions, Fields
<1>3. /\ job' = job /\ DOMAIN tx' = Requests /\ tx[r].pc = "written"
      /\ tx'[r] = t /\ \A q \in Requests \ {r} : tx'[q] = tx[q]
  BY <1>1 DEF Commit, IInv, Sessions
<1>4. /\ Tables' /\ db'.version \in Nat /\ db.version <= db'.version
      /\ db'.alive => db'.version = db.version + 1
  BY CommitMoves
<1>5. Sessions'
  BY <1>2, <1>3 DEF IInv, Sessions
<1>6. LocksExclude'
  <2> SUFFICES ASSUME NEW p \in Requests, NEW q \in Requests, p # q
               PROVE  tx'[p].locks \cap tx'[q].locks = {}
    BY DEF LocksExclude
  <2>1. CASE p # r /\ q # r
    BY <1>3, <2>1 DEF IInv, LocksExclude
  <2> QED BY <1>2, <1>3, <2>1
<1>7. ASSUME NEW q \in Requests PROVE Good(tx[q], job[q])'
  <2>1. PICK u : u = tx'[q]
    OBVIOUS
  <2>2. u.version \in 0..db.version /\ (u.pc = "done") = (u.outcome \in Outcomes)
    BY <1>2, <1>3, <2>1 DEF Outcomes, IInv, Good, Ending
  <2>3. Ending(u)'
    <3>1. u.version \in 0..db'.version
      BY <1>4, <2>2 DEF IInv, Tables
    <3> QED BY <2>1, <2>2, <3>1 DEF Ending
  <2>4. Kind(u, job[q])
    BY <1>2, <1>3, <2>1 DEF Kind, Writing, Deleting, IInv, Good
  <2>5. db'.alive => u.version # db'.version
    BY <1>4, <2>2 DEF IInv, Tables
  <2>6. u.pc \notin {"bumped", "written"}
    <3>1. CASE q = r
      BY <1>2, <1>3, <2>1, <3>1
    <3>2. CASE q # r
      <4>1. Row(GameRow) \in tx[r].locks /\ tx[r].locks \cap tx[q].locks = {}
        BY <3>2, CommitPerforms DEF IInv, LocksExclude
      <4> QED BY <1>3, <2>1, <3>2, <4>1 DEF IInv, Good, GameHeld
    <3> QED BY <3>1, <3>2
  <2>7. InTurn(u)
    BY <1>2, <1>3, <2>1 DEF InTurn, IInv, Good
  <2> QED
    BY <1>3, <2>1, <2>3, <2>4, <2>5, <2>6, <2>7
    DEF Good, Ending, Kind, Vouched, GameHeld, InTurn
<1> QED BY <1>4, <1>5, <1>6, <1>7 DEF IInv

-----------------------------------------------------------------------------
(* The invariant *)

LEMMA InitKeeps == Init => IInv
<1> SUFFICES ASSUME Init PROVE IInv
  OBVIOUS
<1>1. Tables
  BY HistoriesAssumption DEF Init, Tables
<1>2. /\ Sessions
      /\ \A r \in Requests : tx[r] = NewTransaction
  BY DEF Init, Sessions, NewTransaction, Fields
<1>3. LocksExclude
  BY <1>2 DEF LocksExclude, NewTransaction
<1>4. ASSUME NEW r \in Requests PROVE Good(tx[r], job[r])
  <2>1. /\ tx[r].pc = "start" /\ tx[r].outcome = None /\ tx[r].version = 0
        /\ tx[r].locks = {}
    BY <1>2 DEF NewTransaction
  <2> QED
    BY <1>1, <2>1, NoneAssumption
    DEF Good, Ending, Kind, Vouched, UpToDate, GameHeld, InTurn, Writing, Deleting, Running,
        Tables, Outcomes
<1> QED BY <1>1, <1>2, <1>3, <1>4 DEF IInv

LEMMA NextKeeps == IInv /\ [Next]_vars => IInv'
<1> SUFFICES ASSUME IInv, [Next]_vars PROVE IInv'
  OBVIOUS
<1>1. CASE UNCHANGED vars
  BY <1>1
  DEF vars, IInv, Tables, Sessions, LocksExclude, Good, Ending, Kind, Vouched, UpToDate,
      GameHeld, InTurn, Admitted
<1>2. ASSUME NEW r \in Requests, Run(r) \/ DeadlockAborts(r) \/ Lost(r) PROVE IInv'
  <2>1. CASE Begin(r)                                   BY <2>1, BeginKeeps
  <2>2. CASE Prepare(r)                                 BY <2>2, PrepareKeeps
  <2>3. CASE Touch(r)                                   BY <2>3, TouchKeeps
  <2>4. CASE Number(r)                                  BY <2>4, NumberKeeps
  <2>5. CASE Bump(r)                                    BY <2>5, BumpKeeps
  <2>6. CASE Compensate(r)                              BY <2>6, CompensateKeeps
  <2>7. CASE CollectRows(r)                             BY <2>7, CollectRowsKeeps
  <2>8. CASE CollectEvents(r)                           BY <2>8, CollectEventsKeeps
  <2>9. CASE DeleteNext(r)                              BY <2>9, DeleteNextKeeps
  <2>10. CASE Commit(r)                                 BY <2>10, CommitKeeps
  <2>11. CASE ReadRows(r)                               BY <2>11, ReadRowsKeeps
  <2>12. CASE ReadEvents(r)                             BY <2>12, ReadEventsKeeps
  <2>13. CASE Refuse(r) \/ Lose(r) \/ DeadlockAborts(r) \/ Lost(r)
    BY <2>13, EndingKeeps
  <2> QED
    BY <1>2, <2>1, <2>2, <2>3, <2>4, <2>5, <2>6, <2>7, <2>8, <2>9, <2>10, <2>11, <2>12, <2>13
    DEF Run
<1> QED BY <1>1, <1>2 DEF Next

LEMMA Invariance == Spec => []IInv
BY InitKeeps, NextKeeps, PTL DEF Spec

(* Requests are what they may be, no two hold one lock, and the log counts *)
(* the versions.                                                           *)
THEOREM TypeCorrect == Spec => []TypeOK
<1>1. IInv => TypeOK
  BY DEF IInv, Tables, Sessions, LocksExclude, Good, Ending, TypeOK
<1> QED BY <1>1, Invariance, PTL

(* While the version a client was shown is current, so are the rows and    *)
(* events it was shown with it (get_game).                                 *)
THEOREM VersionVouches == Spec => []VersionVouchesForRows
<1>1. IInv => VersionVouchesForRows
  BY DEF IInv, Good, Vouched, UpToDate, VersionVouchesForRows
<1> QED BY <1>1, Invariance, PTL

(* What is committed is what the same requests leave one at a time, in the *)
(* order of their commits (decision #9, bump_version).                     *)
THEOREM Serializable == Spec => OneAtATime
<1>1. ASSUME IInv, [Next]_vars
      PROVE  [\E r \in Requests : db' = Performed(db, job[r])]_db
  <2> SUFFICES ASSUME db' # db PROVE \E r \in Requests : db' = Performed(db, job[r])
    OBVIOUS
  <2>1. PICK r \in Requests : Run(r) \/ DeadlockAborts(r) \/ Lost(r)
    BY <1>1 DEF Next, vars
  <2>2. Commit(r)
    BY <2>1
    DEF Run, DeadlockAborts, Lost, Begin, Prepare, Refuse, Touch, Number, Bump, Compensate,
        CollectRows, CollectEvents, DeleteNext, Lose, ReadRows, ReadEvents, End, Step
  <2> QED BY <1>1, <2>2, CommitPerforms
<1> QED BY <1>1, Invariance, PTL DEF Spec, OneAtATime

-----------------------------------------------------------------------------
(* Deadlocks *)

(* A request in a circle waits for one in the circle. *)
LEMMA CircleGoesOn ==
  ASSUME NEW n \in Nat \ {0}, NEW circle \in [1..n -> Requests], NEW i \in 1..n,
         \A k \in 1..n : circle[IF k = n THEN 1 ELSE k + 1] \in Blockers(circle[k])
  PROVE  \E k \in 1..n : circle[k] \in Blockers(circle[i])
<1>1. (IF i = n THEN 1 ELSE i + 1) \in 1..n
  OBVIOUS
<1> QED BY <1>1

(* Without deletions, a request that waits for one that waits itself wants *)
(* a lock of its, and that one has changed its row already.                *)
LEMMA WaitsForALock ==
  ASSUME IInv, NEW q \in Requests, NEW r \in Requests, NEW s \in Requests,
         q \in Blockers(r), s \in Blockers(q),
         \A p \in Requests : ~(job[p].kind = "delete" /\ tx[p].pc = "deleting")
  PROVE  /\ Needs(r) \cap tx[q].locks # {}
         /\ tx[q].pc \in {"numbered", "bumped"}
<1>1. Kind(tx[q], job[q]) /\ Kind(tx[r], job[r]) /\ InTurn(tx[q])
  BY DEF IInv, Good
<1>2. tx[q].pc # "deleting" /\ tx[r].pc # "deleting"
  BY <1>1 DEF Kind, Deleting
<1>3. tx[q].pc \in {"prepared", "numbered", "bumped"}
  BY <1>2 DEF Blockers, Needs, Inserting, GameIsNext
<1>4. job[q].kind # "delete"
  BY <1>1, <1>3 DEF Kind, Writing
<1>5. Needs(r) \cap tx[q].locks # {}
  BY <1>2, <1>4 DEF Blockers, GameIsNext
<1> QED BY <1>1, <1>3, <1>5 DEF InTurn

(* Requests that edit or undo wait for a row of the game while they hold   *)
(* nothing, then for the game's own row, then for an event: no circle of   *)
(* waits can close without a deletion, which goes the other way.           *)
THEOREM NoDeadlockWithoutDeletion == Spec => []OnlyDeletionDeadlocks
<1>1. ASSUME IInv, NEW r \in Requests, WaitsInCircle(r),
             \A p \in Requests : ~(job[p].kind = "delete" /\ tx[p].pc = "deleting")
      PROVE  FALSE
  <2>1. Cardinality(Requests) \in Nat
    BY RequestsAssumption, FS_CardinalityType
  <2>2. PICK n \in 1..Cardinality(Requests) :
          \E circle \in [1..n -> Requests] :
            /\ circle[1] = r
            /\ \A i \in 1..n : circle[IF i = n THEN 1 ELSE i + 1] \in Blockers(circle[i])
    BY <1>1 DEF WaitsInCircle
  <2>3. PICK circle \in [1..n -> Requests] :
          \A i \in 1..n : circle[IF i = n THEN 1 ELSE i + 1] \in Blockers(circle[i])
    BY <2>2
  <2>4. n \in Nat \ {0} /\ 1 \in 1..n
    BY <2>1
  <2>5. PICK i \in 1..n : circle[i] \in Blockers(circle[1])
    BY <2>3, <2>4, CircleGoesOn
  <2>6. PICK k \in 1..n : circle[k] \in Blockers(circle[i])
    BY <2>3, <2>4, CircleGoesOn
  <2>7. PICK l \in 1..n : circle[l] \in Blockers(circle[k])
    BY <2>3, <2>4, CircleGoesOn
  <2>8. PICK m \in 1..n : circle[m] \in Blockers(circle[l])
    BY <2>3, <2>4, CircleGoesOn
  <2>9. PICK x \in Requests, y \in Requests, z \in Requests, u \in Requests, v \in Requests :
          y \in Blockers(x) /\ z \in Blockers(y) /\ u \in Blockers(z) /\ v \in Blockers(u)
    BY <2>4, <2>5, <2>6, <2>7, <2>8
  <2>10. /\ tx[y].pc \in {"numbered", "bumped"}
         /\ tx[z].pc \in {"numbered", "bumped"} /\ Needs(y) \cap tx[z].locks # {}
         /\ tx[u].pc \in {"numbered", "bumped"} /\ Needs(z) \cap tx[u].locks # {}
    <3>1. /\ tx[y].pc \in {"numbered", "bumped"}
      BY <1>1, <2>9, WaitsForALock
    <3>2. /\ tx[z].pc \in {"numbered", "bumped"} /\ Needs(y) \cap tx[z].locks # {}
      BY <1>1, <2>9, WaitsForALock
    <3>3. /\ tx[u].pc \in {"numbered", "bumped"} /\ Needs(z) \cap tx[u].locks # {}
      BY <1>1, <2>9, WaitsForALock
    <3> QED BY <3>1, <3>2, <3>3
  <2>11. ASSUME NEW p \in Requests, NEW q \in Requests,
                tx[p].pc \in {"numbered", "bumped"}, tx[q].pc \in {"numbered", "bumped"},
                Needs(p) \cap tx[q].locks # {}
         PROVE  tx[p].pc = "numbered" /\ Row(GameRow) \in tx[q].locks
    <3>1. \A lock \in tx[q].locks : lock[1] = "row"
      BY <1>1, <2>11 DEF IInv, Good, InTurn
    <3>2. tx[p].pc # "bumped"
      BY <2>11, <3>1 DEF Needs, Event
    <3> QED BY <2>11, <3>2 DEF Needs
  <2>12. Row(GameRow) \in tx[z].locks /\ Row(GameRow) \in tx[u].locks
    BY <2>10, <2>11
  <2>13. u # z
    BY <2>9 DEF Blockers
  <2> QED BY <1>1, <2>12, <2>13 DEF IInv, LocksExclude
<1>2. IInv => OnlyDeletionDeadlocks
  BY <1>1 DEF OnlyDeletionDeadlocks
<1> QED BY <1>2, Invariance, PTL
=============================================================================
