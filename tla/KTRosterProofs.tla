---------------------------- MODULE KTRosterProofs ----------------------------
(***************************************************************************)
(* What the tables and the locks keep true of rosters, for any number of   *)
(* requests and whatever is in the tables to begin with.                   *)
(***************************************************************************)
EXTENDS KTRoster, FiniteSetTheorems, TLAPS

-----------------------------------------------------------------------------
(* The inductive invariant.                                                *)

InFlight == {"loaded", "counted", "decided", "written"}

TxType ==
  /\ DOMAIN tx = Requests
  /\ job \in [Requests -> Jobs]
  /\ \A r \in Requests :
       /\ DOMAIN tx[r] = {"pc", "loaded", "rows", "doomed", "position", "locks", "shares"}
       /\ tx[r].position \in Nat

LocksExclude ==
  /\ \A r \in Requests : tx[r].locks \cup tx[r].shares # {} => tx[r].pc \in {"decided", "written"}
  /\ \A q, r \in Requests :
       q # r => tx[q].locks \cap (tx[r].locks \cup tx[r].shares) = {}

(* An id is in no table until the request it is given to has committed.    *)
IdsAreNew ==
  /\ None \notin DOMAIN db.rosters
  /\ \A r \in Requests :
       tx[r].pc # "ok" => r \notin DOMAIN db.rosters \cup DOMAIN db.rows \cup DOMAIN db.games

(* What a request has found out stays so while it runs: the roster it      *)
(* loaded is its owner's, if it is still there, and will not be made       *)
(* again, which is true of a request that has ended too.                   *)
Found(t) == t.pc \in InFlight \/ t.loaded # None

OwnersStay ==
  \A r \in Requests :
    job[r].kind # "create" =>
      /\ (tx[r].pc \in InFlight /\ job[r].roster \in DOMAIN db.rosters) =>
           db.rosters[job[r].roster].owner = job[r].owner
      /\ (Found(tx[r]) /\ job[r].roster \in Requests) => tx[job[r].roster].pc = "ok"

AcceptedAreGood ==
  \A r \in Requests :
    tx[r].pc \in {"counted", "decided", "written"} =>
      /\ job[r].kind = "add" => job[r].card \in Fieldable
      /\ job[r].kind = "move" => job[r].position \in Nat

(* What has been written can be committed: no one else's commit takes away *)
(* what the constraints were checked against, because of the locks.        *)
WrittenIsGranted ==
  \A r \in Requests :
    tx[r].pc = "written" =>
      /\ tx[r].doomed = <<>>
      /\ Needs(r) \subseteq tx[r].locks
      /\ Shares(r) \subseteq tx[r].shares
      /\ Succeeds(r)

IInv ==
  /\ Typed(db) /\ TxType /\ LocksExclude
  /\ IdsAreNew /\ OwnersStay /\ AcceptedAreGood /\ WrittenIsGranted
  /\ NamesDiffer(db) /\ Resolved(db) /\ DeletionYieldsOnlyToGames

-----------------------------------------------------------------------------
(* Operators *)

(* A nonempty finite set of positions has a highest one. *)
LEMMA MaxIsHighest ==
  ASSUME NEW S \in SUBSET Nat, IsFiniteSet(S), S # {}
  PROVE  Max(S) \in S /\ \A y \in S : Max(S) >= y
<1> DEFINE HasMax(U) == \E x \in U : \A y \in U : x >= y
           Bad == {U \in SUBSET S : U # {} /\ ~HasMax(U)}
<1>1. ASSUME Bad # {} PROVE FALSE
  <2>1. Bad \subseteq FiniteSubsetsOf(S)
    BY FS_Subset DEF FiniteSubsetsOf
  <2> HIDE DEF Bad
  <2>2. PICK U \in Bad : \A V \in Bad : ~ <<V, U>> \in StrictSubsetOrdering(S)
    BY <1>1, <2>1, FS_StrictSubsetOrderingWellFounded, WFMin
  <2> USE DEF Bad
  <2>3. PICK x : x \in U
    OBVIOUS
  <2> DEFINE V == U \ {x}
  <2>4. V \in SUBSET S /\ V \subseteq U /\ V # U
    BY <2>3
  <2>5. V \notin Bad
    BY <2>2, <2>4, Zenon DEF StrictSubsetOrdering
  <2>6. V # {}
    BY <2>3
  <2>7. PICK m \in V : \A y \in V : m >= y
    BY <2>4, <2>5, <2>6
  <2>8. m \in Nat /\ x \in Nat /\ U \subseteq Nat
    BY <2>3, <2>7
  <2>9. HasMax(U)
    BY <2>3, <2>7, <2>8
  <2> QED BY <2>9
<1>2. HasMax(S)
  BY <1>1
<1> QED BY <1>2 DEF Max

(* What a request needs depends on what it loaded and on the tables.       *)
LEMMA NeedsStay ==
  ASSUME NEW r \in Requests, UNCHANGED <<db, job>>,
         tx'[r].loaded = tx[r].loaded, tx'[r].doomed = tx[r].doomed
  PROVE  /\ Needs(r)' = Needs(r) /\ Shares(r)' = Shares(r)
         /\ Succeeds(r)' = Succeeds(r)
BY DEF Needs, Shares, Succeeds, NameLocks, Moved, Sent, Lock, Orphans, RowsOf, Free, NameFree,
       Played, GamesOf

-----------------------------------------------------------------------------
(* Steps that commit nothing *)

(* What such a step of r may leave in its transaction.                     *)
Keeps(r, t) ==
  /\ DOMAIN t = {"pc", "loaded", "rows", "doomed", "position", "locks", "shares"}
  /\ t.position \in Nat
  /\ t.locks \cup t.shares # {} => t.pc \in {"decided", "written"}
  /\ \A q \in Requests \ {r} :
       /\ t.locks \cap (tx[q].locks \cup tx[q].shares) = {}
       /\ t.shares \cap tx[q].locks = {}
  /\ tx[r].pc # "ok"
  /\ job[r].kind # "create" =>
       /\ (t.pc \in InFlight /\ job[r].roster \in DOMAIN db.rosters) =>
            db.rosters[job[r].roster].owner = job[r].owner
       /\ (Found(t) /\ job[r].roster \in Requests) => tx[job[r].roster].pc = "ok"
  /\ t.pc \in {"counted", "decided", "written"} =>
       /\ job[r].kind = "add" => job[r].card \in Fieldable
       /\ job[r].kind = "move" => job[r].position \in Nat
  /\ t.pc = "written" =>
       /\ t.loaded = tx[r].loaded /\ tx[r].doomed = <<>> /\ t.doomed = <<>>
       /\ Needs(r) \subseteq t.locks /\ Shares(r) \subseteq t.shares /\ Succeeds(r)
  /\ (/\ job[r].kind = "delete" /\ t.pc \in {"refused", "conflict"}
      /\ t.loaded # None /\ Owned(job[r])) => GamesOf(db, job[r].roster) # {}

LEMMA StepKeeps ==
  ASSUME NEW r \in Requests, NEW t, IInv, Step(r, t), Keeps(r, t)
  PROVE  IInv'
<1>0. /\ db' = db /\ job' = job /\ DOMAIN tx' = Requests
      /\ tx'[r] = t /\ \A q \in Requests \ {r} : tx'[q] = tx[q]
  BY DEF Step, IInv, TxType
<1> HIDE DEF IInv
<1>1. (Typed(db) /\ NamesDiffer(db) /\ Resolved(db))'
  BY <1>0 DEF IInv
<1>2. TxType'
  BY <1>0 DEF IInv, TxType, Keeps
<1>3. LocksExclude'
  <2>1. \A q \in Requests : (tx[q].locks \cup tx[q].shares # {} => tx[q].pc \in {"decided", "written"})'
    BY <1>0 DEF IInv, LocksExclude, Keeps
  <2>2. ASSUME NEW p \in Requests, NEW q \in Requests, p # q
        PROVE  (tx[p].locks \cap (tx[q].locks \cup tx[q].shares) = {})'
    <3>1. CASE p = r
      BY <1>0, <2>2, <3>1 DEF Keeps
    <3>2. CASE q = r
      BY <1>0, <2>2, <3>2 DEF Keeps
    <3>3. CASE p # r /\ q # r
      BY <1>0, <2>2, <3>3 DEF IInv, LocksExclude
    <3> QED BY <3>1, <3>2, <3>3
  <2> QED BY <2>1, <2>2 DEF LocksExclude
<1>4. IdsAreNew'
  BY <1>0 DEF IInv, IdsAreNew, Keeps
<1>5. OwnersStay'
  BY <1>0 DEF IInv, OwnersStay, Keeps
<1>6. AcceptedAreGood'
  BY <1>0 DEF IInv, AcceptedAreGood, Keeps
<1>7. WrittenIsGranted'
  <2> SUFFICES ASSUME NEW q \in Requests, tx'[q].pc = "written"
               PROVE  /\ tx'[q].doomed = <<>>
                      /\ Needs(q)' \subseteq tx'[q].locks
                      /\ Shares(q)' \subseteq tx'[q].shares
                      /\ Succeeds(q)'
    BY DEF WrittenIsGranted
  <2>1. CASE q = r
    BY <1>0, <2>1, NeedsStay DEF Keeps
  <2>2. CASE q # r
    BY <1>0, <2>2, NeedsStay DEF IInv, WrittenIsGranted
  <2> QED BY <2>1, <2>2
<1>8. DeletionYieldsOnlyToGames'
  BY <1>0 DEF IInv, DeletionYieldsOnlyToGames, Keeps, Owned, GamesOf
<1> QED BY <1>1, <1>2, <1>3, <1>4, <1>5, <1>6, <1>7, <1>8 DEF IInv

(* _next_position is a position, on an empty roster and after removals.    *)
LEMMA NextPositionIsNat ==
  ASSUME NEW x, Typed(db)
  PROVE  NextPosition(x) \in Nat
<1> DEFINE R == RowsOf(db, x)
           P == {db.rows[i].position : i \in R}
<1>1. R \subseteq DOMAIN db.rows /\ IsFiniteSet(R)
  BY FS_Subset DEF RowsOf, Typed
<1>2. P \in SUBSET Nat
  BY <1>1 DEF Typed
<1>3. IsFiniteSet(P)
  <2> DEFINE f == [i \in R |-> db.rows[i].position]
  <2>1. f \in Surjection(R, P)
    BY DEF Surjection
  <2> QED BY <1>1, <2>1, FS_Surjection
<1>4. CASE R = {}
  BY <1>4 DEF NextPosition
<1>5. CASE R # {}
  <2>1. P # {}
    BY <1>5
  <2> HIDE DEF P
  <2>2. Max(P) \in Nat
    BY <1>2, <1>3, <2>1, MaxIsHighest
  <2>3. NextPosition(x) = Max(P) + 1
    BY <1>5 DEF NextPosition, P
  <2> QED BY <2>2, <2>3
<1> QED BY <1>4, <1>5

LEMMA LoadKeeps ==
  ASSUME NEW r \in Requests, IInv, Load(r)
  PROVE  IInv'
<1> DEFINE Blank == [tx[r] EXCEPT !.pc = "loaded"]
           Full == [tx[r] EXCEPT !.pc = "loaded", !.loaded = db.rosters[job[r].roster]]
<1>1. PICK t \in {Blank, Full} : Step(r, t)
  BY DEF Load
<1>2. tx[r].pc = "start" /\ (job[r].kind # "create" => Owned(job[r]))
  BY DEF Load
<1>3. /\ DOMAIN t = DOMAIN tx[r] /\ t.pc = "loaded" /\ t.position = tx[r].position
      /\ t.locks = tx[r].locks /\ t.shares = tx[r].shares
  BY DEF IInv, TxType
<1>4. t.locks \cup t.shares = {}
  BY <1>2, <1>3 DEF IInv, LocksExclude
<1>5. job[r].roster \in Requests => job[r].roster \notin DOMAIN db.rosters \/ tx[job[r].roster].pc = "ok"
  BY DEF IInv, IdsAreNew
<1>6. Keeps(r, t)
  BY <1>2, <1>3, <1>4, <1>5 DEF Keeps, IInv, TxType, Owned, InFlight
<1> QED BY <1>1, <1>6, StepKeeps

LEMMA DecideKeeps ==
  ASSUME NEW r \in Requests, IInv, Decide(r)
  PROVE  IInv'
<1> DEFINE pc == IF job[r].kind = "delete" THEN "counted" ELSE "decided"
           rows == RowsOf(db, job[r].roster)
           n == NextPosition(job[r].roster)
           Done == [tx[r] EXCEPT !.pc = "ok"]
           Going == [tx[r] EXCEPT !.pc = pc, !.rows = rows, !.position = n]
<1>1. PICK t \in {Done, Going} : Step(r, t)
  BY DEF Decide
<1>2. /\ DOMAIN t = DOMAIN tx[r] /\ t.pc \in {"ok", "counted", "decided"}
      /\ t.position \in {tx[r].position, n}
      /\ t.locks = tx[r].locks /\ t.shares = tx[r].shares
  BY DEF IInv, TxType
<1>3. tx[r].pc = "loaded" /\ Accepts(r)
  BY DEF Decide
<1>4. t.locks \cup t.shares = {}
  BY <1>2, <1>3 DEF IInv, LocksExclude
<1>5. t.position \in Nat
  <2> HIDE DEF n
  <2> QED BY <1>2, NextPositionIsNat DEF n, IInv, TxType
<1>6. /\ job[r].kind = "add" => job[r].card \in Fieldable
      /\ job[r].kind = "move" => job[r].position \in Nat
  <2>1. job[r] \in Jobs
    BY DEF IInv, TxType
  <2>2. CASE job[r].kind = "add"
    BY <1>3, <2>2 DEF Accepts
  <2>3. CASE job[r].kind = "move"
    BY <1>3, <2>1, <2>3, JobsAssumption DEF Accepts
  <2> QED BY <2>2, <2>3
<1>7. Keeps(r, t)
  BY <1>2, <1>3, <1>4, <1>5, <1>6 DEF Keeps, IInv, TxType, OwnersStay, InFlight, Found
<1> QED BY <1>1, <1>7, StepKeeps

(* A transaction that ends gives its locks back. *)
LEMMA EndKeeps ==
  ASSUME NEW r \in Requests, NEW o \in {"refused", "conflict", "lost"}, IInv, End(r, o),
         tx[r].pc # "ok",
         (job[r].kind = "delete" /\ o \in {"refused", "conflict"} /\ Owned(job[r])) =>
            GamesOf(db, job[r].roster) # {}
  PROVE  IInv'
<1> DEFINE t == [tx[r] EXCEPT !.pc = o, !.locks = {}, !.shares = {}]
<1>1. Step(r, t)
  BY DEF End
<1>2. /\ DOMAIN t = DOMAIN tx[r] /\ t.pc = o /\ t.position = tx[r].position
      /\ t.locks = {} /\ t.shares = {} /\ t.loaded = tx[r].loaded
  BY DEF IInv, TxType
<1>3. Keeps(r, t)
  <2> HIDE DEF t
  <2> QED BY <1>2 DEF Keeps, IInv, TxType, OwnersStay, InFlight, Found
<1> QED BY <1>1, <1>3, StepKeeps

LEMMA RefuseKeeps ==
  ASSUME NEW r \in Requests, IInv, Refuse(r)
  PROVE  IInv'
<1>1. End(r, "refused") /\ tx[r].pc # "ok"
  BY DEF Refuse
<1>2. job[r].kind = "delete" /\ Owned(job[r]) => GamesOf(db, job[r].roster) # {}
  BY DEF Refuse, Accepts
<1> QED BY <1>1, <1>2, EndKeeps

LEMMA LoseKeeps ==
  ASSUME NEW r \in Requests, IInv, Lose(r)
  PROVE  IInv'
<1>1. End(r, "conflict") /\ tx[r].pc # "ok"
  BY DEF Lose
<1>2. job[r].kind = "delete" => GamesOf(db, job[r].roster) # {}
  BY DEF Lose, Succeeds, Played
<1> QED BY <1>1, <1>2, EndKeeps

LEMMA LostKeeps ==
  ASSUME NEW r \in Requests, IInv, Lost(r)
  PROVE  IInv'
BY EndKeeps DEF Lost, Outcomes

LEMMA CollectKeeps ==
  ASSUME NEW r \in Requests, IInv, Collect(r)
  PROVE  IInv'
<1>1. PICK rows, ids : Step(r, [tx[r] EXCEPT !.pc = "decided", !.doomed = ids, !.rows = rows])
  BY DEF Collect
<1> DEFINE t == [tx[r] EXCEPT !.pc = "decided", !.doomed = ids, !.rows = rows]
<1>2. tx[r].pc = "counted"
  BY DEF Collect
<1>3. /\ DOMAIN t = DOMAIN tx[r] /\ t.pc = "decided" /\ t.position = tx[r].position
      /\ t.locks = tx[r].locks /\ t.shares = tx[r].shares
  BY DEF IInv, TxType
<1>4. t.locks \cup t.shares = {}
  BY <1>2, <1>3 DEF IInv, LocksExclude
<1>5. Keeps(r, t)
  <2> HIDE DEF t
  <2> QED BY <1>2, <1>3, <1>4 DEF Keeps, IInv, TxType, OwnersStay, AcceptedAreGood, InFlight, Found
<1> QED BY <1>1, <1>5, StepKeeps

(* The one step that takes locks: nobody else has them. *)
LEMMA WriteKeeps ==
  ASSUME NEW r \in Requests, IInv, Write(r)
  PROVE  IInv'
<1> DEFINE last == tx[r].doomed = <<>>
<1>1. PICK rest :
        /\ last => rest = <<>>
        /\ Step(r, [tx[r] EXCEPT !.pc = IF last THEN "written" ELSE "decided", !.doomed = rest,
                                 !.locks = @ \cup Needs(r), !.shares = Shares(r)])
  BY DEF Write
<1>2. PICK pc, ls, ss :
        /\ pc = IF last THEN "written" ELSE "decided"
        /\ ls = tx[r].locks \cup Needs(r) /\ ss = Shares(r)
  OBVIOUS
<1> DEFINE t == [tx[r] EXCEPT !.pc = pc, !.doomed = rest, !.locks = ls, !.shares = ss]
<1>3. Step(r, t)
  BY <1>1, <1>2
<1>4. /\ DOMAIN t = DOMAIN tx[r] /\ t.pc = pc /\ t.position = tx[r].position
      /\ t.doomed = rest /\ t.loaded = tx[r].loaded /\ t.locks = ls /\ t.shares = ss
  BY DEF IInv, TxType
<1>5. tx[r].pc = "decided" /\ Unblocked(r) /\ Succeeds(r)
  BY DEF Write
<1>6. \A q \in Requests \ {r} :
        /\ t.locks \cap (tx[q].locks \cup tx[q].shares) = {}
        /\ t.shares \cap tx[q].locks = {}
  BY <1>2, <1>4, <1>5 DEF Unblocked, IInv, LocksExclude
<1>7. Keeps(r, t)
  <2> HIDE DEF t
  <2> QED BY <1>1, <1>2, <1>4, <1>5, <1>6
          DEF Keeps, IInv, TxType, OwnersStay, AcceptedAreGood, InFlight, Found
<1> QED BY <1>3, <1>7, StepKeeps

-----------------------------------------------------------------------------
(* Commits *)

(* What a commit of r does to each table.                                  *)
RosterEffect(r) ==
  /\ \A x \in DOMAIN db'.rosters :
       /\ DOMAIN db'.rosters[x] = Columns
       /\ \/ /\ x \in DOMAIN db.rosters
             /\ db'.rosters[x].owner = db.rosters[x].owner
             /\ \/ db'.rosters[x].name = db.rosters[x].name
                \/ /\ job[r].kind = "update" /\ "name" \in Moved(r)
                   /\ x = job[r].roster /\ db'.rosters[x].name = job[r].name
          \/ /\ job[r].kind = "create" /\ x = r
             /\ db'.rosters[x].owner = job[r].owner /\ db'.rosters[x].name = job[r].name
  /\ \A x \in DOMAIN db.rosters \ DOMAIN db'.rosters :
       job[r].kind = "delete" /\ x = job[r].roster
  /\ job[r].kind = "delete" => job[r].roster \notin DOMAIN db'.rosters

RowEffect(r) ==
  /\ IsFiniteSet(DOMAIN db'.rows)
  /\ \A i \in DOMAIN db'.rows :
       /\ DOMAIN db'.rows[i] = {"roster", "card", "position"}
       /\ db'.rows[i].card \in Cards /\ db'.rows[i].position \in Nat
       /\ \/ i \in DOMAIN db.rows /\ db'.rows[i].roster = db.rows[i].roster
          \/ job[r].kind = "add" /\ i = r /\ db'.rows[i].roster = job[r].roster
       /\ job[r].kind = "delete" => db'.rows[i].roster # job[r].roster
  /\ \A i \in DOMAIN db.rows \ DOMAIN db'.rows :
       \/ job[r].kind = "remove" /\ i = job[r].row
       \/ job[r].kind = "delete" /\ i \in RowsOf(db, job[r].roster)

GameEffect(r) ==
  /\ \A g \in DOMAIN db.games : g \in DOMAIN db'.games /\ db'.games[g].roster = db.games[g].roster
  /\ \A g \in DOMAIN db'.games \ DOMAIN db.games :
       job[r].kind = "play" /\ g = r /\ db'.games[g].roster = job[r].roster

Effect(r) == DOMAIN db' = DOMAIN db /\ RosterEffect(r) /\ RowEffect(r) /\ GameEffect(r)

(* What a request has written, as far as its commit is concerned.          *)
Ready(r) ==
  /\ Typed(db) /\ r \notin DOMAIN db.rosters \cup DOMAIN db.rows \cup DOMAIN db.games
  /\ tx[r].position \in Nat
  /\ job[r].kind = "add" => job[r].card \in Cards
  /\ job[r].kind = "move" => job[r].position \in Nat
  /\ job[r].kind = "update" => job[r].roster \in DOMAIN db.rosters
  /\ job[r].kind \in {"create", "update", "delete", "add", "move", "remove", "play"}

LEMMA WrittenIsReady ==
  ASSUME NEW r \in Requests, IInv, tx[r].pc = "written"
  PROVE  Ready(r)
<1>1. r \notin DOMAIN db.rosters \cup DOMAIN db.rows \cup DOMAIN db.games
  BY DEF IInv, IdsAreNew
<1>2. job[r].kind \in {"create", "update", "delete", "add", "move", "remove", "play"}
  BY JobsAssumption DEF IInv, TxType
<1>3. job[r].kind = "update" => job[r].roster \in DOMAIN db.rosters
  BY DEF IInv, WrittenIsGranted, Succeeds
<1> QED BY <1>1, <1>2, <1>3, IdsAssumption DEF Ready, IInv, TxType, AcceptedAreGood

LEMMA CreateEffect ==
  ASSUME NEW r \in Requests, Ready(r), job[r].kind = "create", db' = Result(r)
  PROVE  Effect(r)
<1> DEFINE row == [owner |-> job[r].owner, name |-> job[r].name, note |-> job[r].note]
<1>1. db' = [db EXCEPT !.rosters = With(@, r, row)]
  BY DEF Result
<1>2. /\ DOMAIN db' = DOMAIN db /\ db'.rosters = With(db.rosters, r, row)
      /\ db'.rows = db.rows /\ db'.games = db.games
  BY <1>1 DEF Ready, Typed
<1>3. RosterEffect(r)
  BY <1>2 DEF RosterEffect, Ready, Typed, With, Columns
<1>4. RowEffect(r)
  BY <1>2 DEF RowEffect, Ready, Typed
<1>5. GameEffect(r)
  BY <1>2 DEF GameEffect
<1> QED BY <1>2, <1>3, <1>4, <1>5 DEF Effect

LEMMA UpdateEffect ==
  ASSUME NEW r \in Requests, Ready(r), job[r].kind = "update", db' = Result(r)
  PROVE  Effect(r)
<1>1. db' = [db EXCEPT !.rosters = With(@, job[r].roster, Set(r))]
  BY DEF Result
<1>2. /\ DOMAIN db' = DOMAIN db /\ db'.rosters = With(db.rosters, job[r].roster, Set(r))
      /\ db'.rows = db.rows /\ db'.games = db.games
  BY <1>1 DEF Ready, Typed
<1>3. /\ DOMAIN Set(r) = Columns
      /\ Set(r).owner = db.rosters[job[r].roster].owner
      /\ Set(r).name = IF "name" \in Moved(r) THEN job[r].name ELSE db.rosters[job[r].roster].name
  BY DEF Set, Columns, Moved, Sent
<1>4. RosterEffect(r)
  BY <1>2, <1>3 DEF RosterEffect, Ready, Typed, With
<1>5. RowEffect(r)
  BY <1>2 DEF RowEffect, Ready, Typed
<1>6. GameEffect(r)
  BY <1>2 DEF GameEffect
<1> QED BY <1>2, <1>4, <1>5, <1>6 DEF Effect

LEMMA DeleteEffect ==
  ASSUME NEW r \in Requests, Ready(r), job[r].kind = "delete", db' = Result(r)
  PROVE  Effect(r)
<1>1. db' = [db EXCEPT !.rosters = Without(@, {job[r].roster}), !.rows = Without(@, Orphans(r))]
  BY DEF Result
<1>2. /\ DOMAIN db' = DOMAIN db /\ db'.rosters = Without(db.rosters, {job[r].roster})
      /\ db'.rows = Without(db.rows, Orphans(r)) /\ db'.games = db.games
  BY <1>1 DEF Ready, Typed
<1>3. RosterEffect(r)
  BY <1>2 DEF RosterEffect, Ready, Typed, Without
<1>4. IsFiniteSet(DOMAIN db'.rows)
  BY <1>2, FS_Subset DEF Ready, Typed, Without
<1>5. RowEffect(r)
  BY <1>2, <1>4 DEF RowEffect, Ready, Typed, Without, Orphans, RowsOf
<1>6. GameEffect(r)
  BY <1>2 DEF GameEffect
<1> QED BY <1>2, <1>3, <1>5, <1>6 DEF Effect

LEMMA AddEffect ==
  ASSUME NEW r \in Requests, Ready(r), job[r].kind = "add", db' = Result(r)
  PROVE  Effect(r)
<1> DEFINE row == [roster |-> job[r].roster, card |-> job[r].card, position |-> tx[r].position]
<1>1. db' = [db EXCEPT !.rows = With(@, r, row)]
  BY DEF Result
<1>2. /\ DOMAIN db' = DOMAIN db /\ db'.rows = With(db.rows, r, row)
      /\ db'.rosters = db.rosters /\ db'.games = db.games
  BY <1>1 DEF Ready, Typed
<1>3. IsFiniteSet(DOMAIN db'.rows)
  BY <1>2, FS_AddElement DEF Ready, Typed, With
<1>4. RosterEffect(r)
  BY <1>2 DEF RosterEffect, Ready, Typed
<1>5. RowEffect(r)
  BY <1>2, <1>3 DEF RowEffect, Ready, Typed, With
<1>6. GameEffect(r)
  BY <1>2 DEF GameEffect
<1> QED BY <1>2, <1>4, <1>5, <1>6 DEF Effect

LEMMA MoveEffect ==
  ASSUME NEW r \in Requests, Ready(r), job[r].kind = "move", db' = Result(r)
  PROVE  Effect(r)
<1>1. db' = [db EXCEPT !.rows[job[r].row].position = job[r].position]
  BY DEF Result
<1>2. /\ DOMAIN db' = DOMAIN db
      /\ db'.rows = [db.rows EXCEPT ![job[r].row].position = job[r].position]
      /\ db'.rosters = db.rosters /\ db'.games = db.games
  BY <1>1 DEF Ready, Typed
<1>3. RosterEffect(r)
  BY <1>2 DEF RosterEffect, Ready, Typed
<1>4. RowEffect(r)
  BY <1>2 DEF RowEffect, Ready, Typed
<1>5. GameEffect(r)
  BY <1>2 DEF GameEffect
<1> QED BY <1>2, <1>3, <1>4, <1>5 DEF Effect

LEMMA RemoveEffect ==
  ASSUME NEW r \in Requests, Ready(r), job[r].kind = "remove", db' = Result(r)
  PROVE  Effect(r)
<1>1. db' = [db EXCEPT !.rows = Without(@, {job[r].row})]
  BY DEF Result
<1>2. /\ DOMAIN db' = DOMAIN db /\ db'.rows = Without(db.rows, {job[r].row})
      /\ db'.rosters = db.rosters /\ db'.games = db.games
  BY <1>1 DEF Ready, Typed
<1>3. IsFiniteSet(DOMAIN db'.rows)
  BY <1>2, FS_Subset DEF Ready, Typed, Without
<1>4. RosterEffect(r)
  BY <1>2 DEF RosterEffect, Ready, Typed
<1>5. RowEffect(r)
  BY <1>2, <1>3 DEF RowEffect, Ready, Typed, Without
<1>6. GameEffect(r)
  BY <1>2 DEF GameEffect
<1> QED BY <1>2, <1>4, <1>5, <1>6 DEF Effect

LEMMA PlayEffect ==
  ASSUME NEW r \in Requests, Ready(r), job[r].kind = "play", db' = Result(r)
  PROVE  Effect(r)
<1> DEFINE game == [roster |-> job[r].roster, fielded |-> tx[r].rows]
<1>1. db' = [db EXCEPT !.games = With(@, r, game)]
  BY DEF Result
<1>2. /\ DOMAIN db' = DOMAIN db /\ db'.games = With(db.games, r, game)
      /\ db'.rosters = db.rosters /\ db'.rows = db.rows
  BY <1>1 DEF Ready, Typed
<1>3. RosterEffect(r)
  BY <1>2 DEF RosterEffect, Ready, Typed
<1>4. RowEffect(r)
  BY <1>2 DEF RowEffect, Ready, Typed
<1>5. GameEffect(r)
  BY <1>2 DEF GameEffect, Ready, With
<1> QED BY <1>2, <1>3, <1>4, <1>5 DEF Effect

LEMMA CommitEffect ==
  ASSUME NEW r \in Requests, IInv, Commit(r)
  PROVE  Ready(r) /\ Effect(r)
<1>1. tx[r].pc = "written" /\ db' = Result(r)
  BY DEF Commit
<1>2. Ready(r)
  BY <1>1, WrittenIsReady
<1>3. job[r].kind \in {"create", "update", "delete", "add", "move", "remove", "play"}
  BY <1>2 DEF Ready
<1> QED
  BY <1>1, <1>2, <1>3, CreateEffect, UpdateEffect, DeleteEffect, AddEffect, MoveEffect,
     RemoveEffect, PlayEffect

-----------------------------------------------------------------------------
(* A commit of one request leaves what another has written grantable.      *)

(* Two requests that have both written: what each holds, the other does    *)
(* not.                                                                    *)
LEMMA HoldersDiffer ==
  ASSUME NEW q \in Requests, NEW r \in Requests, q # r, IInv,
         tx[q].pc = "written", tx[r].pc = "written"
  PROVE  /\ Needs(q) \cap Needs(r) = {}
         /\ Needs(q) \cap Shares(r) = {}
         /\ Shares(q) \cap Needs(r) = {}
BY DEF IInv, LocksExclude, WrittenIsGranted

(* Which lock each kind of request holds.                                  *)
LEMMA Holds ==
  ASSUME NEW r \in Requests, tx[r].doomed = <<>>
  PROVE  /\ job[r].kind = "create" => Lock("name", <<job[r].owner, job[r].name>>) \in Needs(r)
         /\ job[r].kind = "update" => Lock("roster", job[r].roster) \in Needs(r)
         /\ job[r].kind = "update" /\ "name" \in Moved(r) =>
              Lock("name", <<job[r].owner, job[r].name>>) \in Needs(r)
         /\ job[r].kind = "delete" =>
              /\ Lock("roster", job[r].roster) \in Needs(r) /\ Lock("key", job[r].roster) \in Needs(r)
              /\ \A i \in RowsOf(db, job[r].roster) : Lock("row", i) \in Needs(r)
         /\ job[r].kind \in {"move", "remove"} => Lock("row", job[r].row) \in Needs(r)
         /\ job[r].kind \in {"add", "play"} => Lock("key", job[r].roster) \in Shares(r)
<1>1. CASE job[r].kind = "create"
  BY <1>1 DEF Needs, NameLocks
<1>2. CASE job[r].kind = "update"
  BY <1>2 DEF Needs, NameLocks
<1>3. CASE job[r].kind = "delete"
  BY <1>3 DEF Needs, Orphans
<1>4. CASE job[r].kind \in {"move", "remove"}
  BY <1>4 DEF Needs
<1>5. CASE job[r].kind \in {"add", "play"}
  BY <1>5 DEF Shares
<1> QED BY <1>1, <1>2, <1>3, <1>4, <1>5

LEMMA CommitSteps ==
  ASSUME NEW r \in Requests, IInv, Commit(r)
  PROVE  /\ job' = job /\ DOMAIN tx' = Requests
         /\ \A q \in Requests \ {r} : tx'[q] = tx[q]
         /\ DOMAIN tx'[r] = DOMAIN tx[r] /\ tx'[r].position = tx[r].position
         /\ tx'[r].pc = "ok" /\ tx'[r].locks = {} /\ tx'[r].shares = {}
         /\ tx[r].pc = "written"
BY DEF Commit, IInv, TxType

(* A name that r found free for q stays free: whoever would take it holds  *)
(* its lock.                                                               *)
LEMMA FreeStays ==
  ASSUME NEW q \in Requests, NEW r \in Requests, q # r, IInv, Commit(r), tx[q].pc = "written",
         NEW owner, NEW name, NEW except,
         Lock("name", <<owner, name>>) \in Needs(q),
         Free(owner, name, except),
         except \in DOMAIN db.rosters \/ except = None,
         ~(job[r].kind = "update" /\ except = job[r].roster)
  PROVE  Free(owner, name, except)'
<1>1. Effect(r) /\ Ready(r)
  BY CommitEffect
<1>2. tx[r].pc = "written" /\ tx[r].doomed = <<>>
  BY CommitSteps DEF IInv, WrittenIsGranted
<1>3. Needs(q) \cap Needs(r) = {}
  BY <1>2, HoldersDiffer
<1> SUFFICES ASSUME NEW x \in DOMAIN db'.rosters \ {except}
             PROVE  <<db'.rosters[x].owner, db'.rosters[x].name>> # <<owner, name>>
  BY DEF Free, NameFree
<1>4. CASE job[r].kind = "create" /\ x = r
  <2>1. Lock("name", <<job[r].owner, job[r].name>>) \in Needs(r)
    BY <1>2, <1>4, Holds
  <2>2. <<job[r].owner, job[r].name>> # <<owner, name>>
    BY <1>3, <2>1
  <2>3. db'.rosters[x].owner = job[r].owner /\ db'.rosters[x].name = job[r].name
    BY <1>1, <1>4 DEF Effect, RosterEffect, Ready
  <2> QED BY <2>2, <2>3
<1>5. CASE x \in DOMAIN db.rosters /\ db'.rosters[x].name = db.rosters[x].name
  BY <1>1, <1>5 DEF Effect, RosterEffect, Ready, Free, NameFree
<1>6. CASE job[r].kind = "update" /\ "name" \in Moved(r) /\ x = job[r].roster
           /\ x \in DOMAIN db.rosters /\ db'.rosters[x].name = job[r].name
           /\ db'.rosters[x].owner = db.rosters[x].owner
  <2>1. db.rosters[x].owner = job[r].owner
    BY <1>2, <1>6 DEF IInv, OwnersStay, InFlight
  <2>2. Lock("name", <<job[r].owner, job[r].name>>) \in Needs(r)
    BY <1>2, <1>6, Holds
  <2> QED BY <1>3, <1>6, <2>1, <2>2
<1> QED BY <1>1, <1>4, <1>5, <1>6 DEF Effect, RosterEffect

(* A roster that q shares or holds the key of is not deleted by r.         *)
LEMMA RosterStays ==
  ASSUME NEW q \in Requests, NEW r \in Requests, q # r, IInv, Commit(r), tx[q].pc = "written",
         job[q].kind \in {"update", "add", "play"}, job[q].roster \in DOMAIN db.rosters
  PROVE  job[q].roster \in DOMAIN db'.rosters
<1>1. Effect(r)
  BY CommitEffect
<1>2. tx[r].pc = "written" /\ tx[r].doomed = <<>> /\ tx[q].doomed = <<>>
  BY CommitSteps DEF IInv, WrittenIsGranted
<1>3. ~(job[r].kind = "delete" /\ job[r].roster = job[q].roster)
  <2> SUFFICES ASSUME job[r].kind = "delete", job[r].roster = job[q].roster PROVE FALSE
    OBVIOUS
  <2>1. Lock("roster", job[q].roster) \in Needs(r) /\ Lock("key", job[q].roster) \in Needs(r)
    BY <1>2, Holds
  <2>2. Needs(q) \cap Needs(r) = {} /\ Shares(q) \cap Needs(r) = {}
    BY <1>2, HoldersDiffer
  <2>3. CASE job[q].kind = "update"
    BY <1>2, <2>1, <2>2, <2>3, Holds
  <2>4. CASE job[q].kind \in {"add", "play"}
    BY <1>2, <2>1, <2>2, <2>4, Holds
  <2> QED BY <2>3, <2>4
<1> QED BY <1>1, <1>3 DEF Effect, RosterEffect

LEMMA CommitKeepsGranted ==
  ASSUME NEW r \in Requests, IInv, Commit(r)
  PROVE  WrittenIsGranted'
<1>0. Effect(r) /\ Ready(r)
  BY CommitEffect
<1>1. /\ job' = job /\ \A q \in Requests \ {r} : tx'[q] = tx[q]
      /\ tx'[r].pc = "ok" /\ tx[r].pc = "written" /\ tx[r].doomed = <<>>
  BY CommitSteps DEF IInv, WrittenIsGranted
<1> SUFFICES ASSUME NEW q \in Requests, tx'[q].pc = "written"
             PROVE  /\ tx'[q].doomed = <<>>
                    /\ Needs(q)' \subseteq tx'[q].locks
                    /\ Shares(q)' \subseteq tx'[q].shares
                    /\ Succeeds(q)'
  BY DEF WrittenIsGranted
<1>2. q # r /\ tx'[q] = tx[q]
  BY <1>1
<1>3. /\ tx[q].pc = "written" /\ tx[q].doomed = <<>>
      /\ Needs(q) \subseteq tx[q].locks /\ Shares(q) \subseteq tx[q].shares /\ Succeeds(q)
  BY <1>2 DEF IInv, WrittenIsGranted
<1>4. /\ Needs(q) \cap Needs(r) = {} /\ Needs(q) \cap Shares(r) = {}
      /\ Shares(q) \cap Needs(r) = {}
  BY <1>1, <1>2, <1>3, HoldersDiffer
<1>5. Shares(q)' = Shares(q)
  BY <1>1 DEF Shares, Lock
<1>6. job[q].kind = "delete" => Orphans(q)' \subseteq Orphans(q)
  <2> SUFFICES ASSUME job[q].kind = "delete", NEW i \in DOMAIN db'.rows,
                      db'.rows[i].roster = job[q].roster
               PROVE  i \in DOMAIN db.rows /\ db.rows[i].roster = job[q].roster
    BY <1>1 DEF Orphans, RowsOf
  <2>1. ~(job[r].kind = "add" /\ job[r].roster = job[q].roster)
    BY <1>1, <1>3, <1>4, Holds
  <2> QED BY <1>0, <2>1 DEF Effect, RowEffect
<1>7. Needs(q)' \subseteq Needs(q)
  <2>1. NameLocks(q)' = NameLocks(q) /\ Moved(q)' = Moved(q)
    BY <1>1, <1>2 DEF NameLocks, Moved, Sent, Lock
  <2>2. CASE job[q].kind = "delete"
    BY <1>1, <1>2, <1>3, <1>6, <2>1, <2>2 DEF Needs, Lock
  <2>3. CASE job[q].kind # "delete"
    BY <1>1, <1>2, <2>1, <2>3 DEF Needs, Lock
  <2> QED BY <2>2, <2>3
<1>8. Succeeds(q)'
  <2>0. job[q].kind \in {"create", "update", "delete", "add", "move", "remove", "play"}
    BY <1>3, WrittenIsReady DEF Ready
  <2>1. CASE job[q].kind = "create"
    <3>1. Free(job[q].owner, job[q].name, None)
      BY <1>3, <2>1 DEF Succeeds
    <3>2. ~(job[r].kind = "update" /\ None = job[r].roster)
      BY <1>0 DEF Ready, IInv, IdsAreNew
    <3>3. Lock("name", <<job[q].owner, job[q].name>>) \in Needs(q)
      BY <1>3, <2>1, Holds
    <3>4. Free(job[q].owner, job[q].name, None)'
      BY <1>1, <1>2, <1>3, <3>1, <3>2, <3>3, FreeStays
    <3> QED BY <1>1, <2>1, <3>4 DEF Succeeds
  <2>2. CASE job[q].kind = "update"
    <3>1. /\ job[q].roster \in DOMAIN db.rosters
          /\ "name" \in Moved(q) => Free(job[q].owner, job[q].name, job[q].roster)
      BY <1>3, <2>2 DEF Succeeds
    <3>2. job[q].roster \in DOMAIN db'.rosters
      BY <1>2, <1>3, <2>2, <3>1, RosterStays
    <3>3. ~(job[r].kind = "update" /\ job[q].roster = job[r].roster)
      BY <1>1, <1>3, <1>4, <2>2, Holds
    <3>4. ASSUME "name" \in Moved(q) PROVE Free(job[q].owner, job[q].name, job[q].roster)'
      <4>1. Lock("name", <<job[q].owner, job[q].name>>) \in Needs(q)
        BY <1>3, <2>2, <3>4, Holds
      <4>2. Free(job[q].owner, job[q].name, job[q].roster)
        BY <3>1, <3>4
      <4>3. PICK o, n, x : o = job[q].owner /\ n = job[q].name /\ x = job[q].roster
        OBVIOUS
      <4>4. Free(o, n, x)'
        BY <1>2, <1>3, <3>1, <3>3, <4>1, <4>2, <4>3, FreeStays
      <4> QED BY <1>1, <4>3, <4>4 DEF Free, NameFree
    <3>5. Moved(q)' = Moved(q)
      BY <1>1, <1>2 DEF Moved, Sent
    <3> QED BY <1>1, <2>2, <3>2, <3>4, <3>5 DEF Succeeds
  <2>3. CASE job[q].kind = "delete"
    <3>1. ~Played(job[q].roster)
      BY <1>3, <2>3 DEF Succeeds
    <3>2. ~(job[r].kind = "play" /\ job[r].roster = job[q].roster)
      BY <1>1, <1>3, <1>4, <2>3, Holds
    <3>3. ASSUME NEW g \in DOMAIN db'.games PROVE db'.games[g].roster # job[q].roster
      BY <1>0, <3>1, <3>2 DEF Effect, GameEffect, Played, GamesOf
    <3> QED BY <1>1, <2>3, <3>3 DEF Succeeds, Played, GamesOf
  <2>4. CASE job[q].kind \in {"add", "play"}
    <3>1. job[q].roster \in DOMAIN db.rosters
      BY <1>3, <2>4 DEF Succeeds
    <3>2. job[q].roster \in DOMAIN db'.rosters
      BY <1>2, <1>3, <2>4, <3>1, RosterStays
    <3> QED BY <1>1, <2>4, <3>2 DEF Succeeds
  <2>5. CASE job[q].kind = "move"
    <3>1. job[q].row \in DOMAIN db.rows
      BY <1>3, <2>5 DEF Succeeds
    <3>2. Lock("row", job[q].row) \notin Needs(r)
      BY <1>3, <1>4, <2>5, Holds
    <3>3. ~(job[r].kind = "remove" /\ job[r].row = job[q].row)
      BY <1>1, <3>2, Holds
    <3>4. ~(job[r].kind = "delete" /\ job[q].row \in RowsOf(db, job[r].roster))
      BY <1>1, <3>2, Holds
    <3>5. job[q].row \in DOMAIN db'.rows
      BY <1>0, <3>1, <3>3, <3>4 DEF Effect, RowEffect
    <3> QED BY <1>1, <2>5, <3>5 DEF Succeeds
  <2>6. CASE job[q].kind = "remove"
    BY <1>1, <2>6 DEF Succeeds
  <2> QED BY <2>0, <2>1, <2>2, <2>3, <2>4, <2>5, <2>6
<1> QED BY <1>2, <1>3, <1>5, <1>7, <1>8

-----------------------------------------------------------------------------
(* A commit keeps the rest of the invariant. *)

LEMMA CommitKeepsTables ==
  ASSUME NEW r \in Requests, IInv, Commit(r)
  PROVE  (Typed(db) /\ TxType /\ LocksExclude /\ AcceptedAreGood /\ IdsAreNew)'
<1>1. Effect(r) /\ Ready(r)
  BY CommitEffect
<1>2. Typed(db)'
  BY <1>1 DEF Typed, Effect, RosterEffect, RowEffect, Ready
<1>3. TxType'
  BY CommitSteps DEF IInv, TxType
<1>4. LocksExclude'
  <2>1. ASSUME NEW q \in Requests
        PROVE  (tx[q].locks \cup tx[q].shares # {} => tx[q].pc \in {"decided", "written"})'
    BY CommitSteps DEF IInv, LocksExclude
  <2>2. ASSUME NEW p \in Requests, NEW q \in Requests, p # q
        PROVE  (tx[p].locks \cap (tx[q].locks \cup tx[q].shares) = {})'
    <3>1. CASE p = r
      BY CommitSteps, <3>1
    <3>2. CASE q = r
      BY CommitSteps, <3>2
    <3>3. CASE p # r /\ q # r
      BY CommitSteps, <2>2, <3>3 DEF IInv, LocksExclude
    <3> QED BY <3>1, <3>2, <3>3
  <2> QED BY <2>1, <2>2 DEF LocksExclude
<1>5. AcceptedAreGood'
  BY CommitSteps DEF IInv, AcceptedAreGood
<1>6. IdsAreNew'
  <2>1. None \notin DOMAIN db'.rosters
    BY <1>1, IdsAssumption DEF Effect, RosterEffect, IInv, IdsAreNew
  <2>2. ASSUME NEW q \in Requests, tx'[q].pc # "ok"
        PROVE  q \notin DOMAIN db'.rosters \cup DOMAIN db'.rows \cup DOMAIN db'.games
    <3>1. q # r /\ tx[q].pc # "ok"
      BY <2>2, CommitSteps
    <3>2. q \notin DOMAIN db.rosters \cup DOMAIN db.rows \cup DOMAIN db.games
      BY <3>1 DEF IInv, IdsAreNew
    <3> QED BY <1>1, <3>1, <3>2 DEF Effect, RosterEffect, RowEffect, GameEffect
  <2> QED BY <2>1, <2>2 DEF IdsAreNew
<1> QED BY <1>2, <1>3, <1>4, <1>5, <1>6

LEMMA CommitKeepsOwners ==
  ASSUME NEW r \in Requests, IInv, Commit(r)
  PROVE  OwnersStay'
<1>1. Effect(r) /\ Ready(r)
  BY CommitEffect
<1> SUFFICES ASSUME NEW q \in Requests, job[q].kind # "create"
             PROVE  /\ (tx'[q].pc \in InFlight /\ job[q].roster \in DOMAIN db'.rosters) =>
                          db'.rosters[job[q].roster].owner = job[q].owner
                    /\ (Found(tx'[q]) /\ job[q].roster \in Requests) =>
                          tx'[job[q].roster].pc = "ok"
  BY CommitSteps DEF OwnersStay, Found
<1>2. tx[r].pc = "written" /\ (Found(tx'[q]) => Found(tx[q]))
  BY CommitSteps DEF InFlight, Found
<1>3. Found(tx'[q]) => /\ job[q].roster # r
                       /\ job[q].roster \in Requests => tx[job[q].roster].pc = "ok"
  BY <1>2 DEF IInv, OwnersStay
<1>4. ASSUME tx'[q].pc \in InFlight, job[q].roster \in DOMAIN db'.rosters
      PROVE  db'.rosters[job[q].roster].owner = job[q].owner
  <2>1. q # r /\ tx[q].pc \in InFlight /\ job[q].roster # r
    BY <1>3, <1>4, CommitSteps DEF InFlight, Found
  <2>2. job[q].roster \in DOMAIN db.rosters => db.rosters[job[q].roster].owner = job[q].owner
    BY <2>1 DEF IInv, OwnersStay
  <2> QED BY <1>1, <1>4, <2>1, <2>2 DEF Effect, RosterEffect
<1>5. (Found(tx'[q]) /\ job[q].roster \in Requests) => tx'[job[q].roster].pc = "ok"
  BY <1>3, CommitSteps
<1> QED BY <1>4, <1>5

LEMMA CommitKeepsNames ==
  ASSUME NEW r \in Requests, IInv, Commit(r)
  PROVE  NamesDiffer(db)'
<1>1. Effect(r) /\ Ready(r)
  BY CommitEffect
<1>2. tx[r].pc = "written" /\ Succeeds(r)
  BY CommitSteps DEF IInv, WrittenIsGranted
<1> DEFINE Named(x) == <<db.rosters[x].owner, db.rosters[x].name>>
           Taken == <<job[r].owner, job[r].name>>
           (* whose name is new: it was free *)
           New(x) ==
             \/ job[r].kind = "create" /\ x = r
             \/ job[r].kind = "update" /\ "name" \in Moved(r) /\ x = job[r].roster
<1>3. ASSUME NEW x \in DOMAIN db'.rosters
      PROVE  \/ New(x) /\ <<db'.rosters[x].owner, db'.rosters[x].name>> = Taken
             \/ x \in DOMAIN db.rosters /\ <<db'.rosters[x].owner, db'.rosters[x].name>> = Named(x)
  <2>1. CASE job[r].kind = "update" /\ "name" \in Moved(r) /\ x = job[r].roster
             /\ x \in DOMAIN db.rosters /\ db'.rosters[x].name = job[r].name
             /\ db'.rosters[x].owner = db.rosters[x].owner
    <3>1. db.rosters[x].owner = job[r].owner
      BY <1>2, <2>1 DEF IInv, OwnersStay, InFlight
    <3> QED BY <2>1, <3>1
  <2> QED BY <1>1, <2>1 DEF Effect, RosterEffect
<1>4. ASSUME NEW x, NEW y \in DOMAIN db.rosters, New(x), y # x
      PROVE  Named(y) # Taken
  <2>1. CASE job[r].kind = "create"
    BY <1>2, <1>4, <2>1 DEF Succeeds, Free, NameFree, IInv, IdsAreNew
  <2>2. CASE job[r].kind = "update"
    BY <1>2, <1>4, <2>2 DEF Succeeds, Free, NameFree
  <2> QED BY <1>4, <2>1, <2>2
<1>5. ASSUME NEW x, NEW y, New(x), New(y) PROVE x = y
  BY <1>5
<1> SUFFICES ASSUME NEW x \in DOMAIN db'.rosters, NEW y \in DOMAIN db'.rosters, x # y
             PROVE  <<db'.rosters[x].owner, db'.rosters[x].name>>
                      # <<db'.rosters[y].owner, db'.rosters[y].name>>
  BY DEF NamesDiffer
<1> DEFINE Later(z) == <<db'.rosters[z].owner, db'.rosters[z].name>>
           Took(z) == New(z) /\ Later(z) = Taken
           Kept(z) == z \in DOMAIN db.rosters /\ Later(z) = Named(z)
<1>6. /\ Took(x) \/ Kept(x)
      /\ Took(y) \/ Kept(y)
  BY <1>3
<1>7. CASE Kept(x) /\ Kept(y)
  BY <1>7 DEF IInv, NamesDiffer
<1>8. CASE Took(x) /\ Kept(y)
  BY <1>4, <1>8
<1>9. CASE Kept(x) /\ Took(y)
  BY <1>4, <1>9
<1>10. CASE Took(x) /\ Took(y)
  BY <1>5, <1>10
<1> QED BY <1>6, <1>7, <1>8, <1>9, <1>10

LEMMA CommitKeepsReferences ==
  ASSUME NEW r \in Requests, IInv, Commit(r)
  PROVE  Resolved(db)'
<1>1. Effect(r) /\ Ready(r)
  BY CommitEffect
<1>2. /\ tx[r].pc = "written" /\ tx[r].doomed = <<>> /\ Succeeds(r)
  BY CommitSteps DEF IInv, WrittenIsGranted
<1>3. job[r].kind = "delete" => GamesOf(db, job[r].roster) = {}
  BY <1>2 DEF Succeeds, Played
<1>4. job[r].kind \in {"add", "play"} => job[r].roster \in DOMAIN db.rosters
  BY <1>2 DEF Succeeds
<1>5. ASSUME NEW x \in DOMAIN db.rosters, job[r].kind # "delete" \/ x # job[r].roster
      PROVE  x \in DOMAIN db'.rosters
  BY <1>1, <1>5 DEF Effect, RosterEffect
<1>6. ASSUME NEW g \in DOMAIN db'.games PROVE db'.games[g].roster \in DOMAIN db'.rosters
  <2>1. CASE g \in DOMAIN db.games
    <3>1. db'.games[g].roster = db.games[g].roster /\ db.games[g].roster \in DOMAIN db.rosters
      BY <1>1, <2>1 DEF Effect, GameEffect, IInv, Resolved
    <3> QED BY <1>3, <1>5, <2>1, <3>1 DEF GamesOf
  <2>2. CASE g \notin DOMAIN db.games
    BY <1>1, <1>4, <1>5, <2>2 DEF Effect, GameEffect
  <2> QED BY <2>1, <2>2
<1>7. ASSUME NEW i \in DOMAIN db'.rows PROVE db'.rows[i].roster \in DOMAIN db'.rosters
  <2>1. /\ db'.rows[i].roster \in DOMAIN db.rosters
        /\ job[r].kind = "delete" => db'.rows[i].roster # job[r].roster
    BY <1>1, <1>4 DEF Effect, RowEffect, IInv, Resolved
  <2> QED BY <1>5, <2>1
<1> QED BY <1>6, <1>7 DEF Resolved

LEMMA CommitKeepsDeletions ==
  ASSUME NEW r \in Requests, IInv, Commit(r)
  PROVE  DeletionYieldsOnlyToGames'
<1>1. Effect(r) /\ Ready(r)
  BY CommitEffect
<1> SUFFICES ASSUME NEW q \in Requests, job[q].kind = "delete", tx'[q].pc \in {"refused", "conflict"},
                    tx'[q].loaded # None, job[q].roster \in DOMAIN db'.rosters,
                    db'.rosters[job[q].roster].owner = job[q].owner
             PROVE  \E g \in DOMAIN db'.games : db'.games[g].roster = job[q].roster
  BY CommitSteps DEF DeletionYieldsOnlyToGames, Owned, GamesOf
<1>2. q # r /\ tx'[q] = tx[q]
  BY CommitSteps
<1>3. job[q].roster # r
  BY <1>2, CommitSteps DEF IInv, OwnersStay, Found
<1>4. job[q].roster \in DOMAIN db.rosters /\ db.rosters[job[q].roster].owner = job[q].owner
  BY <1>1, <1>3 DEF Effect, RosterEffect
<1>5. GamesOf(db, job[q].roster) # {}
  BY <1>2, <1>4 DEF IInv, DeletionYieldsOnlyToGames, Owned
<1> QED BY <1>1, <1>5 DEF Effect, GameEffect, GamesOf

LEMMA CommitKeeps ==
  ASSUME NEW r \in Requests, IInv, Commit(r)
  PROVE  IInv'
BY CommitKeepsTables, CommitKeepsOwners, CommitKeepsGranted, CommitKeepsNames,
   CommitKeepsReferences, CommitKeepsDeletions DEF IInv

-----------------------------------------------------------------------------
(* The invariant *)

LEMMA InitEstablishes == Init => IInv
<1> SUFFICES ASSUME Init PROVE IInv
  OBVIOUS
<1>1. /\ Typed(db) /\ NamesDiffer(db) /\ Resolved(db) /\ None \notin DOMAIN db.rosters
      /\ Requests \cap (DOMAIN db.rosters \cup DOMAIN db.rows \cup DOMAIN db.games) = {}
  BY DatabasesAssumption DEF Init
<1>2. /\ DOMAIN tx = Requests /\ job \in [Requests -> Jobs]
      /\ \A r \in Requests :
           /\ DOMAIN tx[r] = {"pc", "loaded", "rows", "doomed", "position", "locks", "shares"}
           /\ tx[r].pc = "start" /\ tx[r].loaded = None /\ tx[r].position = 0 /\ tx[r].locks = {} /\ tx[r].shares = {}
  BY DEF Init
<1>3. TxType
  BY <1>2 DEF TxType
<1>4. LocksExclude
  BY <1>2 DEF LocksExclude
<1>5. IdsAreNew
  BY <1>1, <1>2 DEF IdsAreNew
<1>6. OwnersStay /\ AcceptedAreGood /\ WrittenIsGranted /\ DeletionYieldsOnlyToGames
  BY <1>2
     DEF OwnersStay, AcceptedAreGood, WrittenIsGranted, DeletionYieldsOnlyToGames, InFlight, Found
<1> QED BY <1>1, <1>3, <1>4, <1>5, <1>6 DEF IInv

LEMMA StutterKeeps == IInv /\ UNCHANGED vars => IInv'
<1> SUFFICES ASSUME IInv, UNCHANGED vars PROVE IInv'
  OBVIOUS
<1>1. db' = db /\ tx' = tx /\ job' = job
  BY DEF vars
<1>2. (Typed(db) /\ NamesDiffer(db) /\ Resolved(db))'
  BY <1>1 DEF IInv
<1>3. TxType' /\ LocksExclude' /\ IdsAreNew' /\ OwnersStay' /\ AcceptedAreGood'
  BY <1>1 DEF IInv, TxType, LocksExclude, IdsAreNew, OwnersStay, AcceptedAreGood
<1>4. WrittenIsGranted'
  BY <1>1, NeedsStay DEF IInv, WrittenIsGranted
<1>5. DeletionYieldsOnlyToGames'
  BY <1>1 DEF IInv, DeletionYieldsOnlyToGames, Owned, GamesOf
<1> QED BY <1>2, <1>3, <1>4, <1>5 DEF IInv

LEMMA NextKeeps == IInv /\ [Next]_vars => IInv'
<1> SUFFICES ASSUME IInv, Next PROVE IInv'
  BY StutterKeeps
<1>1. PICK r \in Requests : Run(r) \/ Lost(r)
  BY DEF Next
<1> QED
  BY <1>1, LoadKeeps, DecideKeeps, RefuseKeeps, CollectKeeps, WriteKeeps, LoseKeeps, CommitKeeps,
     LostKeeps DEF Run

LEMMA Invariant == Spec => []IInv
BY InitEstablishes, NextKeeps, PTL DEF Spec

(* The tables keep to their columns, and no lock is held twice, however    *)
(* many requests run at once.                                              *)
THEOREM TypeCorrect == Spec => []TypeOK
<1>1. IInv => TypeOK
  BY DEF IInv, LocksExclude, TypeOK
<1> QED BY <1>1, Invariant, PTL

(* uq_kt_roster_owner_name and the locks on what it indexes: two requests  *)
(* that both found a name free never both take it.                         *)
THEOREM NamesStayUnique == Spec => []NamesUnique
<1>1. IInv => NamesUnique
  BY DEF IInv, NamesUnique
<1> QED BY <1>1, Invariant, PTL

(* A game keeps the roster it was played from, and an operative its        *)
(* roster, whichever of a deletion and an addition or a game comes first.  *)
THEOREM ReferencesStay == Spec => []ReferencesResolve
<1>1. IInv => ReferencesResolve
  BY DEF IInv, ReferencesResolve
<1> QED BY <1>1, Invariant, PTL

(* A player's deletion of a roster fails for a game alone. *)
THEOREM OnlyGamesStopDeletion == Spec => []DeletionYieldsOnlyToGames
<1>1. IInv => DeletionYieldsOnlyToGames
  BY DEF IInv
<1> QED BY <1>1, Invariant, PTL

-----------------------------------------------------------------------------
(* A commit that moves a field of a roster is the commit of an update that *)
(* sent it: another tab's fields are written back by nobody.               *)
LEMMA CommitMovesWhatWasSent ==
  ASSUME NEW r \in Requests, IInv, Commit(r),
         NEW x \in DOMAIN db.rosters \cap DOMAIN db'.rosters, NEW f \in Columns,
         db'.rosters[x][f] # db.rosters[x][f]
  PROVE  job[r].kind = "update" /\ job[r].roster = x /\ job[r][f] = db'.rosters[x][f]
<1>1. Ready(r) /\ db' = Result(r)
  BY CommitEffect DEF Commit
<1>2. CASE job[r].kind = "update"
  <2>1. db' = [db EXCEPT !.rosters = With(@, job[r].roster, Set(r))]
    BY <1>1, <1>2 DEF Result
  <2>2. db'.rosters = With(db.rosters, job[r].roster, Set(r))
    BY <1>1, <2>1 DEF Ready, Typed
  <2>3. job[r].roster = x /\ db'.rosters[x] = Set(r)
    BY <2>2 DEF With
  <2> QED BY <1>2, <2>3 DEF Set
<1>3. CASE job[r].kind = "create"
  <2>1. PICK row : db' = [db EXCEPT !.rosters = With(@, r, row)]
    BY <1>1, <1>3 DEF Result
  <2>2. db'.rosters = With(db.rosters, r, row) /\ x # r
    BY <1>1, <2>1 DEF Ready, Typed
  <2> QED BY <2>2 DEF With
<1>4. CASE job[r].kind = "delete"
  <2>1. PICK rows : db' = [db EXCEPT !.rosters = Without(@, {job[r].roster}), !.rows = rows]
    BY <1>1, <1>4 DEF Result
  <2>2. db'.rosters = Without(db.rosters, {job[r].roster})
    BY <1>1, <2>1 DEF Ready, Typed
  <2> QED BY <2>2 DEF Without
<1>5. CASE job[r].kind \in {"add", "move", "remove"}
  <2>1. PICK rows : db' = [db EXCEPT !.rows = rows]
    BY <1>1, <1>5 DEF Result
  <2> QED BY <1>1, <2>1 DEF Ready, Typed
<1>6. CASE job[r].kind = "play"
  <2>1. PICK games : db' = [db EXCEPT !.games = games]
    BY <1>1, <1>6 DEF Result
  <2> QED BY <1>1, <2>1 DEF Ready, Typed
<1> QED BY <1>1, <1>2, <1>3, <1>4, <1>5, <1>6 DEF Ready

(* Only the columns that moved are in the UPDATE: a column of a roster     *)
(* never changes to a value that no update committing then has sent for    *)
(* it, so that none puts back what it loaded over what another sent.       *)
THEOREM UpdatesAreKept == Spec => UpdatesKeepEachOther
<1> DEFINE Sender(x, f) ==
             \E r \in Requests :
               /\ tx[r].pc = "written" /\ tx'[r].pc = "ok"
               /\ job[r].kind = "update" /\ job[r].roster = x /\ job[r][f] = db'.rosters[x][f]
           Sends == \A x \in DOMAIN db.rosters \cap DOMAIN db'.rosters : \A f \in Columns :
                      db'.rosters[x][f] # db.rosters[x][f] => Sender(x, f)
<1>1. IInv /\ [Next]_vars => [Sends]_db
  <2> SUFFICES ASSUME IInv, [Next]_vars, db' # db,
                      NEW x \in DOMAIN db.rosters \cap DOMAIN db'.rosters, NEW f \in Columns,
                      db'.rosters[x][f] # db.rosters[x][f]
               PROVE  Sender(x, f)
    OBVIOUS
  <2>1. PICK r \in Requests : Commit(r)
    BY DEF Next, Run, Load, Decide, Refuse, Collect, Write, Lose, Lost, End, Step, vars
  <2>2. job[r].kind = "update" /\ job[r].roster = x /\ job[r][f] = db'.rosters[x][f]
    BY <2>1, CommitMovesWhatWasSent
  <2> QED BY <2>1, <2>2, CommitSteps
<1> QED BY <1>1, Invariant, PTL DEF Spec, UpdatesKeepEachOther
=============================================================================
