--------------------------- MODULE AccountsProofs ---------------------------
(***************************************************************************)
(* What Accounts promises for any number of requests and users: the        *)
(* columns that are unique stay so, and only the checks of set_admin that  *)
(* another commit overtook let a request change what it may not change.    *)
(***************************************************************************)
EXTENDS Accounts, FiniteSetTheorems, TLAPS

Registers(r) == job[r].kind = "register"

Demotes(r) == ~Registers(r) /\ ~Asked(job[r])

(* What is true of a request at its step t: a row it is about to insert    *)
(* clashes with nothing, committed or not; a row it is about to update is  *)
(* there, and nobody else's; a demotion has counted two admins; and the    *)
(* caller of set_admin was found to be one.                                *)
Sound(r, t) ==
  /\ t.writes => t.pc = "written"
  /\ t.writes /\ Registers(r) =>
       /\ t.target = r
       /\ ~Taken(job[r])
       /\ \A q \in Requests \ {r} :
            tx[q].writes /\ Registers(q) => ~Clash(job[q], job[r])
  /\ t.writes /\ ~Registers(r) =>
       /\ \A q \in Requests \ {r} : tx[q].writes => tx[q].target # t.target
       /\ Demotes(r) => t.held
  /\ t.pc \in {"loaded", "decided", "written"} /\ ~Registers(r) =>
       t.target \in DOMAIN users
  /\ t.pc \in {"decided", "written"} /\ Demotes(r) /\ t.held =>
       IsFiniteSet(t.counted) /\ Cardinality(t.counted) > 1
  /\ t.pc \in {"authorized", "loaded", "decided", "written"} /\ job[r].kind = "set_admin" =>
       job[r].caller \in t.admitted

IInv ==
  /\ TypeOK
  /\ NamesUnique
  /\ IsFiniteSet(DOMAIN users)
  /\ \A r \in Requests : tx[r].pc # "ok" => r \notin DOMAIN users
  /\ \A r \in Requests : Sound(r, tx[r])

-----------------------------------------------------------------------------
LEMMA InitInv == ASSUME Init PROVE IInv
<1>1. users \in Tables /\ job \in [Requests -> Jobs]
  BY DEF Init
<1>2. tx = [r \in Requests |->
              [pc |-> "start", target |-> None, held |-> FALSE,
               admitted |-> {}, counted |-> {}, writes |-> FALSE]]
  BY DEF Init
<1>3. tx \in [Requests -> Transactions]
  BY <1>2 DEF Transactions
<1>4. \A r \in Requests : ~tx[r].writes /\ tx[r].pc = "start"
  BY <1>2
<1>5. /\ users \in [DOMAIN users -> Row] /\ DOMAIN users \subseteq Ids
      /\ IsFiniteSet(DOMAIN users) /\ DOMAIN users \cap Requests = {}
      /\ NamesUnique
  BY <1>1, TablesAssumption DEF Row, Ids, NamesUnique, Clash
<1> QED
  BY <1>1, <1>3, <1>4, <1>5 DEF IInv, TypeOK, Sound

(* A step that commits nothing keeps the invariant if it is sound.         *)
LEMMA GotoKeeps ==
  ASSUME IInv, NEW r \in Requests, NEW t \in Transactions,
         Goto(r, t), tx[r].pc # "ok", Sound(r, t)
  PROVE  IInv'
<1>1. /\ users' = users /\ job' = job /\ tx' = [tx EXCEPT ![r] = t]
      /\ tx \in [Requests -> Transactions]
  BY DEF Goto, IInv, TypeOK
<1>2. /\ tx' \in [Requests -> Transactions]
      /\ tx'[r] = t /\ \A q \in Requests \ {r} : tx'[q] = tx[q]
  BY <1>1
<1>3. \A q \in Requests : Sound(q, tx[q])
  BY DEF IInv
<1>4. \A q \in Requests \ {r} : Sound(q, tx[q])'
  <2> SUFFICES ASSUME NEW q \in Requests \ {r} PROVE Sound(q, tx[q])'
    OBVIOUS
  <2>1. Sound(q, tx[q])
    BY <1>3
  <2>2. Clash(job[q], job[r]) <=> Clash(job[r], job[q])
    BY DEF Clash
  <2>3. tx[q].writes /\ ~Registers(q) /\ t.writes => t.target # tx[q].target
    <3>1. CASE Registers(r)
      BY <2>1, <3>1 DEF Sound, IInv
    <3>2. CASE ~Registers(r)
      BY <3>2 DEF Sound
    <3> QED
      BY <3>1, <3>2
  <2>4. (t.writes /\ Registers(r) /\ tx[q].writes /\ Registers(q)) => ~Clash(job[r], job[q])
    BY <2>2 DEF Sound
  <2> QED
    BY <1>1, <1>2, <2>1, <2>3, <2>4 DEF Sound, Registers, Demotes, Taken, Asked
<1>5. Sound(r, tx[r])'
  BY <1>1, <1>2 DEF Sound, Registers, Demotes, Taken
<1>6. \A p \in Requests : tx'[p].writes =>
        tx'[p].pc = "written" /\ (job[p].kind = "register" \/ tx'[p].target \in DOMAIN users)
  BY <1>1, <1>4, <1>5 DEF Sound, Registers
<1>7. \A p \in Requests : tx'[p].pc # "ok" => p \notin DOMAIN users
  BY <1>2 DEF IInv
<1>8. \A p, q \in Requests : tx'[p].writes /\ tx'[q].writes /\ tx'[p].target = tx'[q].target => p = q
  <2> SUFFICES ASSUME NEW p \in Requests, NEW q \in Requests, p # q,
                      tx'[p].writes, tx'[q].writes, tx'[p].target = tx'[q].target
               PROVE  FALSE
    OBVIOUS
  <2>1. Sound(p, tx[p])' /\ Sound(q, tx[q])'
    BY <1>4, <1>5
  <2>2. tx'[p].pc # "ok" /\ tx'[q].pc # "ok"
    BY <1>6
  <2>3. job[p].kind = "register" => tx'[p].target = p
    BY <1>1, <2>1 DEF Sound, Registers
  <2>4. job[q].kind = "register" => tx'[q].target = q
    BY <1>1, <2>1 DEF Sound, Registers
  <2>5. job[p].kind # "register" => tx'[q].target # tx'[p].target
    BY <1>1, <2>1 DEF Sound, Registers
  <2>6. job[q].kind # "register" => tx'[p].target # tx'[q].target
    BY <1>1, <2>1 DEF Sound, Registers
  <2> QED
    BY <2>3, <2>4, <2>5, <2>6
<1>9. TypeOK'
  BY <1>1, <1>2, <1>6, <1>8 DEF IInv, TypeOK
<1> QED
  BY <1>1, <1>4, <1>5, <1>7, <1>9 DEF IInv, NamesUnique

(* What End leaves behind is sound.                                        *)
LEMMA EndKeeps ==
  ASSUME IInv, NEW r \in Requests, NEW outcome \in {"refused", "conflict", "lost"},
         End(r, outcome), tx[r].pc # "ok"
  PROVE  IInv'
<1> DEFINE t == [tx[r] EXCEPT !.pc = outcome, !.writes = FALSE]
<1>1. t \in Transactions /\ t.pc = outcome /\ t.writes = FALSE
  BY DEF IInv, TypeOK, Transactions, Outcomes
<1>2. Sound(r, t)
  BY <1>1 DEF Sound
<1>3. Goto(r, t)
  BY DEF End
<1> QED
  <2> HIDE DEF t
  <2> QED
    BY <1>1, <1>2, <1>3, GotoKeeps

-----------------------------------------------------------------------------
(* The rows a commit leaves behind *)

LEMMA CommitKeeps ==
  ASSUME IInv, NEW r \in Requests, Commit(r)
  PROVE  IInv'
<1> DEFINE u == tx[r].target
<1>1. /\ tx[r].pc = "written" /\ job' = job
      /\ users' = IF tx[r].writes THEN Written(users, u, job[r]) ELSE users
      /\ tx' = [tx EXCEPT ![r] = [@ EXCEPT !.pc = "ok", !.writes = FALSE]]
  BY DEF Commit
<1>2. /\ tx \in [Requests -> Transactions] /\ job \in [Requests -> Jobs]
      /\ users \in [DOMAIN users -> Row] /\ DOMAIN users \subseteq Ids
      /\ \A q \in Requests : Sound(q, tx[q])
  BY DEF IInv, TypeOK
<1>3. /\ tx' \in [Requests -> Transactions]
      /\ tx'[r].pc = "ok" /\ ~tx'[r].writes
      /\ \A q \in Requests \ {r} : tx'[q] = tx[q]
  BY <1>1, <1>2 DEF Transactions, Outcomes
<1>4. CASE ~tx[r].writes
  <2>1. users' = users
    BY <1>1, <1>4
  <2>2. \A q \in Requests : Sound(q, tx[q])'
    BY <1>1, <1>2, <1>3, <2>1 DEF Sound, Registers, Demotes, Taken, Asked
  <2>3. TypeOK'
    BY <1>1, <1>2, <1>3, <2>1, <2>2 DEF IInv, TypeOK, Sound
  <2> QED
    BY <1>1, <1>3, <2>1, <2>2, <2>3 DEF IInv, NamesUnique
<1>5. CASE tx[r].writes /\ Registers(r)
  <2> DEFINE row == [username |-> job[r].username, email |-> job[r].email, is_admin |-> FALSE]
  <2>1. u = r /\ ~Taken(job[r]) /\ r \notin DOMAIN users
    BY <1>1, <1>2, <1>5 DEF Sound, IInv
  <2>2. users' = [v \in DOMAIN users \cup {r} |-> IF v = r THEN row ELSE users[v]]
    BY <1>1, <1>5, <2>1 DEF Written, Registers
  <2>3. row \in Row
    BY <1>2, <1>5, JobsAssumption DEF Registers, Row
  <2>4. /\ DOMAIN users' = DOMAIN users \cup {r}
        /\ users'[r] = row /\ \A v \in DOMAIN users : users'[v] = users[v]
        /\ users' \in [DOMAIN users' -> Row] /\ DOMAIN users' \subseteq Ids
    <3> HIDE DEF row
    <3> QED
      BY <1>2, <2>1, <2>2, <2>3 DEF Ids
  <2>5. NamesUnique'
    <3>1. \A v \in DOMAIN users : ~Clash(users[v], row) /\ ~Clash(row, users[v])
      BY <2>1 DEF Taken, Clash
    <3> HIDE DEF row
    <3> QED
      BY <2>4, <3>1 DEF IInv, NamesUnique, Clash
  <2>6. \A q \in Requests : Sound(q, tx[q])'
    <3> SUFFICES ASSUME NEW q \in Requests \ {r} PROVE Sound(q, tx[q])'
      BY <1>3 DEF Sound
    <3>1. Sound(q, tx[q]) /\ tx'[q] = tx[q]
      BY <1>2, <1>3
    <3>2. tx[q].writes /\ Registers(q) => ~Clash(row, job[q])
      BY <1>2, <1>5 DEF Sound, Clash
    <3>3. tx[q].writes /\ Registers(q) => ~Taken(job[q])'
      <4> HIDE DEF row
      <4> QED
        BY <1>1, <2>4, <3>1, <3>2 DEF Sound, Taken
    <3> HIDE DEF row
    <3> QED
      BY <1>1, <1>3, <2>4, <3>1, <3>3 DEF Sound, Registers, Demotes, Asked
  <2>7. IsFiniteSet(DOMAIN users')
    BY <2>4, FS_AddElement DEF IInv
  <2>8. \A q \in Requests : tx'[q].pc # "ok" => q \notin DOMAIN users'
    BY <1>3, <2>4 DEF IInv
  <2>9. TypeOK'
    BY <1>1, <1>2, <1>3, <2>4, <2>6 DEF IInv, TypeOK, Sound
  <2> QED
    BY <2>5, <2>6, <2>7, <2>8, <2>9 DEF IInv
<1>6. CASE tx[r].writes /\ ~Registers(r)
  <2>1. u \in DOMAIN users
    BY <1>1, <1>2, <1>6 DEF Sound
  <2>2. Asked(job[r]) \in BOOLEAN
    BY <1>2, <1>6, JobsAssumption DEF Registers, Asked
  <2>3. users' = [users EXCEPT ![u] = [@ EXCEPT !.is_admin = Asked(job[r])]]
    <3>1. users' = [v \in DOMAIN users |->
                      IF v = u THEN [users[u] EXCEPT !.is_admin = Asked(job[r])] ELSE users[v]]
      BY <1>1, <1>6, <2>1 DEF Written, Registers
    <3> QED
      BY <1>2, <2>1, <3>1
  <2>4. /\ DOMAIN users' = DOMAIN users /\ users' \in [DOMAIN users -> Row]
        /\ \A v \in DOMAIN users : /\ users'[v].username = users[v].username
                                 /\ users'[v].email = users[v].email
    BY <1>2, <2>1, <2>2, <2>3 DEF Row
  <2>5. NamesUnique'
    BY <2>4 DEF IInv, NamesUnique, Clash
  <2>6. \A q \in Requests : Taken(job[q])' <=> Taken(job[q])
    BY <1>1, <2>4 DEF Taken, Clash
  <2>7. \A q \in Requests : Sound(q, tx[q])'
    BY <1>1, <1>2, <1>3, <2>4, <2>6 DEF Sound, Registers, Demotes, Asked
  <2>8. TypeOK'
    BY <1>1, <1>2, <1>3, <2>4, <2>7 DEF IInv, TypeOK, Sound
  <2> QED
    BY <1>3, <2>4, <2>5, <2>7, <2>8 DEF IInv
<1> QED
  BY <1>4, <1>5, <1>6

-----------------------------------------------------------------------------
(* The steps of a request *)

LEMMA RegistrationKeeps ==
  ASSUME IInv, NEW r \in Requests, LookForClash(r) \/ Insert(r)
  PROVE  IInv'
<1>1. tx[r] \in Transactions /\ r \in Ids
  BY DEF IInv, TypeOK, Ids
<1>2. ASSUME LookForClash(r) PROVE IInv'
  <2>1. tx[r].pc = "start" /\ Registers(r)
    BY <1>2 DEF LookForClash, Registers
  <2>2. CASE End(r, "refused")
    BY <2>1, <2>2, EndKeeps
  <2>3. CASE Goto(r, [tx[r] EXCEPT !.pc = "decided"])
    <3>1. PICK t : t = [tx[r] EXCEPT !.pc = "decided"]
      OBVIOUS
    <3>2. t \in Transactions /\ t.pc = "decided" /\ t.writes = tx[r].writes
      BY <1>1, <3>1 DEF Transactions
    <3>3. ~tx[r].writes
      BY <2>1 DEF IInv, Sound
    <3>4. Sound(r, t)
      BY <2>1, <3>2, <3>3 DEF Sound, Demotes, Registers
    <3> QED
      BY <2>1, <2>3, <3>1, <3>2, <3>4, GotoKeeps
  <2> QED
    BY <1>2, <2>2, <2>3 DEF LookForClash
<1>3. ASSUME Insert(r) PROVE IInv'
  <2>1. tx[r].pc = "decided" /\ Registers(r)
    BY <1>3 DEF Insert, Registers
  <2>2. CASE End(r, "conflict")
    BY <2>1, <2>2, EndKeeps
  <2>3. CASE ~Taken(job[r]) /\ Goto(r, [tx[r] EXCEPT !.pc = "written", !.target = r, !.writes = TRUE])
    <3>1. PICK t : t = [tx[r] EXCEPT !.pc = "written", !.target = r, !.writes = TRUE]
      OBVIOUS
    <3>2. t \in Transactions /\ t.pc = "written" /\ t.target = r
      BY <1>1, <3>1 DEF Transactions
    <3>3. \A q \in Requests \ {r} : tx[q].writes /\ Registers(q) => ~Clash(job[q], job[r])
      BY <1>3 DEF Insert, Registers
    <3>4. Sound(r, t)
      BY <2>1, <2>3, <3>2, <3>3 DEF Sound, Demotes, Registers
    <3> QED
      BY <2>1, <2>3, <3>1, <3>2, <3>4, GotoKeeps
  <2> QED
    BY <1>3, <2>2, <2>3 DEF Insert
<1> QED
  BY <1>2, <1>3

LEMMA LoadKeeps ==
  ASSUME IInv, NEW r \in Requests, Authorize(r) \/ Load(r)
  PROVE  IInv'
<1>1. /\ tx[r] \in Transactions /\ Sound(r, tx[r])
      /\ users \in [DOMAIN users -> Row] /\ DOMAIN users \subseteq Ids
      /\ job[r] \in Jobs
  BY DEF IInv, TypeOK
<1>2. ASSUME Authorize(r) PROVE IInv'
  <2>1. tx[r].pc = "start"
    BY <1>2 DEF Authorize
  <2>2. CASE End(r, "refused")
    BY <2>1, <2>2, EndKeeps
  <2>3. CASE /\ job[r].caller \in Admins
             /\ Goto(r, [tx[r] EXCEPT !.pc = "authorized", !.admitted = Admins])
    <3>1. PICK t : t = [tx[r] EXCEPT !.pc = "authorized", !.admitted = Admins]
      OBVIOUS
    <3>2. /\ t \in Transactions /\ t.pc = "authorized" /\ t.writes = tx[r].writes
          /\ t.admitted = Admins
      BY <1>1, <3>1 DEF Transactions, Admins
    <3>3. Sound(r, t)
      BY <1>1, <2>1, <2>3, <3>2 DEF Sound
    <3> QED
      BY <2>1, <2>3, <3>1, <3>2, <3>3, GotoKeeps
  <2> QED
    BY <1>2, <2>2, <2>3 DEF Authorize
<1>3. ASSUME Load(r) PROVE IInv'
  <2>1. tx[r].pc \in {"start", "authorized"}
    BY <1>3 DEF Load
  <2>2. CASE End(r, "refused")
    BY <2>1, <2>2, EndKeeps
  <2>3. ASSUME NEW u \in Named(job[r]),
               Goto(r, [tx[r] EXCEPT
                          !.pc = IF job[r].kind = "promote" THEN "decided" ELSE "loaded",
                          !.target = u,
                          !.held = users[u].is_admin \/ IsCaller(r, u)])
        PROVE  IInv'
    <3>1. PICK t : t = [tx[r] EXCEPT
                          !.pc = IF job[r].kind = "promote" THEN "decided" ELSE "loaded",
                          !.target = u,
                          !.held = users[u].is_admin \/ IsCaller(r, u)]
      OBVIOUS
    <3>2. u \in DOMAIN users
      BY <1>1, <1>3, <2>3, <2>1 DEF Named, Load
    <3>3. (users[u].is_admin \/ IsCaller(r, u)) \in BOOLEAN
      OBVIOUS
    <3>4. PICK held \in BOOLEAN : held = (users[u].is_admin \/ IsCaller(r, u))
      BY <3>3
    <3>5. t = [tx[r] EXCEPT !.pc = IF job[r].kind = "promote" THEN "decided" ELSE "loaded",
                            !.target = u, !.held = held]
      BY <3>1, <3>4, Zenon
    <3>6. /\ t \in Transactions /\ t.pc \in {"loaded", "decided"}
          /\ t.pc = "decided" => job[r].kind = "promote"
          /\ t.writes = tx[r].writes /\ t.target = u /\ t.admitted = tx[r].admitted
      BY <1>1, <3>2, <3>5 DEF Transactions
    <3>7. Sound(r, t)
      BY <1>1, <1>3, <2>1, <3>2, <3>6 DEF Sound, Demotes, Asked, Load
    <3> QED
      BY <2>1, <2>3, <3>1, <3>6, <3>7, GotoKeeps
  <2> QED
    BY <1>3, <2>2, <2>3 DEF Load
<1> QED
  BY <1>2, <1>3

LEMMA DecideKeeps ==
  ASSUME IInv, NEW r \in Requests, Decide(r)
  PROVE  IInv'
<1>1. /\ tx[r] \in Transactions /\ Sound(r, tx[r]) /\ tx[r].pc = "loaded"
      /\ DOMAIN users \subseteq Ids
  BY DEF IInv, TypeOK, Decide
<1>2. /\ Admins \in SUBSET Ids /\ IsFiniteSet(Admins)
  BY <1>1, FS_Subset DEF Admins, IInv
<1>3. CASE End(r, "refused")
  BY <1>1, <1>3, EndKeeps
<1>4. CASE (~tx[r].held \/ Asked(job[r])) /\ Goto(r, [tx[r] EXCEPT !.pc = "decided"])
  <2>1. PICK t : t = [tx[r] EXCEPT !.pc = "decided"]
    OBVIOUS
  <2>2. /\ t \in Transactions /\ t.pc = "decided" /\ t.writes = tx[r].writes
        /\ t.target = tx[r].target /\ t.held = tx[r].held /\ t.admitted = tx[r].admitted
    BY <1>1, <2>1 DEF Transactions
  <2>3. Sound(r, t)
    BY <1>1, <1>4, <2>2 DEF Sound, Demotes
  <2> QED
    BY <1>1, <1>4, <2>1, <2>2, <2>3, GotoKeeps
<1>5. CASE /\ MayDemote(Admins)
           /\ Goto(r, [tx[r] EXCEPT !.pc = "decided", !.counted = Admins])
  <2>1. PICK t : t = [tx[r] EXCEPT !.pc = "decided", !.counted = Admins]
    OBVIOUS
  <2>2. /\ t \in Transactions /\ t.pc = "decided" /\ t.writes = tx[r].writes
        /\ t.target = tx[r].target /\ t.counted = Admins /\ t.admitted = tx[r].admitted
    BY <1>1, <1>2, <2>1 DEF Transactions
  <2>3. Sound(r, t)
    BY <1>1, <1>2, <1>5, <2>2 DEF Sound, Demotes, MayDemote
  <2> QED
    BY <1>1, <1>5, <2>1, <2>2, <2>3, GotoKeeps
<1> QED
  BY <1>3, <1>4, <1>5 DEF Decide

LEMMA UpdateKeeps ==
  ASSUME IInv, NEW r \in Requests, Update(r)
  PROVE  IInv'
<1>1. /\ tx[r] \in Transactions /\ Sound(r, tx[r]) /\ tx[r].pc = "decided"
      /\ ~Registers(r)
  BY DEF IInv, TypeOK, Update, Registers
<1>2. PICK moves \in BOOLEAN : moves = (tx[r].held # Asked(job[r]))
  OBVIOUS
<1>3. /\ moves => ~\E q \in Requests : tx[q].writes /\ tx[q].target = tx[r].target
      /\ Goto(r, [tx[r] EXCEPT !.pc = "written", !.writes = moves])
  BY <1>2, Zenon DEF Update
<1>4. PICK t : t = [tx[r] EXCEPT !.pc = "written", !.writes = moves]
  OBVIOUS
<1>5. /\ t \in Transactions /\ t.pc = "written" /\ t.writes = moves
      /\ t.target = tx[r].target /\ t.held = tx[r].held /\ t.counted = tx[r].counted
      /\ t.admitted = tx[r].admitted
  BY <1>1, <1>4 DEF Transactions
<1>6. moves /\ Demotes(r) => tx[r].held
  <2>1. tx[r].held \in BOOLEAN
    BY <1>1 DEF Transactions
  <2>2. ~Asked(job[r]) /\ ~tx[r].held => Asked(job[r]) = tx[r].held
    <3>1. job[r].kind \in {"set_admin", "promote"} /\ job[r] \in Jobs
      BY <1>1, JobsAssumption DEF IInv, TypeOK, Registers
    <3>2. Asked(job[r]) \in BOOLEAN
      BY <3>1, JobsAssumption DEF Asked
    <3> QED
      BY <2>1, <3>2
  <2> QED
    BY <1>2, <2>2 DEF Demotes
<1>7. Sound(r, t)
  BY <1>1, <1>3, <1>5, <1>6 DEF Sound, Demotes
<1> QED
  BY <1>1, <1>3, <1>4, <1>5, <1>7, GotoKeeps

LEMMA NextKeeps == ASSUME IInv, [Next]_vars PROVE IInv'
<1>1. ASSUME NEW r \in Requests, LookForClash(r) \/ Insert(r) PROVE IInv'
  BY <1>1, RegistrationKeeps
<1>2. ASSUME NEW r \in Requests, Authorize(r) \/ Load(r) PROVE IInv'
  BY <1>2, LoadKeeps
<1>3. ASSUME NEW r \in Requests, Decide(r) PROVE IInv'
  BY <1>3, DecideKeeps
<1>4. ASSUME NEW r \in Requests, Update(r) PROVE IInv'
  BY <1>4, UpdateKeeps
<1>5. ASSUME NEW r \in Requests, Commit(r) PROVE IInv'
  BY <1>5, CommitKeeps
<1>6. ASSUME NEW r \in Requests, Lost(r) PROVE IInv'
  BY <1>6, EndKeeps DEF Lost, Outcomes
<1>7. CASE UNCHANGED vars
  BY <1>7 DEF vars, IInv, TypeOK, NamesUnique, Sound, Registers, Demotes, Taken, Asked, Clash
<1> QED
  BY <1>1, <1>2, <1>3, <1>4, <1>5, <1>6, <1>7 DEF Next

THEOREM Invariance == Spec => []IInv
<1>1. Init => IInv
  BY InitInv
<1>2. IInv /\ [Next]_vars => IInv'
  BY NextKeeps
<1> QED
  BY <1>1, <1>2, PTL DEF Spec

-----------------------------------------------------------------------------
(* Rows and transactions keep their types, and no two transactions write   *)
(* one row of users, for any number of requests.                           *)
THEOREM TypeCorrect == Spec => []TypeOK
<1>1. IInv => TypeOK
  BY DEF IInv
<1> QED
  BY <1>1, Invariance, PTL

(* uq username and uq email, whatever registrations overlap: create_user's *)
(* check is backed by the columns' constraints.                            *)
THEOREM NamesStayUnique == Spec => []NamesUnique
<1>1. IInv => NamesUnique
  BY DEF IInv
<1> QED
  BY <1>1, Invariance, PTL

(* set_admin and get_current_admin: however requests overlap, a change of  *)
(* the users is one its request would make of them if it ran at that       *)
(* moment, or an admin its count or its admission rests on is one no more. *)
THEOREM StaleChecks == Spec => OnlyStaleChecksMatter
<1> DEFINE Explained(r) ==
      /\ tx[r].writes /\ tx'[r].pc = "ok"
      /\ users' = Performed(users, r) \/ CountIsStale(r) \/ CallerIsStale(r)
<1>1. ASSUME IInv, IInv', [Next]_vars, users' # users
      PROVE  \E r \in Requests : Explained(r)
  <2>1. PICK r \in Requests : Commit(r)
    BY <1>1 DEF Next, vars, LookForClash, Insert, Authorize, Load, Decide, Update, Lost, End, Goto
  <2>2. tx[r].writes /\ tx[r].pc = "written" /\ users' = Written(users, tx[r].target, job[r])
    BY <1>1, <2>1 DEF Commit
  <2>3. tx'[r].pc = "ok" /\ Sound(r, tx[r])
    BY <1>1, <2>1 DEF Commit, IInv, TypeOK, Transactions
  <2>4. SUFFICES ASSUME ~CountIsStale(r), ~CallerIsStale(r)
                 PROVE  users' = Performed(users, r)
    BY <2>2, <2>3
  <2>5. CASE Registers(r)
    BY <2>2, <2>3, <2>5 DEF Sound, Performed, Registers
  <2>6. job[r].kind = "set_admin" => job[r].caller \in Admins
    BY <2>2, <2>3, <2>4 DEF Sound, CallerIsStale
  <2>7. CASE ~Registers(r) /\ Asked(job[r])
    BY <2>2, <2>6, <2>7 DEF Performed, Registers, Admins
  <2>8. CASE Demotes(r)
    <3>1. IsFiniteSet(Admins) /\ Cardinality(Admins) \in Nat
      BY <1>1, FS_Subset, FS_CardinalityType DEF IInv, Admins
    <3>2. IsFiniteSet(tx[r].counted) /\ Cardinality(tx[r].counted) > 1
      BY <2>2, <2>3, <2>8 DEF Sound, Demotes
    <3>3. tx[r].counted \subseteq Admins
      BY <2>4 DEF CountIsStale
    <3>4. Cardinality(tx[r].counted) \in Nat /\ Cardinality(tx[r].counted) <= Cardinality(Admins)
      BY <3>1, <3>2, <3>3, FS_Subset, FS_CardinalityType
    <3>5. ~(Cardinality(Admins) <= 1)
      BY <3>1, <3>2, <3>4
    <3> QED
      BY <2>2, <2>6, <2>8, <3>5 DEF Performed, Admins, Demotes, Registers
  <2> QED
    BY <2>5, <2>7, <2>8 DEF Demotes
<1>2. IInv /\ IInv' /\ [Next]_vars => [\E r \in Requests : Explained(r)]_users
  BY <1>1
<1> QED
  BY <1>2, Invariance, PTL DEF Spec, OnlyStaleChecksMatter

=============================================================================
