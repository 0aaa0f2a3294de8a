------------------------------ MODULE Accounts ------------------------------
(***************************************************************************)
(* The users table, and the requests that write it: registration, granting *)
(* and revoking admin over the API, and make_admin, the operator's script. *)
(* Each is a transaction under READ COMMITTED that reads, decides, writes  *)
(* one row and commits; between any two of these steps others may run.     *)
(* Users are never deleted.                                                *)
(***************************************************************************)
EXTENDS Naturals, FiniteSets

CONSTANTS
  Requests,  \* a registration's request is also the id of the row it makes
  Jobs,      \* [kind |-> "register", username, email],
             \* [kind |-> "set_admin", caller, user, is_admin] or
             \* [kind |-> "promote", username]
  Tables,    \* contents of users to start from
  None

ASSUME TablesAssumption ==
  \A table \in Tables :
    /\ IsFiniteSet(DOMAIN table) /\ DOMAIN table \cap Requests = {}
    /\ table \in [DOMAIN table ->
                  [username : STRING, email : STRING, is_admin : BOOLEAN]]
    /\ \A u, v \in DOMAIN table :
         u # v => table[u].username # table[v].username /\ table[u].email # table[v].email
ASSUME JobsAssumption ==
  /\ \A j \in Jobs : j.kind \in {"register", "set_admin", "promote"}
  /\ \A j \in Jobs : j.kind = "register" => j.username \in STRING /\ j.email \in STRING
  /\ \A j \in Jobs : j.kind = "set_admin" => j.is_admin \in BOOLEAN

VARIABLES
  users,  \* what is committed: a function from ids to rows
  tx,     \* [Requests -> transaction]
  job     \* [Requests -> Jobs]: never changes

vars == <<users, tx, job>>

-----------------------------------------------------------------------------
Row == [username : STRING, email : STRING, is_admin : BOOLEAN]

Admins == {u \in DOMAIN users : users[u].is_admin}

(* The columns users.username and users.email are each unique. *)
Clash(a, b) == a.username = b.username \/ a.email = b.email

Taken_Unconstrained(j) == FALSE

Taken(j) == \E u \in DOMAIN users : Clash(users[u], j)

(* The rows the script or the service looks up, and the ids of the rows a  *)
(* username names: one, or none.                                           *)
Named(j) ==
  IF j.kind = "promote" THEN {u \in DOMAIN users : users[u].username = j.username}
  ELSE DOMAIN users \cap {j.user}

Asked(j) == j.kind = "promote" \/ j.is_admin

Init ==
  /\ users \in Tables
  /\ tx = [r \in Requests |->
             [pc |-> "start", target |-> None, held |-> FALSE,
              admitted |-> {}, counted |-> {}, writes |-> FALSE]]
  /\ job \in [Requests -> Jobs]

Goto(r, t) == tx' = [tx EXCEPT ![r] = t] /\ UNCHANGED <<users, job>>

End(r, outcome) == Goto(r, [tx[r] EXCEPT !.pc = outcome, !.writes = FALSE])

-----------------------------------------------------------------------------
(* Registration: the clash is looked for, then the constraints decide *)

LookForClash(r) ==
  /\ tx[r].pc = "start" /\ job[r].kind = "register"
  /\ IF \E u \in DOMAIN users : Clash(users[u], job[r]) THEN End(r, "refused")
     ELSE Goto(r, [tx[r] EXCEPT !.pc = "decided"])

(* An insert waits for an uncommitted one that took its name or its email. *)
Insert(r) ==
  /\ tx[r].pc = "decided" /\ job[r].kind = "register"
  /\ ~\E q \in Requests : tx[q].writes /\ job[q].kind = "register" /\ Clash(job[q], job[r])
  /\ IF Taken(job[r]) THEN End(r, "conflict")
     ELSE Goto(r, [tx[r] EXCEPT !.pc = "written", !.target = r, !.writes = TRUE])

-----------------------------------------------------------------------------
(* Granting and revoking admin *)

Authorize_Unchecked(r) ==
  /\ tx[r].pc = "start" /\ job[r].kind = "set_admin"
  /\ Goto(r, [tx[r] EXCEPT !.pc = "authorized", !.admitted = Admins])

(* get_current_admin; admitted is who was an admin when it looked.         *)
Authorize(r) ==
  /\ tx[r].pc = "start" /\ job[r].kind = "set_admin"
  /\ IF job[r].caller \in Admins
     THEN Goto(r, [tx[r] EXCEPT !.pc = "authorized", !.admitted = Admins])
     ELSE End(r, "refused")

IsCaller(r, u) == job[r].kind = "set_admin" /\ job[r].caller = u

(* The caller's own row is in the session already, as it was when the      *)
(* caller was found to be an admin.                                        *)
Load(r) ==
  /\ \/ tx[r].pc = "authorized"
     \/ tx[r].pc = "start" /\ job[r].kind = "promote"
  /\ IF Named(job[r]) = {} THEN End(r, "refused")
     ELSE \E u \in Named(job[r]) :
            Goto(r, [tx[r] EXCEPT
                       !.pc = IF job[r].kind = "promote" THEN "decided" ELSE "loaded",
                       !.target = u,
                       !.held = users[u].is_admin \/ IsCaller(r, u)])

MayDemote_Uncounted(admins) == TRUE

MayDemote(admins) == Cardinality(admins) > 1

(* Only the demotion of an admin counts the others. *)
Decide(r) ==
  /\ tx[r].pc = "loaded"
  /\ IF ~tx[r].held \/ Asked(job[r]) THEN Goto(r, [tx[r] EXCEPT !.pc = "decided"])
     ELSE IF MayDemote(Admins)
          THEN Goto(r, [tx[r] EXCEPT !.pc = "decided", !.counted = Admins])
          ELSE End(r, "refused")

Update_Unlocked(r) ==
  /\ tx[r].pc = "decided" /\ job[r].kind # "register"
  /\ Goto(r, [tx[r] EXCEPT !.pc = "written", !.writes = tx[r].held # Asked(job[r])])

(* A column set to the value it was loaded with is not written. *)
Update(r) ==
  /\ tx[r].pc = "decided" /\ job[r].kind # "register"
  /\ LET moves == tx[r].held # Asked(job[r]) IN
       /\ moves => ~\E q \in Requests : tx[q].writes /\ tx[q].target = tx[r].target
       /\ Goto(r, [tx[r] EXCEPT !.pc = "written", !.writes = moves])

-----------------------------------------------------------------------------
Written(table, u, j) ==
  [v \in DOMAIN table \cup {u} |->
     CASE v = u /\ j.kind = "register" ->
            [username |-> j.username, email |-> j.email, is_admin |-> FALSE]
       [] v = u /\ j.kind # "register" -> [table[u] EXCEPT !.is_admin = Asked(j)]
       [] v # u -> table[v]]

Commit(r) ==
  /\ tx[r].pc = "written"
  /\ users' = IF tx[r].writes THEN Written(users, tx[r].target, job[r]) ELSE users
  /\ tx' = [tx EXCEPT ![r] = [@ EXCEPT !.pc = "ok", !.writes = FALSE]]
  /\ UNCHANGED job

Outcomes == {"ok", "refused", "conflict", "lost"}

(* The process or its connection dies with the transaction open. *)
Lost(r) == tx[r].pc \notin Outcomes \cup {"start"} /\ End(r, "lost")

Next ==
  \E r \in Requests :
    \/ LookForClash(r) \/ Insert(r)
    \/ Authorize(r) \/ Load(r) \/ Decide(r) \/ Update(r)
    \/ Commit(r) \/ Lost(r)

Spec == Init /\ [][Next]_vars

-----------------------------------------------------------------------------
(* Properties *)

Ids == (UNION {DOMAIN table : table \in Tables}) \cup Requests

Transactions ==
  [pc : {"start", "authorized", "loaded", "decided", "written"} \cup Outcomes,
   target : Ids \cup {None}, held : BOOLEAN,
   admitted : SUBSET Ids, counted : SUBSET Ids, writes : BOOLEAN]

(* Rows keep their columns, a transaction that writes has a row to write,  *)
(* and no two write one row.                                               *)
TypeOK ==
  /\ users \in [DOMAIN users -> Row] /\ DOMAIN users \subseteq Ids
  /\ tx \in [Requests -> Transactions]
  /\ job \in [Requests -> Jobs]
  /\ \A r \in Requests :
       tx[r].writes => /\ tx[r].pc = "written"
                       /\ job[r].kind = "register" \/ tx[r].target \in DOMAIN users
  /\ \A q, r \in Requests :
       tx[q].writes /\ tx[r].writes /\ tx[q].target = tx[r].target => q = r

(* However registrations overlap, a username and an email belong to one    *)
(* account: the check that found none is not what the table relies on.     *)
NamesUnique ==
  \A u, v \in DOMAIN users : u # v => ~Clash(users[u], users[v])

(* What a request leaves of the table when all of it, get_current_admin    *)
(* and the count of the admins included, runs on that table, alone.        *)
Performed(table, r) ==
  LET j == job[r]
      admins == {u \in DOMAIN table : table[u].is_admin}
      refused == /\ j.kind = "set_admin"
                 /\ \/ j.caller \notin admins
                    \/ ~Asked(j) /\ Cardinality(admins) <= 1
  IN IF refused THEN table
     ELSE Written(table, IF j.kind = "register" THEN r ELSE tx[r].target, j)

(* The two checks of set_admin that another commit can overtake: an admin  *)
(* it counted, or the one it was admitted as, has been demoted since.      *)
CountIsStale(r) == tx[r].counted \ Admins # {}

CallerIsStale(r) ==
  job[r].kind = "set_admin" /\ job[r].caller \in tx[r].admitted \ Admins

(* Every change of the users is what its request would make of the table   *)
(* if all of it ran at the moment it commits, unless one of set_admin's    *)
(* two checks is out of date by then.                                      *)
OnlyStaleChecksMatter ==
  [][\E r \in Requests :
       /\ tx[r].writes /\ tx'[r].pc = "ok"
       /\ users' = Performed(users, r) \/ CountIsStale(r) \/ CallerIsStale(r)]_users

(* set_admin: "Refuses to demote the last remaining admin (ConflictError)  *)
(* so an admin can't lock everyone out of the admin-only routes".          *)
AnAdminRemains == [][Admins # {} => Admins' # {}]_vars

=============================================================================
