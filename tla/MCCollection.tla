---------------------------- MODULE MCCollection ----------------------------
(***************************************************************************)
(* One player, user 1, with an army, 2, and an inventory; a unit, 3, with  *)
(* one weapon, 4, linked or not; a subfaction, 5, of the one faction, 6.   *)
(* The unit may be in the army, the inventory, both or neither.  Another   *)
(* player, 7, asks for the army too.                                       *)
(***************************************************************************)
EXTENDS CollectionRequests, TLC

CONSTANTS r1, r2, r3

(* The ids of the rows there are to begin with. *)
Row(n) == <<None, n>>

User == [table |-> "users"]
TheUnit(sub) ==
  [table |-> "units", name |-> "Boyz", faction_id |-> Row(6), subfaction_id |-> sub, points |-> 2]
TheArmy(sub, limit) ==
  [table |-> "armies", owner_user_id |-> Row(1), faction_id |-> Row(6), subfaction_id |-> sub,
   points_limit |-> limit]
Link == [table |-> "unit_weapons", unit_id |-> Row(3), weapon_id |-> Row(4)]
Sub(name) == [table |-> "subfactions", faction_id |-> Row(6), name |-> name]

Fixed ==
  (Row(1) :> User @@ Row(7) :> User @@ Row(2) :> TheArmy(None, None) @@ Row(3) :> TheUnit(None)
   @@ Row(4) :> [table |-> "weapons", name |-> "Choppa"]
   @@ Row(5) :> Sub("Goffs") @@ Row(6) :> [table |-> "factions", name |-> "Orks"])

InArmy == Row(8) :> EntryRow("armies", Row(2), Row(3), 2)
InInventory == Row(9) :> EntryRow("users", Row(1), Row(3), 1)
Linked == Row(10) :> Link

MCDatabases == {Fixed, Fixed @@ InArmy @@ InInventory, Fixed @@ Linked}

Asking ==
  [kind |-> None, by |-> Row(1), table |-> None, id |-> None, unit |-> None, amount |-> None,
   row |-> <<>>, changes |-> <<>>, rows |-> <<>>]

On(kind, i) == [Asking EXCEPT !.kind = kind, !.table = Fixed[i].table, !.id = i]
Entering(kind, list, n) == [On(kind, list) EXCEPT !.unit = Row(3), !.amount = n]

SeedRows ==
  <<Sub("Snakebites"), [table |-> "weapons", name |-> "Slugga"], Link>>

(* The jobs in an order: requests are alike, so it is enough to give them  *)
(* jobs in that order.                                                     *)
Ranked ==
  <<Entering("add", Row(2), 3), Entering("add", Row(1), 3),
    Entering("set", Row(2), 2), Entering("set", Row(2), 0), Entering("remove", Row(2), None),
    [On("update", Row(2)) EXCEPT !.changes = [subfaction_id |-> Row(5), points_limit |-> 3]],
    [On("update", Row(2)) EXCEPT !.changes = [subfaction_id |-> None, points_limit |-> 4]],
    [On("update", Row(3)) EXCEPT !.changes = [points |-> 1]],
    On("delete", Row(2)), [On("delete", Row(2)) EXCEPT !.by = Row(7)],
    On("delete", Row(3)), On("delete", Row(4)), On("delete", Row(5)),
    [Asking EXCEPT !.kind = "create", !.row = Sub("Snakebites")],
    [Asking EXCEPT !.kind = "create", !.row = TheUnit(Row(5))],
    [On("link", Row(3)) EXCEPT !.row = Link], [On("unlink", Row(3)) EXCEPT !.row = Link],
    [Asking EXCEPT !.kind = "seed", !.rows = SeedRows]>>

MCJobs == {Ranked[n] : n \in DOMAIN Ranked}

MCLoads ==
  {(r1 :> Ranked[a] @@ r2 :> Ranked[b] @@ r3 :> Ranked[c]) :
     <<a, b, c>> \in {t \in (DOMAIN Ranked) \X (DOMAIN Ranked) \X (DOMAIN Ranked) :
                       t[1] <= t[2] /\ t[2] <= t[3]}}

(* Requests that link and unlink. *)
MCLinkLoads ==
  {l \in MCLoads : {l[r].kind : r \in Requests} \subseteq {"link", "unlink"}}
=============================================================================
