----------------------------- MODULE MCKTRoster -----------------------------
(***************************************************************************)
(* One player's two rosters, Anvil (1) and Blade (2); Anvil has operatives *)
(* on it, the first of two removed: row 11 is in the second place.  Games  *)
(* may have been played from Blade.  Another player's Crux (3) has a name  *)
(* the first may take.                                                     *)
(***************************************************************************)
EXTENDS KTRoster, TLC

CONSTANTS me, you, scout, foreign, r1, r2, r3

MCRank == (11 :> 0 @@ r1 :> 1 @@ r2 :> 2 @@ r3 :> 3)

Rosters ==
  (1 :> [owner |-> me, name |-> "Anvil", note |-> "old"]
   @@ 2 :> [owner |-> me, name |-> "Blade", note |-> "old"]
   @@ 3 :> [owner |-> you, name |-> "Crux", note |-> "old"])

MCDatabases ==
  {[rosters |-> Rosters, rows |-> rows, games |-> games] :
     rows \in {11 :> [roster |-> 1, card |-> scout, position |-> 1]},
     games \in {<<>>, 20 :> [roster |-> 2, fielded |-> {}]}}

Asks ==
  [kind |-> None, owner |-> me, roster |-> None, name |-> None, note |-> None,
   card |-> None, row |-> None, position |-> None]

On(kind, x) == [Asks EXCEPT !.kind = kind, !.roster = x]

MCJobs ==
  {[Asks EXCEPT !.kind = "create", !.name = n, !.note = "old"] : n \in {"Crux", "Dirk"}}
  \cup {[On("update", x) EXCEPT !.name = "Dirk"] : x \in {1, 2}}
  \cup {[On("update", x) EXCEPT !.note = "new"] : x \in {1, 3}}
  \cup {On("delete", x) : x \in {1, 2, r1}}
  \cup {[On("add", 1) EXCEPT !.card = c] : c \in {scout, foreign}}
  \cup {[On("move", 1) EXCEPT !.row = 11, !.position = p] : p \in {-1, 0, 1}}
  \cup {[On("remove", 1) EXCEPT !.row = 11], On("play", 1)}
=============================================================================
