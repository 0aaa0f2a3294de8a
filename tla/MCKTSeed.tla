------------------------------ MODULE MCKTSeed ------------------------------
(***************************************************************************)
(* Two teams and their factions, and the payloads of a source that changes *)
(* its mind: a first edition, a rebalanced one in which a team has changed *)
(* faction and lost a ploy, a universal ploy and a weapon for others, one  *)
(* that has dropped a team and an operative, one that could not read a     *)
(* team, and one that names an operative twice.                            *)
(***************************************************************************)
EXTENDS KTSeed

Faction(n) == <<"faction", Nobody, n>>
Team(n) == <<"team", Nobody, n>>
Ploy(t, n) == <<"ploy", t, n>>
Operative(t, n) == <<"operative", t, n>>
Weapon(o, n) == <<"weapon", o, n>>

Raveners == Team("Raveners")
Pathfinders == Team("Pathfinders")
Prime == Operative(Raveners, "Prime")
Wrecker == Operative(Raveners, "Wrecker")
Shasui == Operative(Pathfinders, "Shasui")

MCTeams == {Raveners, Pathfinders}
MCRostered == {Prime, Wrecker}

Is(k, v) == [key |-> k, value |-> v]
Of(t, f) == <<Is(Faction(f), 0), Is(t, Faction(f))>>
Armed1(o, v, w) == <<Is(o, v), Is(Weapon(o, w), v)>>

PathfindersOf(f) == Of(Pathfinders, f) \o Armed1(Shasui, 0, "rifle")

Payload(list, composed, skipped) ==
  [entries |-> list, compositions |-> composed, skipped |-> skipped]

Rules(c) == [t \in {Raveners} |-> c]
NoSection == [t \in {} |-> <<>>]

First ==
  Payload(Of(Raveners, "Tyranids") \o Armed1(Prime, 0, "claws") \o Armed1(Wrecker, 0, "claws")
          \o <<Is(Ploy(Raveners, "Burrow"), 0)>> \o PathfindersOf("Tau")
          \o <<Is(Ploy(Nobody, "Reroll"), 0)>>,
          Rules(<<"a", "b">>), FALSE)

Rebalanced ==
  Payload(Of(Raveners, "Tyranids") \o Armed1(Prime, 1, "talons") \o Armed1(Wrecker, 1, "claws")
          \o <<Is(Ploy(Raveners, "Tunnel"), 0)>> \o PathfindersOf("Tyranids")
          \o <<Is(Ploy(Nobody, "Guard"), 0)>>,
          Rules(<<"b">>), FALSE)

Dropped ==
  Payload(Of(Raveners, "Tau") \o Armed1(Prime, 1, "claws") \o <<Is(Ploy(Raveners, "Burrow"), 1)>>,
          Rules(<<>>), FALSE)

Partial == Payload(PathfindersOf("Tau"), NoSection, TRUE)

PartialOther ==
  Payload(Of(Raveners, "Tyranids") \o Armed1(Prime, 0, "claws"), NoSection, TRUE)

Twice ==
  Payload(Of(Raveners, "Tyranids") \o Armed1(Prime, 0, "claws") \o <<Is(Prime, 1)>>,
          NoSection, FALSE)

MCPayloads == {First, Rebalanced, Dropped, Partial, PartialOther, Twice}
=============================================================================
