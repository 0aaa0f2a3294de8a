------------------------------ MODULE MCKTGame ------------------------------
(***************************************************************************)
(* Small instances of KTGame, cut by their .cfg: Cards, Kit and Ploys say  *)
(* which operations an instance has.  The card strong has more wounds than *)
(* weak, so that a transform can cap an operative; gone is withdrawn and   *)
(* foreign another team's.  mutoid and spare can be taken, lost is         *)
(* withdrawn.  seize costs a command point.                                *)
(***************************************************************************)
EXTENDS KTGame

CONSTANTS strong, weak, gone, foreign, mutoid, spare, lost, seize

MCTeamCards == Cards \ {foreign}
MCWithdrawnCards == Cards \cap {gone}
MCMaxWounds == [c \in Cards |-> IF c = strong THEN 2 ELSE 1]
MCFrail == <<[card |-> gone, position |-> 1]>>
MCRoster == <<[card |-> strong, position |-> 1]>>

MCCost == [p \in Ploys |-> 1]
MCTeamKit == Kit
MCWithdrawnKit == Kit \cap {lost}
=============================================================================
