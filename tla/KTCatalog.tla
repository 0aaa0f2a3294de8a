------------------------------ MODULE KTCatalog ------------------------------
(***************************************************************************)
(* What `make seed-kt` promises: the catalog a player can browse is what   *)
(* the source printed.  A payload replaces the page of each team it names  *)
(* at one stroke, and takes the others away, unless it says of itself that *)
(* it is not complete; then it leaves them as they are.                    *)
(***************************************************************************)
EXTENDS KTPayload

CONSTANT Teams, Payloads

VARIABLES
  pages,        \* [Teams -> page]: the live rows, or none
  compositions  \* [Teams -> selection rules], kept for a team with no page

NoPage == <<>>

Init ==
  /\ pages = [t \in Teams |-> NoPage]
  /\ compositions = [t \in Teams |-> <<>>]

Publish(p) ==
  /\ pages' = [t \in Teams |->
       CASE t \in TeamsOf(p) -> Page(p, t)
         [] t \notin TeamsOf(p) /\ p.skipped -> pages[t]
         [] OTHER -> NoPage]
  /\ compositions' = [t \in Teams |-> Composed(p, t, compositions[t])]

Spec == Init /\ [][\E p \in Payloads : WellFormed(p) /\ Publish(p)]_<<pages, compositions>>
=============================================================================
