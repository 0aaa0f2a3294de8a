------------------------------ MODULE KTPayload ------------------------------
(***************************************************************************)
(* What one scrape of the source says: killteam.json, and the rows of the  *)
(* catalog it names.  A row is known by its natural key                    *)
(*                                                                         *)
(*   <<"faction", Nobody, name>>     <<"team", Nobody, name>>              *)
(*   <<"ploy", team, name>>          <<"operative", team, name>>           *)
(*   <<"weapon", operative, name>>   <<"ploy", Nobody, name>>              *)
(*                                                                         *)
(* where team and operative are keys themselves, and a key of Nobody's is  *)
(* of the top level, a universal one for a ploy.  A ploy stands for a      *)
(* team's rules and equipment too, and a weapon for an operative's         *)
(* abilities: each of them is a table loaded, swept and read the same way. *)
(* A row's value is all its other columns; a team's is its faction.        *)
(*                                                                         *)
(* A payload is [entries, compositions, skipped]: a sequence of [key,      *)
(* value], the selection rules of the teams that have the section, and     *)
(* whether the scraper skipped a team.  A team's faction is an entry too.  *)
(***************************************************************************)
EXTENDS Naturals, Sequences, FiniteSets

CONSTANT Nobody

Table(k) == k[1]
Owner(k) == k[2]

KeysOf(p) == {p.entries[i].key : i \in DOMAIN p.entries}

(* An entry that comes again rewrites what the first one said.             *)
Says(p, k) ==
  LET naming == {i \in DOMAIN p.entries : p.entries[i].key = k}
  IN p.entries[CHOOSE i \in naming : \A j \in naming : j <= i].value

TeamsOf(p) == {k \in KeysOf(p) : Table(k) = "team"}
UniversalsOf(p) == {k \in KeysOf(p) : Table(k) = "ploy" /\ Owner(k) = Nobody}

(* The rows of a team, each operative's profiles among them.               *)
Within(k, t) == t \in {k, Owner(k)} \/ (Owner(k) # Nobody /\ Owner(Owner(k)) = t)

Subtree(p, t) == {k \in KeysOf(p) : Within(k, t)}

(* The team's page as the source prints it.                                *)
Page(p, t) == [k \in Subtree(p, t) |-> Says(p, k)]

Composed(p, t, before) == IF t \in DOMAIN p.compositions THEN p.compositions[t] ELSE before

(* Each row has its parent among `keys`, or stands at the top.             *)
Hangs(k, keys) ==
  \/ Table(k) \in {"faction", "team"} /\ Owner(k) = Nobody
  \/ Table(k) = "ploy" /\ (Owner(k) = Nobody \/ (Owner(k) \in keys /\ Table(Owner(k)) = "team"))
  \/ Table(k) = "operative" /\ Owner(k) \in keys /\ Table(Owner(k)) = "team"
  \/ Table(k) = "weapon" /\ Owner(k) \in keys /\ Table(Owner(k)) = "operative"

(* How the file is laid out: rows lie in what they belong to, so do        *)
(* selection rules, and a faction is a name that teams give.               *)
Nested(p) ==
  /\ DOMAIN p.entries = 1..Len(p.entries) /\ Len(p.entries) \in Nat
  /\ Nobody \notin KeysOf(p)
  /\ \A k \in KeysOf(p) : Hangs(k, KeysOf(p))
  /\ \A i \in DOMAIN p.entries : Table(p.entries[i].key) = "team" =>
       p.entries[i].value \in KeysOf(p) /\ Table(p.entries[i].value) = "faction"
  /\ \A k \in KeysOf(p) : Table(k) = "faction" =>
       \E i \in DOMAIN p.entries : Table(p.entries[i].key) = "team" /\ p.entries[i].value = k
  /\ \A i, j \in DOMAIN p.entries :
       (Table(p.entries[i].key) = "faction" /\ p.entries[i].key = p.entries[j].key) =>
         p.entries[i].value = p.entries[j].value
  /\ DOMAIN p.compositions \subseteq TeamsOf(p)

WellFormed_Repeats(p) == TeamsOf(p) # {}

(* Some kill team is named, and nothing is named twice.                    *)
WellFormed(p) ==
  /\ TeamsOf(p) # {}
  /\ \A i, j \in DOMAIN p.entries :
       (i # j /\ Table(p.entries[i].key) # "faction") => p.entries[i].key # p.entries[j].key
=============================================================================
