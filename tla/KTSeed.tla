------------------------------- MODULE KTSeed -------------------------------
(***************************************************************************)
(* The Kill Team catalog: the seed that loads payload after payload into   *)
(* its tables, in one transaction each, and the requests that read it      *)
(* meanwhile with several SELECTs under READ COMMITTED: a team's page, and *)
(* the datacards a battle copies from a roster.                            *)
(***************************************************************************)
EXTENDS KTPayload

CONSTANTS
  Teams,      \* keys of the teams any payload names
  Payloads,
  Rostered,   \* keys of operatives: one roster's, of the team RosterTeam
  RosterTeam,
  None,
  MaxSeeds    \* bound: the seeds that are run

VARIABLES
  rows,          \* committed: a function from keys to [value, withdrawn]
  compositions,  \* committed: [Teams -> selection rules]
  seed,          \* the seed's transaction, with its own view of both
  loaded,        \* the payloads committed so far, in order
  page,          \* a read of a team's page
  battle,        \* the creation of a battle from the roster
  past           \* [page, battle -> catalogs committed while it reads]

vars == <<rows, compositions, seed, loaded, page, battle, past>>

ASSUME PayloadsAssumption == \A p \in Payloads : Nested(p) /\ TeamsOf(p) \subseteq Teams

ASSUME TeamsAssumption ==
  IsFiniteSet(Teams) /\ Nobody \notin Teams /\ \A t \in Teams : Table(t) = "team"

ASSUME RosterAssumption == \A k \in Rostered : Table(k) = "operative"

-----------------------------------------------------------------------------
(* Loading a team *)

Row(value) == [value |-> value, withdrawn |-> FALSE]

Flagged(row) == [row EXCEPT !.withdrawn = TRUE]

(* A row named is created, or rewritten and brought back.                  *)
Upsert_LeavesFlag(tables, p, keys) ==
  [k \in DOMAIN tables \cup keys |->
     IF k \notin keys THEN tables[k]
     ELSE IF k \in DOMAIN tables THEN [tables[k] EXCEPT !.value = Says(p, k)]
     ELSE Row(Says(p, k))]

Upsert(tables, p, keys) ==
  [k \in DOMAIN tables \cup keys |-> IF k \in keys THEN Row(Says(p, k)) ELSE tables[k]]

(* Of the rows among `candidates`, those not named are flagged.            *)
WithdrawMissing(tables, p, candidates) ==
  [k \in DOMAIN tables |->
     IF k \in candidates \ KeysOf(p) THEN Flagged(tables[k]) ELSE tables[k]]

ChildrenOf(tables, parents) == {k \in DOMAIN tables : Owner(k) \in parents}

Swept_WithProfiles(tables, p, t) ==
  {k \in DOMAIN tables : Within(k, t) /\ k # t}

(* Each parent the payload names is swept of the children it does not      *)
(* name: the team, and each of its operatives.                             *)
Swept(tables, p, t) ==
  ChildrenOf(tables, {t} \cup {k \in Subtree(p, t) : Table(k) = "operative"})

OperativeKeys(p, t) == {k \in Subtree(p, t) : Table(k) \in {"operative", "weapon"}}

TeamKeys_NoFaction(p, t) == Subtree(p, t) \ OperativeKeys(p, t)

(* The faction comes first, then the team and what hangs off it.           *)
TeamKeys(p, t) == {Says(p, t)} \cup (Subtree(p, t) \ OperativeKeys(p, t))

SeedKillTeam(tables, p, t) ==
  LET upserted == Upsert(Upsert(tables, p, TeamKeys(p, t)), p, OperativeKeys(p, t))
  IN WithdrawMissing(upserted, p, Swept(upserted, p, t))

(* A composition is replaced as a whole; a missing section leaves it.      *)
SeedRules(comps, p, t) ==
  [comps EXCEPT ![t] = Composed(p, t, @)]

(* What the run reports, at its end: the rows created, those that changed  *)
(* or came back, those newly flagged, and the compositions rewritten.      *)
NoCounts == [created |-> 0, updated |-> 0, withdrawn |-> 0, compositions |-> 0]

Counted_ValuesOnly(counts, before, after, comps, newComps, named) ==
  LET changed == {k \in DOMAIN before : before[k].value # after[k].value}
      flagged == {k \in DOMAIN before \ named : before[k] # after[k]}
  IN [created |-> counts.created + Cardinality(DOMAIN after \ DOMAIN before),
      updated |-> counts.updated + Cardinality(changed \cap named),
      withdrawn |-> counts.withdrawn + Cardinality(flagged),
      compositions |-> counts.compositions
                       + Cardinality({t \in Teams : comps[t] # newComps[t]})]

Counted(counts, before, after, comps, newComps, named) ==
  LET changed == {k \in DOMAIN before : before[k] # after[k]}
  IN [created |-> counts.created + Cardinality(DOMAIN after \ DOMAIN before),
      updated |-> counts.updated + Cardinality(changed \cap named),
      withdrawn |-> counts.withdrawn + Cardinality(changed \ named),
      compositions |-> counts.compositions
                       + Cardinality({t \in Teams : comps[t] # newComps[t]})]

-----------------------------------------------------------------------------
(* The seed's transaction.  Nobody sees its rows before it commits, and    *)
(* nobody else writes the catalog.                                         *)

Idle == [pc |-> "idle", payload |-> None, todo |-> {}, rows |-> <<>>,
         compositions |-> <<>>, counts |-> NoCounts]

Catalog == [rows |-> rows, compositions |-> compositions]

Init ==
  /\ rows = <<>>
  /\ compositions = [t \in Teams |-> <<>>]
  /\ seed = Idle
  /\ loaded = <<>>
  /\ page = [pc |-> "start", team |-> None, seen |-> <<>>, rules |-> None]
  /\ battle = [pc |-> "start", cards |-> <<>>, ploys |-> <<>>]
  /\ past = [page |-> {}, battle |-> {}]

Start ==
  /\ seed.pc = "idle" /\ Len(loaded) < MaxSeeds
  /\ \E p \in Payloads :
       /\ WellFormed(p)
       /\ seed' = [pc |-> "teams", payload |-> p, todo |-> TeamsOf(p), rows |-> rows,
                   compositions |-> compositions, counts |-> NoCounts]
  /\ UNCHANGED <<rows, compositions, loaded, page, battle, past>>

Wrote(tables, comps, named, pc, todo) ==
  /\ seed' = [seed EXCEPT
       !.pc = pc, !.todo = todo, !.rows = tables, !.compositions = comps,
       !.counts = Counted(@, seed.rows, tables, seed.compositions, comps, named)]
  /\ UNCHANGED <<rows, compositions, loaded, page, battle, past>>

(* The teams of a payload do not overlap but in their faction, so that     *)
(* their order, the payload's, makes no difference.                        *)
SeedTeam ==
  /\ seed.pc = "teams" /\ seed.todo # {}
  /\ \E t \in {CHOOSE x \in seed.todo : TRUE} :
       LET p == seed.payload IN
       Wrote(SeedKillTeam(seed.rows, p, t), SeedRules(seed.compositions, p, t),
             KeysOf(p), "teams", seed.todo \ {t})

(* The universal rows have no parent, and no sweep.                        *)
SeedUniversals ==
  /\ seed.pc = "teams" /\ seed.todo = {}
  /\ Wrote(Upsert(seed.rows, seed.payload, UniversalsOf(seed.payload)),
           seed.compositions, KeysOf(seed.payload), "sweep", {})

(* The top level is swept when the payload is a complete picture.          *)
TopLevel_Factions(tables, p) ==
  {k \in DOMAIN tables : Table(k) = "faction" \/ (Table(k) = "team" /\ ~p.skipped)}

TopLevel(tables, p) ==
  {k \in DOMAIN tables : Table(k) \in {"faction", "team"} /\ ~p.skipped}

SweepTop ==
  /\ seed.pc = "sweep"
  /\ LET swept == WithdrawMissing(seed.rows, seed.payload, TopLevel(seed.rows, seed.payload))
     IN Wrote(swept, seed.compositions, KeysOf(seed.payload), "commit", {})

Commit ==
  /\ seed.pc = "commit"
  /\ rows' = seed.rows
  /\ compositions' = seed.compositions
  /\ loaded' = Append(loaded, seed.payload)
  /\ past' = [who \in DOMAIN past |->
       past[who] \cup IF past[who] = {} THEN {}
                      ELSE {[rows |-> seed.rows, compositions |-> seed.compositions]}]
  /\ seed' = Idle
  /\ UNCHANGED <<page, battle>>

(* A row that breaks a constraint, a malformed record, a lost connection:  *)
(* the transaction is rolled back.                                         *)
Fail ==
  /\ seed.pc # "idle"
  /\ seed' = Idle
  /\ UNCHANGED <<rows, compositions, loaded, page, battle, past>>

-----------------------------------------------------------------------------
(* Catalog reads: what they filter *)

Live(tables, k) == k \in DOMAIN tables /\ ~tables[k].withdrawn

(* list_kill_teams; a team of a withdrawn faction is hidden with it.       *)
Listed(tables, t) == Live(tables, t) /\ Live(tables, tables[t].value)

(* get_kill_team and list_selection_rules, by the team's id.               *)
LiveTeam(tables, t) == Live(tables, t)

(* list_operatives, of a team or of all.                                   *)
ListedOperatives(tables) ==
  {k \in DOMAIN tables : Table(k) = "operative" /\ Live(tables, k) /\ Live(tables, Owner(k))}

(* The collections of a team, and the profiles of its operatives.          *)
LiveChildren(tables, t, table) ==
  {k \in ChildrenOf(tables, {t}) : Table(k) = table /\ Live(tables, k)}

LiveProfiles_All(tables, operatives) == ChildrenOf(tables, operatives)

LiveProfiles(tables, operatives) ==
  {k \in ChildrenOf(tables, operatives) : Live(tables, k)}

Values(tables, keys) == [k \in keys |-> tables[k].value]

Union(f, g) == [x \in DOMAIN f \cup DOMAIN g |-> IF x \in DOMAIN f THEN f[x] ELSE g[x]]

-----------------------------------------------------------------------------
(* GET /teams/{id}: one SELECT a step, in the order of get_kill_team *)

Reads(step, found) ==
  /\ page' = [page EXCEPT !.pc = step, !.seen = Union(@, Values(rows, found))]
  /\ UNCHANGED <<rows, compositions, seed, loaded, battle, past>>

ReadTeam(t) ==
  /\ page.pc = "start" /\ LiveTeam(rows, t)
  /\ page' = [page EXCEPT !.pc = "operatives", !.team = t, !.seen = Values(rows, {t})]
  /\ past' = [past EXCEPT !.page = {Catalog}]
  /\ UNCHANGED <<rows, compositions, seed, loaded, battle>>

ReadOperatives ==
  /\ page.pc = "operatives"
  /\ Reads("profiles", LiveChildren(rows, page.team, "operative"))

ReadProfiles ==
  /\ page.pc = "profiles"
  /\ Reads("ploys", LiveProfiles(rows, {k \in DOMAIN page.seen : Table(k) = "operative"}))

ReadPloys ==
  /\ page.pc = "ploys"
  /\ Reads("rules", LiveChildren(rows, page.team, "ploy"))

ReadRules ==
  /\ page.pc = "rules"
  /\ page' = [page EXCEPT !.pc = "served", !.rules = compositions[page.team]]
  /\ UNCHANGED <<rows, compositions, seed, loaded, battle, past>>

-----------------------------------------------------------------------------
(* POST /games: what create_game copies, withdrawn or not *)

Copies(step, cards, ploys) ==
  /\ battle' = [pc |-> step, cards |-> Union(battle.cards, Values(rows, cards)),
                ploys |-> Union(battle.ploys, Values(rows, ploys))]
  /\ UNCHANGED <<rows, compositions, seed, loaded, page>>

RosterCards_Live == {k \in Rostered : Live(rows, k)}

RosterCards == Rostered

(* There is a roster once its operatives are in the catalog.               *)
CopyTeamPloys ==
  /\ battle.pc = "start" /\ Rostered \subseteq DOMAIN rows
  /\ Copies("cards", {}, {k \in ChildrenOf(rows, {RosterTeam}) : Table(k) = "ploy"})
  /\ past' = [past EXCEPT !.battle = {Catalog}]

CopyCards ==
  /\ battle.pc = "cards"
  /\ Copies("profiles", RosterCards, {})
  /\ UNCHANGED past

CopyProfiles ==
  /\ battle.pc = "profiles"
  /\ Copies("universals", ChildrenOf(rows, DOMAIN battle.cards), {})
  /\ UNCHANGED past

CopyUniversals ==
  /\ battle.pc = "universals"
  /\ Copies("created", {}, {k \in DOMAIN rows : Table(k) = "ploy" /\ Owner(k) = Nobody})
  /\ UNCHANGED past

-----------------------------------------------------------------------------
Seeding == Start \/ SeedTeam \/ SeedUniversals \/ SweepTop \/ Commit \/ Fail

Reading ==
  \/ \E t \in Teams : ReadTeam(t)
  \/ ReadOperatives \/ ReadProfiles \/ ReadPloys \/ ReadRules
  \/ CopyTeamPloys \/ CopyCards \/ CopyProfiles \/ CopyUniversals

Next == Seeding \/ Reading

Spec == Init /\ [][Next]_vars

-----------------------------------------------------------------------------
(* Properties *)

(* Every row has its parent; a team's faction is a row; whoever reads has  *)
(* a catalog it began with.                                                *)
TypeOK ==
  /\ \A k \in DOMAIN rows :
       /\ Owner(k) \in DOMAIN rows \cup {Nobody}
       /\ rows[k].withdrawn \in BOOLEAN
       /\ Table(k) = "team" => rows[k].value \in DOMAIN rows
  /\ page.pc # "start" => past.page # {}
  /\ battle.pc # "start" => past.battle # {}

Served(tables, t) ==
  {k \in DOMAIN tables : Within(k, t) /\ Live(tables, k) /\ Live(tables, t)
                         /\ (Table(k) = "weapon" => Live(tables, Owner(k)))}

(* The tables implement the promise of KTCatalog: a run of the seed, step  *)
(* by step, failed or not, over whatever earlier runs left, publishes the  *)
(* payload's pages exactly (seed's docstring, decision #55).               *)
Promise == INSTANCE KTCatalog WITH
  pages <- [t \in Teams |-> Values(rows, Served(rows, t))]

CatalogIsWhatWasPublished == Promise!Spec

(* The rows a team is listed by and the row it is fetched by agree: a live *)
(* team has a live faction, or a team that cannot be browsed would still   *)
(* be served by its id, and its operatives listed (_narrow_kill_teams,     *)
(* _narrow_operatives).                                                    *)
ListedIffServed ==
  /\ \A t \in Teams : Listed(rows, t) <=> LiveTeam(rows, t)
  /\ \A k \in ListedOperatives(rows) : Listed(rows, Owner(k))

(* "nothing new -- the database already matches the payload" is printed of *)
(* a run that changed nothing, and of no other; and a second run of the    *)
(* payload loaded last is such a run.                                      *)
ReportIsTruthful ==
  seed.pc = "commit" =>
    /\ seed.counts = NoCounts <=> seed.rows = rows /\ seed.compositions = compositions
    /\ (loaded # <<>> /\ seed.payload = loaded[Len(loaded)]) => seed.counts = NoCounts

(* Every entry of the payload loaded last is a live row with what the      *)
(* entry says: none was rewritten by another ("the last entry silently     *)
(* wins", _check_no_duplicates).                                           *)
EveryEntryLands ==
  loaded # <<>> =>
    LET last == loaded[Len(loaded)]
    IN \A i \in DOMAIN last.entries : rows[last.entries[i].key] = Row(last.entries[i].value)

(* A page read while seeds commit holds nothing that no catalog of that    *)
(* time served, and misses nothing they all served.                        *)
PageIsOfItsTime ==
  page.pc = "served" =>
    /\ \A k \in DOMAIN page.seen : \E c \in past.page :
         k \in Served(c.rows, page.team) /\ c.rows[k].value = page.seen[k]
    /\ \A k \in UNION {Served(c.rows, page.team) : c \in past.page} :
         (\A c \in past.page : k \in Served(c.rows, page.team)) => k \in DOMAIN page.seen
    /\ \E c \in past.page : c.compositions[page.team] = page.rules

ProfileOf(k, keys) == {w \in keys : Table(w) = "weapon" /\ Owner(w) = k}

(* Operatives the source has never printed without a profile. *)
Profiled == {k \in UNION {KeysOf(p) : p \in Payloads} :
               Table(k) = "operative"
               /\ \A p \in Payloads : k \in KeysOf(p) => ProfileOf(k, KeysOf(p)) # {}}

Armed(cards) ==
  \A k \in DOMAIN cards \cap Profiled : ProfileOf(k, DOMAIN cards) # {}

(* No datacard is served without its profiles, whichever catalog they are  *)
(* read from: the sweep leaves those of an operative it flags.             *)
CardsComeWhole == page.pc \in {"ploys", "rules", "served"} => Armed(page.seen)

(* A battle fields every operative of its roster, with profiles, whatever  *)
(* the source has withdrawn and whenever ("a datacard built last month     *)
(* still renders").                                                        *)
BattleFieldsTheRoster ==
  battle.pc = "created" =>
    /\ Rostered \subseteq DOMAIN battle.cards
    /\ Armed(battle.cards)
=============================================================================
