----------------------------- MODULE KTSeedProofs -----------------------------
(***************************************************************************)
(* A run of the seed, however many teams its payload names and whatever    *)
(* earlier runs left, writes each row at most once: those named to what    *)
(* they say, those swept to withdrawn.  So its tables are at every step a  *)
(* function of those it began with, and what a whole run makes of a good   *)
(* catalog is a good catalog again.                                        *)
(***************************************************************************)
EXTENDS KTSeed, FiniteSetTheorems, WellFoundedInduction, TLAPS

-----------------------------------------------------------------------------
(* Payloads *)

(* Some number of a bounded set is the highest. *)
LEMMA HighestIsThere ==
  ASSUME NEW n \in Nat, NEW S \in SUBSET (1..n), S # {}
  PROVE  \E i \in S : \A j \in S : j <= i
<1> DEFINE Below == {n - i : i \in S}
<1>1. Below \subseteq Nat /\ Below # {}
  <2>1. \A i \in S : n - i \in Nat
    OBVIOUS
  <2>2. PICK i \in S : TRUE
    OBVIOUS
  <2>3. n - i \in Below
    OBVIOUS
  <2> QED BY <2>1, <2>3
<1>2. PICK m \in Below : \A y \in Below : ~(<<y, m>> \in OpToRel(<, Nat))
  BY <1>1, NatLessThanWellFounded, WFMin
<1>3. PICK i \in S : m = n - i
  OBVIOUS
<1>4. ASSUME NEW j \in S PROVE j <= i
  <2>1. n - j \in Below
    OBVIOUS
  <2>2. ~(n - j < m)
    BY <1>1, <1>2, <2>1 DEF OpToRel
  <2> QED BY <1>3, <2>2
<1> QED BY <1>4

(* What a payload says of a key is what any entry with that key says: only *)
(* a faction comes twice, and it is but a name.                            *)
LEMMA SaysTheEntry ==
  ASSUME NEW p, Nested(p), WellFormed(p), NEW i \in DOMAIN p.entries
  PROVE  Says(p, p.entries[i].key) = p.entries[i].value
<1> DEFINE k == p.entries[i].key
           naming == {j \in DOMAIN p.entries : p.entries[j].key = k}
<1>1. /\ naming \in SUBSET (1..Len(p.entries)) /\ naming # {} /\ Len(p.entries) \in Nat
  BY DEF Nested
<1>2. \E m \in naming : \A j \in naming : j <= m
  <2> HIDE DEF naming
  <2> QED BY <1>1, HighestIsThere
<1>3. PICK m : m = CHOOSE h \in naming : \A j \in naming : j <= h
  OBVIOUS
<1>4. m \in naming
  <2> HIDE DEF naming
  <2> QED BY <1>2, <1>3
<1>5. Says(p, k) = p.entries[m].value
  BY <1>3 DEF Says
<1>6. p.entries[m].value = p.entries[i].value
  BY <1>4 DEF Nested, WellFormed
<1> QED BY <1>5, <1>6

LEMMA TeamsNameFactions ==
  ASSUME NEW p, Nested(p), WellFormed(p)
  PROVE  /\ \A t \in TeamsOf(p) : Says(p, t) \in KeysOf(p) /\ Table(Says(p, t)) = "faction"
         /\ \A k \in KeysOf(p) : Table(k) = "faction" => \E t \in TeamsOf(p) : Says(p, t) = k
<1>1. ASSUME NEW t \in TeamsOf(p)
      PROVE  Says(p, t) \in KeysOf(p) /\ Table(Says(p, t)) = "faction"
  <2>1. PICK i \in DOMAIN p.entries : p.entries[i].key = t /\ Table(t) = "team"
    BY DEF TeamsOf, KeysOf
  <2> QED BY <2>1, SaysTheEntry DEF Nested
<1>2. ASSUME NEW k \in KeysOf(p), Table(k) = "faction"
      PROVE  \E t \in TeamsOf(p) : Says(p, t) = k
  <2>1. PICK i \in DOMAIN p.entries : Table(p.entries[i].key) = "team" /\ p.entries[i].value = k
    BY <1>2 DEF Nested
  <2>2. p.entries[i].key \in TeamsOf(p)
    BY <2>1 DEF TeamsOf, KeysOf
  <2> QED BY <2>1, <2>2, SaysTheEntry
<1> QED BY <1>1, <1>2

LEMMA KeysAreFinite ==
  ASSUME NEW p, Nested(p)
  PROVE  IsFiniteSet(KeysOf(p))
<1> DEFINE n == Len(p.entries)
           f == [i \in 1..n |-> p.entries[i].key]
<1>1. n \in Nat /\ KeysOf(p) = {p.entries[i].key : i \in 1..n}
  BY DEF Nested, KeysOf
<1>2. IsFiniteSet(1..n)
  BY <1>1, FS_Interval
<1>3. f \in Surjection(1..n, KeysOf(p))
  BY <1>1 DEF Surjection
<1> QED
  <2> HIDE DEF f
  <2> QED BY <1>2, <1>3, FS_Surjection

-----------------------------------------------------------------------------
(* Rows *)

IsRow(row) == row \in [value : {row.value}, withdrawn : BOOLEAN]

LEMMA RowFacts ==
  ASSUME NEW v
  PROVE  IsRow(Row(v)) /\ Row(v).value = v /\ Row(v).withdrawn = FALSE
BY DEF IsRow, Row

LEMMA FlagFacts ==
  ASSUME NEW row, IsRow(row)
  PROVE  /\ IsRow(Flagged(row)) /\ Flagged(row).value = row.value
         /\ Flagged(row).withdrawn = TRUE /\ Flagged(Flagged(row)) = Flagged(row)
<1>1. PICK v : row \in [value : {v}, withdrawn : BOOLEAN]
  BY DEF IsRow
<1> QED BY <1>1 DEF IsRow, Flagged

(* The tables with the rows in `named` as the payload says, and others     *)
(* flagged.                                                                *)
Brought(tables, p, named, flagged) ==
  [k \in DOMAIN tables \cup named |->
     IF k \in named THEN Row(Says(p, k))
     ELSE IF k \in flagged THEN Flagged(tables[k])
     ELSE tables[k]]

LEMMA UpsertBrings ==
  ASSUME NEW tables, NEW p, NEW named, NEW flagged, NEW keys
  PROVE  Upsert(Brought(tables, p, named, flagged), p, keys)
           = Brought(tables, p, named \cup keys, flagged)
BY DEF Upsert, Brought

LEMMA SweepBrings ==
  ASSUME NEW tables, NEW p, NEW named \in SUBSET KeysOf(p), NEW flagged, NEW candidates,
         \A k \in DOMAIN tables : IsRow(tables[k])
  PROVE  WithdrawMissing(Brought(tables, p, named, flagged), p, candidates)
           = Brought(tables, p, named, flagged \cup (candidates \ KeysOf(p)))
<1> DEFINE before == Brought(tables, p, named, flagged)
           after == Brought(tables, p, named, flagged \cup (candidates \ KeysOf(p)))
<1>1. DOMAIN before = DOMAIN tables \cup named /\ DOMAIN after = DOMAIN tables \cup named
  BY DEF Brought
<1>2. ASSUME NEW k \in DOMAIN tables \cup named
      PROVE  (IF k \in candidates \ KeysOf(p) THEN Flagged(before[k]) ELSE before[k]) = after[k]
  <2>1. CASE k \in named
    BY <2>1 DEF Brought
  <2>2. CASE k \notin named
    BY <2>2, FlagFacts DEF Brought
  <2> QED BY <2>1, <2>2
<1> HIDE DEF before, after
<1>3. after = [k \in DOMAIN tables \cup named |-> after[k]]
  BY DEF after, Brought
<1> QED BY <1>1, <1>2, <1>3 DEF WithdrawMissing, before, after

-----------------------------------------------------------------------------
(* What the steps of a run make of the tables it began with *)

(* What is swept of its children once `teams` are loaded.                  *)
Parents(p, teams) ==
  teams \cup {k \in KeysOf(p) : Table(k) = "operative" /\ Owner(k) \in teams}

Named(p, teams) ==
  {Says(p, t) : t \in teams} \cup {k \in KeysOf(p) : \E t \in teams : Within(k, t)}

Gone(tables, p, teams) ==
  {k \in DOMAIN tables \ KeysOf(p) : Owner(k) \in Parents(p, teams)}

Partly(tables, p, teams) == Brought(tables, p, Named(p, teams), Gone(tables, p, teams))

Whole(tables, p) == Brought(tables, p, KeysOf(p), Gone(tables, p, TeamsOf(p)))

AllGone(tables, p) == Gone(tables, p, TeamsOf(p)) \cup (TopLevel(tables, p) \ KeysOf(p))

Seeded(tables, p) == Brought(tables, p, KeysOf(p), AllGone(tables, p))

ComposedFor(comps, p, teams) ==
  [t \in Teams |-> IF t \in teams THEN Composed(p, t, comps[t]) ELSE comps[t]]

Sound(p) == p \in Payloads /\ Nested(p) /\ WellFormed(p) /\ TeamsOf(p) \subseteq Teams

LEMMA NamedKeys ==
  ASSUME NEW p, Sound(p), NEW teams \in SUBSET TeamsOf(p)
  PROVE  Named(p, teams) \subseteq KeysOf(p)
BY TeamsNameFactions DEF Named, Sound

LEMMA TeamBrings ==
  ASSUME NEW tables, NEW p, Sound(p), NEW teams \in SUBSET TeamsOf(p), NEW t \in TeamsOf(p),
         \A k \in DOMAIN tables : IsRow(tables[k])
  PROVE  SeedKillTeam(Partly(tables, p, teams), p, t) = Partly(tables, p, teams \cup {t})
<1> DEFINE before == Brought(tables, p, Named(p, teams), Gone(tables, p, teams))
           named == Named(p, teams \cup {t})
           upserted == Brought(tables, p, named, Gone(tables, p, teams))
<1>1. Named(p, teams) \cup TeamKeys(p, t) \cup OperativeKeys(p, t) = named
  <2>1. TeamKeys(p, t) \cup OperativeKeys(p, t) = {Says(p, t)} \cup Subtree(p, t)
    BY DEF TeamKeys, OperativeKeys
  <2> QED BY <2>1 DEF Named, Subtree
<1>2. Upsert(Upsert(before, p, TeamKeys(p, t)), p, OperativeKeys(p, t)) = upserted
  <2>1. Upsert(before, p, TeamKeys(p, t))
          = Brought(tables, p, Named(p, teams) \cup TeamKeys(p, t), Gone(tables, p, teams))
    BY UpsertBrings
  <2> HIDE DEF before
  <2> QED BY <1>1, <2>1, UpsertBrings
<1>3. named \in SUBSET KeysOf(p)
  BY NamedKeys
<1>4. Gone(tables, p, teams) \cup (Swept(upserted, p, t) \ KeysOf(p))
        = Gone(tables, p, teams \cup {t})
  <2>1. DOMAIN upserted \ KeysOf(p) = DOMAIN tables \ KeysOf(p)
    BY <1>3 DEF Brought
  <2>2. \A k : (k \in KeysOf(p) /\ Table(k) = "operative") => (Within(k, t) <=> Owner(k) = t)
    <3> SUFFICES ASSUME NEW k \in KeysOf(p), Table(k) = "operative"
                 PROVE  Within(k, t) <=> Owner(k) = t
      OBVIOUS
    <3>1. Owner(k) \in KeysOf(p) /\ Table(Owner(k)) = "team" /\ k # t /\ t # Nobody
      BY DEF Sound, Nested, Hangs, TeamsOf
    <3>2. Owner(Owner(k)) = Nobody
      BY <3>1 DEF Sound, Nested, Hangs
    <3> QED BY <3>1, <3>2 DEF Within
  <2>3. Parents(p, teams \cup {t})
          = Parents(p, teams) \cup {t} \cup {k \in Subtree(p, t) : Table(k) = "operative"}
    BY <2>2 DEF Parents, Subtree
  <2>4. Swept(upserted, p, t) \ KeysOf(p)
          = {k \in DOMAIN tables \ KeysOf(p) :
               Owner(k) \in {t} \cup {x \in Subtree(p, t) : Table(x) = "operative"}}
    BY <2>1 DEF Swept, ChildrenOf
  <2> QED BY <2>3, <2>4 DEF Gone
<1>5. WithdrawMissing(upserted, p, Swept(upserted, p, t)) = Partly(tables, p, teams \cup {t})
  <2> HIDE DEF named
  <2>1. PICK candidates : candidates = Swept(upserted, p, t)
    OBVIOUS
  <2> QED BY <1>3, <1>4, <2>1, SweepBrings DEF Partly, named
<1> QED BY <1>2, <1>5 DEF SeedKillTeam, Partly

LEMMA UniversalsBring ==
  ASSUME NEW tables, NEW p, Sound(p)
  PROVE  Upsert(Partly(tables, p, TeamsOf(p)), p, UniversalsOf(p)) = Whole(tables, p)
<1>1. Named(p, TeamsOf(p)) \cup UniversalsOf(p) = KeysOf(p)
  <2>1. Named(p, TeamsOf(p)) \subseteq KeysOf(p) /\ UniversalsOf(p) \subseteq KeysOf(p)
    BY NamedKeys DEF UniversalsOf
  <2>2. ASSUME NEW k \in KeysOf(p), k \notin UniversalsOf(p)
        PROVE  k \in Named(p, TeamsOf(p))
    <3>1. Hangs(k, KeysOf(p)) /\ Nobody \notin KeysOf(p)
      BY DEF Sound, Nested
    <3>2. CASE Table(k) = "faction"
      BY <3>2, TeamsNameFactions DEF Named, Sound
    <3>3. CASE Table(k) = "team"
      BY <3>3 DEF Named, Within, TeamsOf
    <3>4. CASE Table(k) \in {"ploy", "operative"}
      <4>1. Owner(k) \in TeamsOf(p)
        BY <2>2, <3>1, <3>4 DEF Hangs, TeamsOf, UniversalsOf
      <4> QED BY <4>1 DEF Named, Within
    <3>5. CASE Table(k) = "weapon"
      <4>1. Owner(k) \in KeysOf(p) /\ Table(Owner(k)) = "operative"
        BY <3>1, <3>5 DEF Hangs
      <4>2. Owner(Owner(k)) \in TeamsOf(p)
        BY <4>1 DEF Sound, Nested, Hangs, TeamsOf
      <4> QED BY <3>1, <4>1, <4>2 DEF Named, Within
    <3> QED BY <3>1, <3>2, <3>3, <3>4, <3>5 DEF Hangs
  <2> QED BY <2>1, <2>2
<1> QED BY <1>1, UpsertBrings DEF Partly, Whole

LEMMA TopBrings ==
  ASSUME NEW tables, NEW p, \A k \in DOMAIN tables : IsRow(tables[k])
  PROVE  WithdrawMissing(Whole(tables, p), p, TopLevel(Whole(tables, p), p)) = Seeded(tables, p)
<1> DEFINE candidates == TopLevel(Whole(tables, p), p)
<1>1. candidates \ KeysOf(p) = TopLevel(tables, p) \ KeysOf(p)
  BY DEF TopLevel, Whole, Brought
<1>2. KeysOf(p) \in SUBSET KeysOf(p)
  OBVIOUS
<1> HIDE DEF candidates
<1> QED BY <1>1, <1>2, SweepBrings DEF Whole, Seeded, AllGone, candidates

LEMMA RulesCompose ==
  ASSUME NEW comps, NEW p, NEW teams \in SUBSET Teams, NEW t \in Teams \ teams
  PROVE  SeedRules(ComposedFor(comps, p, teams), p, t) = ComposedFor(comps, p, teams \cup {t})
<1>1. PICK f : f = ComposedFor(comps, p, teams)
  OBVIOUS
<1>2. DOMAIN f = Teams /\ f[t] = comps[t] /\ f = [x \in Teams |-> f[x]]
  BY <1>1 DEF ComposedFor
<1>3. [f EXCEPT ![t] = Composed(p, t, @)] = [x \in Teams |-> IF x = t THEN Composed(p, t, f[t]) ELSE f[x]]
  BY <1>2
<1> QED BY <1>1, <1>2, <1>3 DEF SeedRules, ComposedFor

(* A row is written at most once, so that what a run leaves as it was, it  *)
(* never wrote.                                                            *)
LEMMA WrittenOnce ==
  ASSUME NEW tables, NEW p, tables = [k \in DOMAIN tables |-> tables[k]],
         NEW named, NEW flagged, NEW later, NEW swept,
         named \subseteq later, flagged \subseteq swept, flagged \cap later = {},
         Brought(tables, p, later, swept) = tables
  PROVE  Brought(tables, p, named, flagged) = tables
<1>1. later \subseteq DOMAIN tables
  BY DEF Brought
<1>2. \A k \in DOMAIN tables : Brought(tables, p, later, swept)[k] = tables[k]
  OBVIOUS
<1>3. ASSUME NEW k \in DOMAIN tables
      PROVE  (IF k \in named THEN Row(Says(p, k))
              ELSE IF k \in flagged THEN Flagged(tables[k]) ELSE tables[k]) = tables[k]
  BY <1>2 DEF Brought
<1>4. DOMAIN tables \cup named = DOMAIN tables
  BY <1>1
<1> QED BY <1>3, <1>4 DEF Brought

(* A second run of a payload changes nothing. *)
LEMMA SeededTwice ==
  ASSUME NEW tables, NEW p, \A k \in DOMAIN tables : IsRow(tables[k])
  PROVE  Seeded(Seeded(tables, p), p) = Seeded(tables, p)
<1> DEFINE once == Seeded(tables, p)
<1>1. DOMAIN once = DOMAIN tables \cup KeysOf(p)
  BY DEF Seeded, Brought
<1>2. AllGone(once, p) = AllGone(tables, p)
  BY <1>1 DEF AllGone, Gone, TopLevel
<1>3. ASSUME NEW k \in DOMAIN once
      PROVE  (IF k \in KeysOf(p) THEN Row(Says(p, k))
              ELSE IF k \in AllGone(tables, p) THEN Flagged(once[k]) ELSE once[k]) = once[k]
  <2>1. CASE k \in KeysOf(p)
    BY <2>1 DEF Seeded, Brought
  <2>2. CASE k \notin KeysOf(p) /\ k \in AllGone(tables, p)
    BY <1>1, <2>2, FlagFacts DEF Seeded, Brought
  <2>3. CASE k \notin KeysOf(p) /\ k \notin AllGone(tables, p)
    BY <2>3
  <2> QED BY <2>1, <2>2, <2>3
<1>4. once = [k \in DOMAIN once |-> once[k]] /\ DOMAIN once \cup KeysOf(p) = DOMAIN once
  BY <1>1 DEF Seeded, Brought
<1> HIDE DEF once
<1> QED BY <1>2, <1>3, <1>4 DEF Seeded, Brought, once

-----------------------------------------------------------------------------
(* A good catalog, and what a run makes of it *)

(* Rows have their parents and teams their factions, a live team a live    *)
(* one; operatives that have profiles have a live one, withdrawn or not.   *)
GoodCatalog(tables) ==
  /\ tables = [k \in DOMAIN tables |-> tables[k]]
  /\ IsFiniteSet(DOMAIN tables) /\ Nobody \notin DOMAIN tables
  /\ \A k \in DOMAIN tables : IsRow(tables[k]) /\ Hangs(k, DOMAIN tables)
  /\ \A k \in DOMAIN tables : Table(k) = "team" =>
       /\ tables[k].value \in DOMAIN tables /\ Table(tables[k].value) = "faction"
       /\ ~tables[k].withdrawn => ~tables[tables[k].value].withdrawn
  /\ \A k \in DOMAIN tables \cap Profiled :
       \E w \in ProfileOf(k, DOMAIN tables) : ~tables[w].withdrawn

SeededFrom(tables, p, new) ==
  /\ new = [k \in DOMAIN new |-> new[k]]
  /\ DOMAIN new = DOMAIN tables \cup KeysOf(p)
  /\ \A k \in DOMAIN new : IsRow(new[k])
  /\ \A k \in KeysOf(p) :
       new[k] = Row(Says(p, k)) /\ new[k].value = Says(p, k) /\ ~new[k].withdrawn
  /\ \A k \in DOMAIN tables \ KeysOf(p) :
       /\ k \notin AllGone(tables, p) => new[k] = tables[k]
       /\ k \in AllGone(tables, p) => new[k].value = tables[k].value /\ new[k].withdrawn

LEMMA SeededRows ==
  ASSUME NEW tables, GoodCatalog(tables), NEW p, Sound(p), NEW new, new = Seeded(tables, p)
  PROVE  SeededFrom(tables, p, new)
<1>1. /\ new = [k \in DOMAIN new |-> new[k]]
      /\ DOMAIN new = DOMAIN tables \cup KeysOf(p)
  BY DEF Seeded, Brought
<1>2. ASSUME NEW k \in KeysOf(p)
      PROVE  /\ IsRow(new[k]) /\ new[k] = Row(Says(p, k)) /\ new[k].value = Says(p, k)
             /\ ~new[k].withdrawn
  <2>1. new[k] = Row(Says(p, k))
    BY DEF Seeded, Brought
  <2> QED BY <2>1, RowFacts
<1>3. ASSUME NEW k \in DOMAIN tables \ KeysOf(p)
      PROVE  /\ IsRow(new[k])
             /\ k \notin AllGone(tables, p) => new[k] = tables[k]
             /\ k \in AllGone(tables, p) => new[k].value = tables[k].value /\ new[k].withdrawn
  <2>1. IsRow(tables[k])
    BY DEF GoodCatalog
  <2>2. new[k] = IF k \in AllGone(tables, p) THEN Flagged(tables[k]) ELSE tables[k]
    BY DEF Seeded, Brought
  <2> QED BY <2>1, <2>2, FlagFacts
<1> QED BY <1>1, <1>2, <1>3 DEF SeededFrom

(* Which rows a payload that does not name them leaves alone. *)
LEMMA WhoIsGone ==
  ASSUME NEW tables, GoodCatalog(tables), NEW p, Sound(p), NEW k \in DOMAIN tables \ KeysOf(p)
  PROVE  k \in AllGone(tables, p) <=>
           \/ Owner(k) \in TeamsOf(p)
           \/ Table(k) = "weapon" /\ Owner(k) \in KeysOf(p)
           \/ Table(k) \in {"faction", "team"} /\ ~p.skipped
<1>1. Hangs(k, DOMAIN tables) /\ Nobody \notin KeysOf(p)
  BY DEF GoodCatalog, Sound, Nested
<1>2. Owner(k) \in Parents(p, TeamsOf(p)) <=>
        \/ Owner(k) \in TeamsOf(p)
        \/ Table(k) = "weapon" /\ Owner(k) \in KeysOf(p)
  <2>1. \A x \in KeysOf(p) : Table(x) = "operative" => Owner(x) \in TeamsOf(p)
    BY DEF Sound, Nested, Hangs, TeamsOf
  <2>2. TeamsOf(p) \subseteq KeysOf(p) /\ \A t \in TeamsOf(p) : Table(t) = "team"
    BY DEF TeamsOf
  <2>3. \A x \in Parents(p, TeamsOf(p)) : x \in TeamsOf(p) \/ (x \in KeysOf(p) /\ Table(x) = "operative")
    BY DEF Parents
  <2>4. Table(k) = "weapon" => Table(Owner(k)) = "operative"
    BY <1>1 DEF Hangs
  <2>5. (Owner(k) \in KeysOf(p) /\ Table(Owner(k)) = "operative") => Table(k) = "weapon"
    BY <1>1 DEF Hangs
  <2>6. (Owner(k) \in KeysOf(p) /\ Table(Owner(k)) = "operative") => Owner(k) \in Parents(p, TeamsOf(p))
    BY <2>1 DEF Parents
  <2>7. Owner(k) \in TeamsOf(p) => Owner(k) \in Parents(p, TeamsOf(p))
    BY DEF Parents
  <2> QED BY <2>3, <2>4, <2>5, <2>6, <2>7
<1> QED BY <1>2 DEF AllGone, Gone, TopLevel

LEMMA SeededIsGood ==
  ASSUME NEW tables, GoodCatalog(tables), NEW p, Sound(p)
  PROVE  GoodCatalog(Seeded(tables, p))
<1>1. PICK new : new = Seeded(tables, p)
  OBVIOUS
<1> DEFINE keys == KeysOf(p)
<1>0. SeededFrom(tables, p, new)
  BY <1>1, SeededRows
<1>2. /\ new = [k \in DOMAIN new |-> new[k]]
      /\ DOMAIN new = DOMAIN tables \cup keys
      /\ \A k \in DOMAIN new : IsRow(new[k])
  BY <1>0 DEF SeededFrom
<1>3. \A k \in keys : new[k].value = Says(p, k) /\ ~new[k].withdrawn
  BY <1>0 DEF SeededFrom
<1>4. \A k \in DOMAIN tables \ keys :
        /\ k \notin AllGone(tables, p) => new[k] = tables[k]
        /\ k \in AllGone(tables, p) => new[k].value = tables[k].value /\ new[k].withdrawn
  BY <1>0 DEF SeededFrom
<1>5. IsFiniteSet(DOMAIN new) /\ Nobody \notin DOMAIN new
  <2>1. IsFiniteSet(keys) /\ Nobody \notin keys
    BY KeysAreFinite DEF Sound, Nested
  <2>2. IsFiniteSet(DOMAIN tables) /\ Nobody \notin DOMAIN tables
    BY DEF GoodCatalog
  <2>3. IsFiniteSet(DOMAIN tables \cup keys)
    BY <2>1, <2>2, FS_Union
  <2> QED BY <1>2, <2>1, <2>2, <2>3
<1>6. ASSUME NEW k \in DOMAIN new PROVE Hangs(k, DOMAIN new)
  BY <1>2 DEF GoodCatalog, Sound, Nested, Hangs
<1>7. ASSUME NEW k \in DOMAIN new, Table(k) = "team"
      PROVE  /\ new[k].value \in DOMAIN new /\ Table(new[k].value) = "faction"
             /\ ~new[k].withdrawn => ~new[new[k].value].withdrawn
  <2>1. CASE k \in keys
    <3>1. k \in TeamsOf(p)
      BY <1>7, <2>1 DEF TeamsOf
    <3> QED BY <1>2, <1>3, <2>1, <3>1, TeamsNameFactions DEF Sound
  <2>2. CASE k \notin keys
    <3> DEFINE f == tables[k].value
    <3>1. /\ k \in DOMAIN tables /\ f \in DOMAIN tables /\ Table(f) = "faction"
          /\ ~tables[k].withdrawn => ~tables[f].withdrawn
          /\ Owner(k) = Nobody /\ Owner(f) = Nobody
      BY <1>2, <1>7, <2>2 DEF GoodCatalog, Hangs
    <3>2. new[k].value = f
      BY <1>4, <2>2, <3>1
    <3>3. Nobody \notin TeamsOf(p)
      BY DEF Sound, Nested, TeamsOf
    <3>4. ASSUME ~new[k].withdrawn PROVE ~new[f].withdrawn
      <4>1. k \notin AllGone(tables, p)
        BY <1>4, <2>2, <3>1, <3>4
      <4>2. p.skipped
        BY <1>7, <2>2, <3>1, <4>1, WhoIsGone
      <4>3. ~tables[k].withdrawn
        BY <1>4, <2>2, <3>1, <3>4, <4>1
      <4>4. CASE f \in keys
        BY <1>3, <4>4
      <4>5. CASE f \notin keys
        <5>1. f \notin AllGone(tables, p)
          BY <3>1, <3>3, <4>2, <4>5, WhoIsGone
        <5> QED BY <1>4, <3>1, <4>3, <4>5, <5>1
      <4> QED BY <4>4, <4>5
    <3> QED BY <1>2, <3>1, <3>2, <3>4
  <2> QED BY <2>1, <2>2
<1>8. ASSUME NEW k \in DOMAIN new \cap Profiled
      PROVE  \E w \in ProfileOf(k, DOMAIN new) : ~new[w].withdrawn
  <2>1. CASE k \in keys
    <3>1. ProfileOf(k, keys) # {}
      BY <2>1 DEF Profiled, Sound
    <3>2. PICK w \in keys : Table(w) = "weapon" /\ Owner(w) = k
      BY <3>1 DEF ProfileOf
    <3> QED BY <1>2, <1>3, <3>2 DEF ProfileOf
  <2>2. CASE k \notin keys
    <3>1. k \in DOMAIN tables \cap Profiled
      BY <1>2, <2>2
    <3>2. PICK w \in ProfileOf(k, DOMAIN tables) : ~tables[w].withdrawn
      BY <3>1 DEF GoodCatalog
    <3>3. w \in DOMAIN tables /\ Table(w) = "weapon" /\ Owner(w) = k
      BY DEF ProfileOf
    <3>4. w \notin keys
      BY <2>2, <3>3 DEF Sound, Nested, Hangs
    <3>5. w \notin AllGone(tables, p)
      BY <2>2, <3>3, <3>4, WhoIsGone DEF TeamsOf
    <3> QED BY <1>2, <1>4, <3>2, <3>3, <3>4, <3>5 DEF ProfileOf
  <2> QED BY <2>1, <2>2
<1> QED BY <1>1, <1>2, <1>5, <1>6, <1>7, <1>8 DEF GoodCatalog

-----------------------------------------------------------------------------
(* The inductive invariant of the seed *)

Tallies == [created : Nat, updated : Nat, withdrawn : Nat, compositions : Nat]

(* Where a run has got to. *)
Progress(s) ==
  /\ s.pc = "teams" =>
       /\ s.todo \subseteq TeamsOf(s.payload)
       /\ s.rows = Partly(rows, s.payload, TeamsOf(s.payload) \ s.todo)
       /\ s.compositions = ComposedFor(compositions, s.payload, TeamsOf(s.payload) \ s.todo)
  /\ s.pc \in {"sweep", "commit"} =>
       s.compositions = ComposedFor(compositions, s.payload, TeamsOf(s.payload))
  /\ s.pc = "sweep" => s.rows = Whole(rows, s.payload)
  /\ s.pc = "commit" => s.rows = Seeded(rows, s.payload)

(* It has counted nothing just if it has changed nothing. *)
Tallied(s) ==
  /\ s.counts \in Tallies
  /\ s.counts = NoCounts <=> s.rows = rows /\ s.compositions = compositions

Underway ==
  /\ DOMAIN seed = {"pc", "payload", "todo", "rows", "compositions", "counts"}
  /\ seed.pc \in {"idle", "teams", "sweep", "commit"}
  /\ seed.pc # "idle" => Sound(seed.payload) /\ Progress(seed) /\ Tallied(seed)

(* What is committed is what the last payload makes of it. *)
Settled ==
  /\ loaded \in Seq(Payloads)
  /\ loaded # <<>> =>
       /\ Sound(loaded[Len(loaded)])
       /\ rows = Seeded(rows, loaded[Len(loaded)])
       /\ compositions
            = ComposedFor(compositions, loaded[Len(loaded)], TeamsOf(loaded[Len(loaded)]))

SeedInv ==
  /\ GoodCatalog(rows)
  /\ compositions = [t \in Teams |-> compositions[t]]
  /\ Settled
  /\ Underway

LEMMA CountedNothing ==
  ASSUME NEW counts \in Tallies, NEW before, NEW after, NEW comps, NEW newComps, NEW named,
         before = [k \in DOMAIN before |-> before[k]],
         after = [k \in DOMAIN after |-> after[k]],
         DOMAIN before \subseteq DOMAIN after, IsFiniteSet(DOMAIN after),
         comps = [t \in Teams |-> comps[t]], newComps = [t \in Teams |-> newComps[t]]
  PROVE  LET c == Counted(counts, before, after, comps, newComps, named) IN
         /\ c \in Tallies
         /\ c = NoCounts <=> counts = NoCounts /\ after = before /\ newComps = comps
<1> DEFINE changed == {k \in DOMAIN before : before[k] # after[k]}
           rewritten == {t \in Teams : comps[t] # newComps[t]}
           created == DOMAIN after \ DOMAIN before
<1>1. PICK a, b, c, d : /\ a = Cardinality(created) /\ b = Cardinality(changed \cap named)
                        /\ c = Cardinality(changed \ named) /\ d = Cardinality(rewritten)
  OBVIOUS
<1>2. /\ IsFiniteSet(created) /\ IsFiniteSet(changed \cap named) /\ IsFiniteSet(changed \ named)
      /\ IsFiniteSet(rewritten)
  <2>1. /\ created \subseteq DOMAIN after /\ changed \cap named \subseteq DOMAIN after
        /\ changed \ named \subseteq DOMAIN after /\ rewritten \subseteq Teams
    OBVIOUS
  <2> HIDE DEF created, changed, rewritten
  <2> QED BY <2>1, FS_Subset, TeamsAssumption
<1>3. /\ a \in Nat /\ b \in Nat /\ c \in Nat /\ d \in Nat
      /\ a = 0 <=> created = {}
      /\ b = 0 <=> changed \cap named = {}
      /\ c = 0 <=> changed \ named = {}
      /\ d = 0 <=> rewritten = {}
  <2> HIDE DEF created, changed, rewritten
  <2> QED BY <1>1, <1>2, FS_CardinalityType, FS_EmptySet
<1>4. (created = {} /\ changed \cap named = {} /\ changed \ named = {}) <=> after = before
  <2>1. ASSUME created = {}, changed \cap named = {}, changed \ named = {}
        PROVE  after = before
    <3>1. DOMAIN after = DOMAIN before
      BY <2>1
    <3>2. \A k \in DOMAIN before : before[k] = after[k]
      BY <2>1
    <3> QED BY <3>1, <3>2
  <2>2. ASSUME after = before
        PROVE  created = {} /\ changed \cap named = {} /\ changed \ named = {}
    BY <2>2
  <2> QED BY <2>1, <2>2
<1>5. rewritten = {} <=> newComps = comps
  <2>1. ASSUME rewritten = {} PROVE newComps = comps
    <3>1. \A t \in Teams : comps[t] = newComps[t]
      BY <2>1
    <3> QED BY <3>1
  <2> QED BY <2>1
<1> DEFINE new == [created |-> counts.created + a, updated |-> counts.updated + b,
                   withdrawn |-> counts.withdrawn + c, compositions |-> counts.compositions + d]
<1>6. Counted(counts, before, after, comps, newComps, named) = new
  BY <1>1 DEF Counted
<1>7. new \in Tallies
  BY <1>3 DEF Tallies
<1>8. new = NoCounts <=> counts = NoCounts /\ a = 0 /\ b = 0 /\ c = 0 /\ d = 0
  BY <1>3 DEF Tallies, NoCounts
<1> HIDE DEF new, created, changed, rewritten
<1> QED BY <1>3, <1>4, <1>5, <1>6, <1>7, <1>8

LEMMA ComposedOnce ==
  ASSUME NEW comps, comps = [t \in Teams |-> comps[t]], NEW p, NEW teams, NEW others,
         teams \subseteq others, ComposedFor(comps, p, others) = comps
  PROVE  ComposedFor(comps, p, teams) = comps
<1>1. \A t \in Teams : ComposedFor(comps, p, others)[t] = comps[t]
  OBVIOUS
<1>2. \A t \in Teams : (IF t \in teams THEN Composed(p, t, comps[t]) ELSE comps[t]) = comps[t]
  BY <1>1 DEF ComposedFor
<1> QED BY <1>2 DEF ComposedFor

(* Every step of a run that writes, whatever it writes: it counts what it  *)
(* changes.                                                                *)
LEMMA WroteTallies ==
  ASSUME SeedInv, seed.pc # "idle",
         NEW tables, NEW comps, NEW keys, NEW pc, NEW todo, Wrote(tables, comps, keys, pc, todo),
         NEW named, NEW flagged, NEW teams, NEW later, NEW swept, NEW others,
         seed.rows = Brought(rows, seed.payload, named, flagged),
         seed.compositions = ComposedFor(compositions, seed.payload, teams),
         tables = Brought(rows, seed.payload, later, swept),
         comps = ComposedFor(compositions, seed.payload, others),
         named \subseteq later, flagged \subseteq swept, flagged \cap later = {},
         later \subseteq KeysOf(seed.payload), teams \subseteq others
  PROVE  /\ seed'.pc = pc /\ seed'.payload = seed.payload /\ seed'.todo = todo
         /\ seed'.rows = tables /\ seed'.compositions = comps
         /\ DOMAIN seed' = DOMAIN seed
         /\ seed'.counts \in Tallies
         /\ seed'.counts = NoCounts <=> tables = rows /\ comps = compositions
<1> DEFINE p == seed.payload
<1>1. PICK c : c = Counted(seed.counts, seed.rows, tables, seed.compositions, comps, keys)
  OBVIOUS
<1>2. /\ seed'.pc = pc /\ seed'.payload = seed.payload /\ seed'.todo = todo
      /\ seed'.rows = tables /\ seed'.compositions = comps /\ seed'.counts = c
      /\ DOMAIN seed' = DOMAIN seed
  BY <1>1 DEF Wrote, SeedInv, Underway
<1>3. Sound(p) /\ GoodCatalog(rows) /\ Tallied(seed)
  BY DEF SeedInv, Underway
<1>4. /\ DOMAIN seed.rows = DOMAIN rows \cup named /\ DOMAIN tables = DOMAIN rows \cup later
      /\ seed.rows = [k \in DOMAIN seed.rows |-> seed.rows[k]]
      /\ tables = [k \in DOMAIN tables |-> tables[k]]
  BY DEF Brought
<1>5. IsFiniteSet(DOMAIN tables)
  <2>1. IsFiniteSet(DOMAIN rows) /\ IsFiniteSet(later)
    BY <1>3, KeysAreFinite, FS_Subset DEF GoodCatalog, Sound
  <2>2. IsFiniteSet(DOMAIN rows \cup later)
    BY <2>1, FS_Union
  <2> QED BY <1>4, <2>2
<1>6. /\ seed.compositions = [t \in Teams |-> seed.compositions[t]]
      /\ comps = [t \in Teams |-> comps[t]]
  BY DEF ComposedFor
<1>7. c \in Tallies /\ (c = NoCounts <=> /\ seed.counts = NoCounts
                                         /\ tables = seed.rows /\ comps = seed.compositions)
  <2>1. PICK n, before, kept : n = seed.counts /\ before = seed.rows /\ kept = seed.compositions
    OBVIOUS
  <2>2. n \in Tallies /\ DOMAIN before \subseteq DOMAIN tables
    BY <1>3, <1>4, <2>1 DEF Tallied
  <2>3. /\ before = [k \in DOMAIN before |-> before[k]] /\ kept = [t \in Teams |-> kept[t]]
    BY <1>4, <1>6, <2>1
  <2> QED BY <1>1, <1>4, <1>5, <1>6, <2>1, <2>2, <2>3, CountedNothing
<1>8. tables = rows => seed.rows = rows
  <2>1. rows = [k \in DOMAIN rows |-> rows[k]]
    BY <1>3 DEF GoodCatalog
  <2>2. PICK old, payload : old = rows /\ payload = seed.payload
    OBVIOUS
  <2>3. Brought(old, payload, later, swept) = old => Brought(old, payload, named, flagged) = old
    BY <2>1, <2>2, WrittenOnce
  <2> QED BY <2>2, <2>3
<1>9. comps = compositions => seed.compositions = compositions
  <2>1. compositions = [t \in Teams |-> compositions[t]]
    BY DEF SeedInv
  <2> QED BY <2>1, ComposedOnce
<1> QED BY <1>2, <1>3, <1>7, <1>8, <1>9 DEF Tallied

LEMMA GoneGrows ==
  ASSUME NEW tables, NEW p, NEW teams, NEW others, teams \subseteq others
  PROVE  /\ Gone(tables, p, teams) \subseteq Gone(tables, p, others)
         /\ Gone(tables, p, teams) \cap KeysOf(p) = {}
         /\ Named(p, teams) \subseteq Named(p, others)
BY DEF Gone, Named, Parents

(* The catalog is nobody else's to write. *)
LEMMA UncommittedKeeps ==
  ASSUME SeedInv, UNCHANGED <<rows, compositions, loaded>>, Underway'
  PROVE  SeedInv'
BY DEF SeedInv, Settled

LEMMA StartKeeps == SeedInv /\ Start => SeedInv'
<1> SUFFICES ASSUME SeedInv, Start PROVE SeedInv'
  OBVIOUS
<1>1. PICK p \in Payloads :
        /\ WellFormed(p)
        /\ seed' = [pc |-> "teams", payload |-> p, todo |-> TeamsOf(p), rows |-> rows,
                    compositions |-> compositions, counts |-> NoCounts]
  BY DEF Start
<1>2. Sound(p)
  BY <1>1, PayloadsAssumption DEF Sound
<1>3. rows = [k \in DOMAIN rows |-> rows[k]] /\ compositions = [t \in Teams |-> compositions[t]]
  BY DEF SeedInv, GoodCatalog
<1>4. Partly(rows, p, {}) = rows
  <2>1. Named(p, {}) = {} /\ Gone(rows, p, {}) = {}
    BY DEF Named, Gone, Parents
  <2> QED BY <1>3, <2>1 DEF Partly, Brought
<1>5. ComposedFor(compositions, p, {}) = compositions
  BY <1>3 DEF ComposedFor
<1>6. UNCHANGED <<rows, compositions, loaded>>
  BY DEF Start
<1>7. NoCounts \in Tallies
  BY DEF NoCounts, Tallies
<1>8. TeamsOf(p) \ TeamsOf(p) = {}
  OBVIOUS
<1>9. Underway'
  <2>1. PICK teams : teams = TeamsOf(p)
    OBVIOUS
  <2> QED BY <1>1, <1>2, <1>4, <1>5, <1>6, <1>7, <1>8 DEF Underway, Progress, Tallied
<1> QED BY <1>6, <1>9, UncommittedKeeps

LEMMA SeedTeamKeeps == SeedInv /\ SeedTeam => SeedInv'
<1> SUFFICES ASSUME SeedInv, SeedTeam PROVE SeedInv'
  OBVIOUS
<1> DEFINE p == seed.payload
           teams == TeamsOf(p) \ seed.todo
<1>1. PICK t \in seed.todo :
        Wrote(SeedKillTeam(seed.rows, p, t), SeedRules(seed.compositions, p, t),
              KeysOf(p), "teams", seed.todo \ {t})
  BY DEF SeedTeam
<1>2. seed.pc = "teams" /\ Sound(p) /\ GoodCatalog(rows)
  BY DEF SeedTeam, SeedInv, Underway
<1>3. /\ seed.todo \subseteq TeamsOf(p)
      /\ seed.rows = Partly(rows, p, teams)
      /\ seed.compositions = ComposedFor(compositions, p, teams)
  BY <1>2 DEF SeedInv, Underway, Progress
<1>4. /\ teams \in SUBSET TeamsOf(p) /\ t \in TeamsOf(p) \ teams
      /\ TeamsOf(p) \ (seed.todo \ {t}) = teams \cup {t}
      /\ TeamsOf(p) \subseteq Teams
  BY <1>2, <1>3 DEF Sound
<1> HIDE DEF teams
<1>5. SeedKillTeam(seed.rows, p, t) = Partly(rows, p, teams \cup {t})
  BY <1>2, <1>3, <1>4, TeamBrings DEF GoodCatalog
<1>6. SeedRules(seed.compositions, p, t) = ComposedFor(compositions, p, teams \cup {t})
  BY <1>3, <1>4, RulesCompose
<1>7. Named(p, teams \cup {t}) \subseteq KeysOf(p)
  BY <1>2, <1>4, NamedKeys
<1>8. /\ Gone(rows, p, teams) \subseteq Gone(rows, p, teams \cup {t})
      /\ Gone(rows, p, teams) \cap KeysOf(p) = {}
      /\ Named(p, teams) \subseteq Named(p, teams \cup {t})
  BY GoneGrows
<1>9. UNCHANGED <<rows, compositions, loaded>>
  BY <1>1 DEF Wrote
<1>10. PICK tables, comps : /\ tables = Partly(rows, p, teams \cup {t})
                            /\ comps = ComposedFor(compositions, p, teams \cup {t})
  OBVIOUS
<1>11. /\ seed'.pc = "teams" /\ seed'.payload = seed.payload /\ seed'.todo = seed.todo \ {t}
       /\ seed'.rows = tables /\ seed'.compositions = comps
       /\ DOMAIN seed' = DOMAIN seed
       /\ seed'.counts \in Tallies
       /\ seed'.counts = NoCounts <=> tables = rows /\ comps = compositions
  <2>1. /\ seed.rows = Brought(rows, p, Named(p, teams), Gone(rows, p, teams))
        /\ tables = Brought(rows, p, Named(p, teams \cup {t}), Gone(rows, p, teams \cup {t}))
    BY <1>3, <1>10 DEF Partly
  <2>2. Gone(rows, p, teams) \cap Named(p, teams \cup {t}) = {}
    BY <1>7, <1>8
  <2>3. Wrote(tables, comps, KeysOf(p), "teams", seed.todo \ {t})
    BY <1>1, <1>5, <1>6, <1>10
  <2> QED BY <1>2, <1>3, <1>7, <1>8, <1>10, <2>1, <2>2, <2>3, WroteTallies
<1>12. Underway'
  BY <1>2, <1>3, <1>4, <1>9, <1>10, <1>11 DEF SeedInv, Underway, Progress, Tallied
<1> QED BY <1>9, <1>12, UncommittedKeeps

LEMMA SeedUniversalsKeeps == SeedInv /\ SeedUniversals => SeedInv'
<1> SUFFICES ASSUME SeedInv, SeedUniversals PROVE SeedInv'
  OBVIOUS
<1> DEFINE p == seed.payload
<1>1. /\ seed.pc = "teams" /\ seed.todo = {} /\ Sound(p)
      /\ Wrote(Upsert(seed.rows, p, UniversalsOf(p)), seed.compositions, KeysOf(p), "sweep", {})
  BY DEF SeedUniversals, SeedInv, Underway
<1>2. /\ seed.rows = Partly(rows, p, TeamsOf(p))
      /\ seed.compositions = ComposedFor(compositions, p, TeamsOf(p))
  <2>1. TeamsOf(p) \ seed.todo = TeamsOf(p)
    BY <1>1
  <2> QED BY <1>1, <2>1 DEF SeedInv, Underway, Progress
<1>3. Upsert(seed.rows, p, UniversalsOf(p)) = Whole(rows, p)
  BY <1>1, <1>2, UniversalsBring
<1>4. Named(p, TeamsOf(p)) \subseteq KeysOf(p)
  BY <1>1, NamedKeys
<1>5. Gone(rows, p, TeamsOf(p)) \cap KeysOf(p) = {}
  BY GoneGrows
<1>6. UNCHANGED <<rows, compositions, loaded>>
  BY <1>1 DEF Wrote
<1>7. PICK tables, comps : tables = Whole(rows, p) /\ comps = seed.compositions
  OBVIOUS
<1>8. /\ seed'.pc = "sweep" /\ seed'.payload = p
      /\ seed'.rows = tables /\ seed'.compositions = comps
      /\ DOMAIN seed' = DOMAIN seed
      /\ seed'.counts \in Tallies
      /\ seed'.counts = NoCounts <=> tables = rows /\ comps = compositions
  <2>1. /\ seed.rows = Brought(rows, p, Named(p, TeamsOf(p)), Gone(rows, p, TeamsOf(p)))
        /\ tables = Brought(rows, p, KeysOf(p), Gone(rows, p, TeamsOf(p)))
    BY <1>2, <1>7 DEF Partly, Whole
  <2>2. Wrote(tables, comps, KeysOf(p), "sweep", {})
    BY <1>1, <1>3, <1>7
  <2> QED BY <1>1, <1>2, <1>4, <1>5, <1>7, <2>1, <2>2, WroteTallies
<1>9. Underway'
  BY <1>1, <1>2, <1>6, <1>7, <1>8 DEF SeedInv, Underway, Progress, Tallied
<1> QED BY <1>6, <1>9, UncommittedKeeps

LEMMA SweepTopKeeps == SeedInv /\ SweepTop => SeedInv'
<1> SUFFICES ASSUME SeedInv, SweepTop PROVE SeedInv'
  OBVIOUS
<1> DEFINE p == seed.payload
<1>1. /\ seed.pc = "sweep" /\ Sound(p)
      /\ Wrote(WithdrawMissing(seed.rows, p, TopLevel(seed.rows, p)), seed.compositions,
               KeysOf(p), "commit", {})
  BY DEF SweepTop, SeedInv, Underway
<1>2. /\ seed.rows = Whole(rows, p)
      /\ seed.compositions = ComposedFor(compositions, p, TeamsOf(p))
  BY <1>1 DEF SeedInv, Underway, Progress
<1>3. WithdrawMissing(seed.rows, p, TopLevel(seed.rows, p)) = Seeded(rows, p)
  BY <1>2, TopBrings DEF SeedInv, GoodCatalog
<1>4. /\ Gone(rows, p, TeamsOf(p)) \subseteq AllGone(rows, p)
      /\ AllGone(rows, p) \cap KeysOf(p) = {}
  BY DEF AllGone, Gone
<1>5. UNCHANGED <<rows, compositions, loaded>>
  BY <1>1 DEF Wrote
<1>6. PICK tables, comps : tables = Seeded(rows, p) /\ comps = seed.compositions
  OBVIOUS
<1>7. /\ seed'.pc = "commit" /\ seed'.payload = p
      /\ seed'.rows = tables /\ seed'.compositions = comps
      /\ DOMAIN seed' = DOMAIN seed
      /\ seed'.counts \in Tallies
      /\ seed'.counts = NoCounts <=> tables = rows /\ comps = compositions
  <2>1. /\ seed.rows = Brought(rows, p, KeysOf(p), Gone(rows, p, TeamsOf(p)))
        /\ tables = Brought(rows, p, KeysOf(p), AllGone(rows, p))
    BY <1>2, <1>6 DEF Seeded, Whole
  <2>2. Wrote(tables, comps, KeysOf(p), "commit", {})
    BY <1>1, <1>3, <1>6
  <2>3. Gone(rows, p, TeamsOf(p)) \cap KeysOf(p) = {}
    BY <1>4
  <2> QED BY <1>1, <1>2, <1>4, <1>6, <2>1, <2>2, <2>3, WroteTallies
<1>8. Underway'
  BY <1>1, <1>2, <1>5, <1>6, <1>7 DEF SeedInv, Underway, Progress, Tallied
<1> QED BY <1>5, <1>8, UncommittedKeeps

LEMMA CommitKeeps == SeedInv /\ Commit => SeedInv'
<1> SUFFICES ASSUME SeedInv, Commit PROVE SeedInv'
  OBVIOUS
<1>1. PICK p : p = seed.payload
  OBVIOUS
<1>2. Sound(p) /\ GoodCatalog(rows) /\ compositions = [t \in Teams |-> compositions[t]]
  BY <1>1 DEF Commit, SeedInv, Underway
<1>3. /\ rows' = Seeded(rows, p)
      /\ compositions' = ComposedFor(compositions, p, TeamsOf(p))
      /\ loaded' = Append(loaded, p) /\ seed' = Idle
  BY <1>1 DEF Commit, SeedInv, Underway, Progress
<1>4. GoodCatalog(rows')
  BY <1>2, <1>3, SeededIsGood
<1>5. GoodCatalog(rows)'
  BY <1>4 DEF GoodCatalog
<1>6. compositions' = [t \in Teams |-> compositions'[t]]
  BY <1>3 DEF ComposedFor
<1>7. rows' = Seeded(rows', p)
  BY <1>2, <1>3, SeededTwice DEF GoodCatalog
<1>8. compositions' = ComposedFor(compositions', p, TeamsOf(p))
  BY <1>3 DEF ComposedFor, Composed
<1>9. loaded' \in Seq(Payloads) /\ loaded'[Len(loaded')] = p
  BY <1>2, <1>3 DEF SeedInv, Settled, Sound
<1>10. Settled'
  BY <1>2, <1>7, <1>8, <1>9 DEF Settled
<1>11. Underway'
  BY <1>3 DEF Underway, Idle
<1> QED BY <1>5, <1>6, <1>10, <1>11 DEF SeedInv

LEMMA SeedInit == Init => SeedInv
<1> SUFFICES ASSUME Init PROVE SeedInv
  OBVIOUS
<1>1. DOMAIN rows = {} /\ rows = [k \in DOMAIN rows |-> rows[k]]
  BY DEF Init
<1>2. GoodCatalog(rows)
  BY <1>1, FS_EmptySet DEF GoodCatalog
<1>3. Settled
  BY DEF Init, Settled
<1>4. Underway
  BY DEF Init, Underway, Idle
<1>5. compositions = [t \in Teams |-> compositions[t]]
  BY DEF Init
<1> QED BY <1>2, <1>3, <1>4, <1>5 DEF SeedInv

LEMMA SeedNext == SeedInv /\ [Next]_vars => SeedInv'
<1> SUFFICES ASSUME SeedInv, [Next]_vars PROVE SeedInv'
  OBVIOUS
<1>1. CASE Reading \/ UNCHANGED vars
  <2>1. UNCHANGED <<rows, compositions, seed, loaded>>
    BY <1>1
    DEF Reading, vars, ReadTeam, ReadOperatives, ReadProfiles, ReadPloys, ReadRules, Reads,
        CopyTeamPloys, CopyCards, CopyProfiles, CopyUniversals, Copies
  <2> QED BY <2>1 DEF SeedInv, Settled, Underway, Progress, Tallied
<1>2. CASE Fail
  BY <1>2, UncommittedKeeps DEF Fail, Underway, Idle
<1> QED
  BY <1>1, <1>2, StartKeeps, SeedTeamKeeps, SeedUniversalsKeeps, SweepTopKeeps, CommitKeeps
  DEF Next, Seeding

LEMMA SeedInvariance == Spec => []SeedInv
BY SeedInit, SeedNext, PTL DEF Spec

-----------------------------------------------------------------------------
(* What the seed promises *)

(* The rows a team is listed by and the row it is fetched by agree:        *)
(* _narrow_kill_teams and get_kill_team see the same teams.                *)
THEOREM ListsAndPagesAgree == Spec => []ListedIffServed
<1>1. ASSUME SeedInv PROVE ListedIffServed
  <2>1. ASSUME NEW t, Table(t) = "team" PROVE Listed(rows, t) <=> LiveTeam(rows, t)
    BY <1>1, <2>1 DEF SeedInv, GoodCatalog, Listed, LiveTeam, Live
  <2>2. ASSUME NEW k \in ListedOperatives(rows) PROVE Listed(rows, Owner(k))
    <3>1. Table(Owner(k)) = "team" /\ Live(rows, Owner(k))
      BY <1>1 DEF SeedInv, GoodCatalog, ListedOperatives, Hangs
    <3> QED BY <2>1, <3>1 DEF LiveTeam
  <2> QED BY <2>1, <2>2, TeamsAssumption DEF ListedIffServed
<1> QED BY <1>1, SeedInvariance, PTL

(* "nothing new" is printed of a run that changed nothing, and of no       *)
(* other; the payload loaded last, loaded again, is such a run (main).     *)
THEOREM ReportTellsTheTruth == Spec => []ReportIsTruthful
<1>1. ASSUME SeedInv, seed.pc = "commit" PROVE ReportIsTruthful
  <2>1. seed.counts = NoCounts <=> seed.rows = rows /\ seed.compositions = compositions
    BY <1>1 DEF SeedInv, Underway, Tallied
  <2>2. ASSUME loaded # <<>>, seed.payload = loaded[Len(loaded)]
        PROVE  seed.rows = rows /\ seed.compositions = compositions
    BY <1>1, <2>2 DEF SeedInv, Underway, Progress, Settled
  <2> QED BY <2>1, <2>2 DEF ReportIsTruthful
<1>2. SeedInv => ReportIsTruthful
  BY <1>1 DEF ReportIsTruthful
<1> QED BY <1>2, SeedInvariance, PTL

(* Every entry of the payload loaded last is a live row with what it says  *)
(* (_check_no_duplicates).                                                 *)
THEOREM EntriesLand == Spec => []EveryEntryLands
<1>1. ASSUME SeedInv, loaded # <<>> PROVE EveryEntryLands
  <2>1. PICK last : last = loaded[Len(loaded)]
    OBVIOUS
  <2>2. Sound(last) /\ rows = Seeded(rows, last) /\ GoodCatalog(rows)
    BY <1>1, <2>1 DEF SeedInv, Settled
  <2>3. SeededFrom(rows, last, rows)
    BY <2>2, SeededRows
  <2>4. ASSUME NEW i \in DOMAIN last.entries
        PROVE  rows[last.entries[i].key] = Row(last.entries[i].value)
    <3>1. last.entries[i].key \in KeysOf(last)
      BY DEF KeysOf
    <3>2. Says(last, last.entries[i].key) = last.entries[i].value
      BY <2>2, SaysTheEntry DEF Sound
    <3> QED BY <2>3, <3>1, <3>2 DEF SeededFrom
  <2> QED BY <2>1, <2>4 DEF EveryEntryLands
<1>2. SeedInv => EveryEntryLands
  BY <1>1 DEF EveryEntryLands
<1> QED BY <1>2, SeedInvariance, PTL

-----------------------------------------------------------------------------
(* The seed keeps its promise: KTSeed implements KTCatalog *)

LEMMA WithinTeam ==
  ASSUME NEW keys, Nobody \notin keys, \A k \in keys : Hangs(k, keys),
         NEW t \in Teams, NEW k \in keys
  PROVE  Within(k, t) <=>
           \/ k = t
           \/ Table(k) \in {"ploy", "operative"} /\ Owner(k) = t
           \/ /\ Table(k) = "weapon" /\ Owner(k) \in keys
              /\ Table(Owner(k)) = "operative" /\ Owner(Owner(k)) = t
<1>1. Hangs(k, keys) /\ Table(t) = "team" /\ t # Nobody
  BY TeamsAssumption
<1>2. Owner(k) \in keys => Owner(k) # Nobody /\ Hangs(Owner(k), keys)
  OBVIOUS
<1>3. (Owner(k) \in keys /\ Table(Owner(k)) = "team") => Owner(Owner(k)) = Nobody
  BY <1>2 DEF Hangs
<1> QED BY <1>1, <1>2, <1>3 DEF Within, Hangs

(* A payload that does not name a team leaves what is the team's.          *)
LEMMA OthersUntouched ==
  ASSUME NEW tables, GoodCatalog(tables), NEW p, Sound(p), NEW t \in Teams \ TeamsOf(p),
         NEW new, new = Seeded(tables, p), NEW k \in DOMAIN new, Within(k, t), k # t
  PROVE  k \in DOMAIN tables \ KeysOf(p) /\ new[k] = tables[k]
<1>1. SeededFrom(tables, p, new)
  BY SeededRows
<1>2. Nobody \notin KeysOf(p) /\ \A x \in KeysOf(p) : Hangs(x, KeysOf(p))
  BY DEF Sound, Nested
<1>3. Nobody \notin DOMAIN tables /\ \A x \in DOMAIN tables : Hangs(x, DOMAIN tables)
  BY DEF GoodCatalog
<1>4. t \notin KeysOf(p) /\ Table(t) = "team"
  BY TeamsAssumption DEF TeamsOf
<1>5. ASSUME NEW x \in KeysOf(p), Owner(x) = t PROVE FALSE
  BY <1>2, <1>4, <1>5, TeamsAssumption DEF Hangs
<1>6. k \notin KeysOf(p)
  <2> SUFFICES ASSUME k \in KeysOf(p) PROVE FALSE
    OBVIOUS
  <2>1. CASE Owner(k) = t
    BY <1>5, <2>1
  <2>2. CASE Owner(k) # t
    <3>1. Owner(k) \in KeysOf(p) /\ Owner(Owner(k)) = t
      BY <1>2, <2>2, WithinTeam
    <3> QED BY <1>5, <3>1
  <2> QED BY <2>1, <2>2
<1>7. k \in DOMAIN tables
  BY <1>1, <1>6 DEF SeededFrom
<1>8. k \notin AllGone(tables, p)
  <2>1. \/ Table(k) \in {"ploy", "operative"} /\ Owner(k) = t
        \/ /\ Table(k) = "weapon" /\ Owner(k) \in DOMAIN tables
           /\ Table(Owner(k)) = "operative" /\ Owner(Owner(k)) = t
    BY <1>3, <1>7, WithinTeam
  <2>2. CASE Table(k) \in {"ploy", "operative"} /\ Owner(k) = t
    BY <1>6, <1>7, <2>2, WhoIsGone
  <2>3. CASE Table(k) = "weapon" /\ Table(Owner(k)) = "operative" /\ Owner(Owner(k)) = t
    <3>1. Owner(k) \notin KeysOf(p) /\ Owner(k) \notin TeamsOf(p)
      BY <1>5, <2>3 DEF TeamsOf
    <3> QED BY <1>6, <1>7, <2>3, <3>1, WhoIsGone
  <2> QED BY <2>1, <2>2, <2>3
<1> QED BY <1>1, <1>6, <1>7, <1>8 DEF SeededFrom

PageOf(tables, t) == Values(tables, Served(tables, t))

LEMMA PageIsPublished ==
  ASSUME NEW tables, GoodCatalog(tables), NEW p, Sound(p), NEW t \in TeamsOf(p),
         NEW new, new = Seeded(tables, p)
  PROVE  PageOf(new, t) = Page(p, t)
<1>1. SeededFrom(tables, p, new) /\ t \in Teams
  BY SeededRows DEF Sound
<1>2. Nobody \notin KeysOf(p) /\ \A x \in KeysOf(p) : Hangs(x, KeysOf(p))
  BY DEF Sound, Nested
<1>3. Nobody \notin DOMAIN tables /\ \A x \in DOMAIN tables : Hangs(x, DOMAIN tables)
  BY DEF GoodCatalog
<1>4. \A k \in KeysOf(p) : Live(new, k) /\ new[k].value = Says(p, k)
  BY <1>1 DEF SeededFrom, Live
<1>5. ASSUME NEW k \in Subtree(p, t) PROVE k \in Served(new, t)
  <2>1. k \in KeysOf(p) /\ Within(k, t) /\ t \in KeysOf(p)
    BY DEF Subtree, TeamsOf
  <2>2. Table(k) = "weapon" => Owner(k) \in KeysOf(p)
    BY <1>2, <2>1 DEF Hangs
  <2> QED BY <1>4, <2>1, <2>2 DEF Served, Live
<1>6. ASSUME NEW k \in Served(new, t) PROVE k \in Subtree(p, t)
  <2>1. /\ k \in DOMAIN new /\ Within(k, t) /\ Live(new, k)
        /\ Table(k) = "weapon" => Live(new, Owner(k))
    BY DEF Served
  <2> SUFFICES ASSUME k \notin KeysOf(p) PROVE FALSE
    BY <2>1 DEF Subtree
  <2>2. k \in DOMAIN tables /\ k # t
    BY <1>1, <2>1 DEF SeededFrom, TeamsOf
  <2>3. k \notin AllGone(tables, p)
    BY <1>1, <2>1, <2>2 DEF SeededFrom, Live
  <2>4. /\ Owner(k) # t
        /\ ~(Table(k) = "weapon" /\ Owner(k) \in KeysOf(p))
    BY <2>2, <2>3, WhoIsGone
  <2>5. /\ Table(k) = "weapon" /\ Owner(k) \in DOMAIN tables /\ Owner(Owner(k)) = t
    BY <1>1, <1>3, <2>1, <2>2, <2>4, WithinTeam
  <2>6. Owner(k) \in AllGone(tables, p)
    BY <2>4, <2>5, WhoIsGone
  <2> QED BY <1>1, <2>1, <2>4, <2>5, <2>6 DEF SeededFrom, Live
<1>7. Served(new, t) = Subtree(p, t)
  BY <1>5, <1>6
<1>8. \A k \in Subtree(p, t) : new[k].value = Says(p, k)
  BY <1>4 DEF Subtree
<1> QED BY <1>7, <1>8 DEF PageOf, Values, Page

LEMMA PageIsLeft ==
  ASSUME NEW tables, GoodCatalog(tables), NEW p, Sound(p), NEW t \in Teams \ TeamsOf(p),
         p.skipped, NEW new, new = Seeded(tables, p)
  PROVE  PageOf(new, t) = PageOf(tables, t)
<1>1. SeededFrom(tables, p, new)
  BY SeededRows
<1>2. Nobody \notin DOMAIN tables /\ \A x \in DOMAIN tables : Hangs(x, DOMAIN tables)
  BY DEF GoodCatalog
<1>3. t \notin KeysOf(p) /\ Table(t) = "team" /\ t # Nobody
  BY TeamsAssumption DEF TeamsOf
<1>4. ASSUME NEW k, Within(k, t)
      PROVE  /\ k \in DOMAIN new <=> k \in DOMAIN tables
             /\ k \in DOMAIN new => new[k] = tables[k]
  <2>1. CASE k # t
    BY <1>1, <1>4, <2>1, OthersUntouched DEF SeededFrom
  <2>2. CASE k = t
    <3>1. k \in DOMAIN tables => Owner(k) = Nobody
      BY <1>2, <1>3, <2>2 DEF Hangs
    <3>2. k \in DOMAIN tables => k \notin AllGone(tables, p)
      BY <1>3, <2>2, <3>1, WhoIsGone DEF Sound, Nested, TeamsOf
    <3> QED BY <1>1, <1>3, <2>2, <3>2 DEF SeededFrom
  <2> QED BY <2>1, <2>2
<1>5. ASSUME NEW k, Within(k, t) PROVE Live(new, k) <=> Live(tables, k)
  BY <1>4, <1>5 DEF Live
<1>6. Within(t, t)
  BY DEF Within
<1>7. ASSUME NEW k \in DOMAIN tables, Within(k, t), Table(k) = "weapon"
      PROVE  Within(Owner(k), t)
  <2>1. Owner(k) \in DOMAIN tables /\ Table(Owner(k)) = "operative" /\ Owner(Owner(k)) = t
    BY <1>2, <1>3, <1>7, WithinTeam
  <2> QED BY <2>1 DEF Within
<1>8. Served(new, t) = Served(tables, t)
  BY <1>4, <1>5, <1>6, <1>7 DEF Served
<1>9. \A k \in Served(tables, t) : new[k].value = tables[k].value
  BY <1>4, <1>8 DEF Served
<1> QED BY <1>8, <1>9 DEF PageOf, Values

LEMMA EmptyPage == ASSUME NEW tables PROVE Values(tables, {}) = <<>>
BY DEF Values

LEMMA PageIsTaken ==
  ASSUME NEW tables, GoodCatalog(tables), NEW p, Sound(p), NEW t \in Teams \ TeamsOf(p),
         ~p.skipped, NEW new, new = Seeded(tables, p)
  PROVE  PageOf(new, t) = <<>>
<1>1. SeededFrom(tables, p, new)
  BY SeededRows
<1>2. t \notin KeysOf(p) /\ Table(t) = "team"
  BY TeamsAssumption DEF TeamsOf
<1>3. ~Live(new, t)
  BY <1>1, <1>2, WhoIsGone DEF SeededFrom, Live
<1>4. Served(new, t) = {}
  BY <1>3 DEF Served
<1> QED BY <1>4, EmptyPage DEF PageOf

LEMMA PromisedPayload ==
  ASSUME NEW p, NEW t, NEW before
  PROVE  /\ Promise!TeamsOf(p) = TeamsOf(p) /\ Promise!Page(p, t) = Page(p, t)
         /\ Promise!Composed(p, t, before) = Composed(p, t, before)
         /\ Promise!WellFormed(p) <=> WellFormed(p)
<1>1. Promise!KeysOf(p) = KeysOf(p)
  BY DEF Promise!KeysOf, KeysOf
<1>2. Promise!TeamsOf(p) = TeamsOf(p)
  BY <1>1 DEF Promise!TeamsOf, TeamsOf, Promise!Table, Table
<1>3. \A k : Promise!Says(p, k) = Says(p, k)
  BY DEF Promise!Says, Says
<1>4. Promise!Subtree(p, t) = Subtree(p, t)
  BY <1>1 DEF Promise!Subtree, Subtree, Promise!Within, Within, Promise!Owner, Owner
<1>5. Promise!Page(p, t) = Page(p, t)
  BY <1>3, <1>4 DEF Promise!Page, Page
<1>6. Promise!Composed(p, t, before) = Composed(p, t, before)
  BY DEF Promise!Composed, Composed
<1>7. Promise!WellFormed(p) <=> WellFormed(p)
  BY <1>2 DEF Promise!WellFormed, WellFormed, Promise!Table, Table
<1> QED BY <1>2, <1>5, <1>6, <1>7

Pages(tables) == [t \in Teams |-> Values(tables, Served(tables, t))]

(* A commit publishes the payload's pages, and nothing else does anything  *)
(* a reader can see (seed, decision #55).                                  *)
THEOREM SeedKeepsItsPromise == Spec => CatalogIsWhatWasPublished
<1>1. Init => Promise!Init
  <2> SUFFICES ASSUME Init PROVE Promise!Init
    OBVIOUS
  <2>1. \A t : Served(rows, t) = {}
    BY DEF Init, Served
  <2>2. \A t : Values(rows, Served(rows, t)) = <<>>
    BY <2>1, EmptyPage
  <2> QED BY <2>2 DEF Init, Promise!Init, Promise!NoPage
<1>2. ASSUME SeedInv, Commit
      PROVE  \E p \in Payloads : Promise!WellFormed(p) /\ Promise!Publish(p)
  <2>1. PICK p : p = seed.payload
    OBVIOUS
  <2>2. PICK tables : tables = rows
    OBVIOUS
  <2>3. Sound(p) /\ GoodCatalog(tables)
    BY <1>2, <2>1, <2>2 DEF Commit, SeedInv, Underway
  <2>4. /\ rows' = Seeded(tables, p)
        /\ compositions' = ComposedFor(compositions, p, TeamsOf(p))
    BY <1>2, <2>1, <2>2 DEF Commit, SeedInv, Underway, Progress
  <2>5. PICK new : new = Seeded(tables, p)
    OBVIOUS
  <2>6. ASSUME NEW t \in Teams
        PROVE  PageOf(new, t) =
                 CASE t \in Promise!TeamsOf(p) -> Promise!Page(p, t)
                   [] t \notin Promise!TeamsOf(p) /\ p.skipped -> PageOf(tables, t)
                   [] OTHER -> <<>>
    <3>1. CASE t \in TeamsOf(p)
      BY <2>3, <2>5, <3>1, PageIsPublished, PromisedPayload
    <3>2. CASE t \notin TeamsOf(p) /\ p.skipped
      BY <2>3, <2>5, <3>2, PageIsLeft, PromisedPayload
    <3>3. CASE t \notin TeamsOf(p) /\ ~p.skipped
      BY <2>3, <2>5, <3>3, PageIsTaken, PromisedPayload
    <3> QED BY <3>1, <3>2, <3>3
  <2>7. compositions' = [t \in Teams |-> Promise!Composed(p, t, compositions[t])]
    <3>1. DOMAIN p.compositions \subseteq TeamsOf(p)
      BY <2>3 DEF Sound, Nested
    <3>2. \A t \in Teams : (IF t \in TeamsOf(p) THEN Composed(p, t, compositions[t])
                            ELSE compositions[t]) = Composed(p, t, compositions[t])
      BY <3>1 DEF Composed
    <3> QED BY <2>4, <3>2, PromisedPayload DEF ComposedFor
  <2>8. Promise!Publish(p)
    <3>1. [t \in Teams |-> Values(rows', Served(rows', t))]
            = [t \in Teams |->
                 CASE t \in Promise!TeamsOf(p) -> Promise!Page(p, t)
                   [] t \notin Promise!TeamsOf(p) /\ p.skipped ->
                        [u \in Teams |-> Values(rows, Served(rows, u))][t]
                   [] OTHER -> <<>>]
      BY <2>2, <2>4, <2>5, <2>6 DEF PageOf
    <3> QED BY <2>7, <3>1 DEF Promise!Publish, Promise!NoPage
  <2> QED BY <2>3, <2>8, PromisedPayload DEF Sound
<1>3. SeedInv /\ [Next]_vars =>
        [\E p \in Payloads : Promise!WellFormed(p) /\ Promise!Publish(p)]_<<Pages(rows), compositions>>
  <2>1. ASSUME [Next]_vars, ~Commit PROVE UNCHANGED <<rows, compositions>>
    BY <2>1
    DEF Next, Seeding, Reading, vars, Start, SeedTeam, SeedUniversals, SweepTop, Fail, Wrote,
        ReadTeam, ReadOperatives, ReadProfiles, ReadPloys, ReadRules, Reads,
        CopyTeamPloys, CopyCards, CopyProfiles, CopyUniversals, Copies
  <2>2. UNCHANGED <<rows, compositions>> => UNCHANGED <<Pages(rows), compositions>>
    BY DEF Pages, Values, Served, Live
  <2> QED BY <1>2, <2>1, <2>2
<1> QED
  BY <1>1, <1>3, SeedInvariance, PTL DEF Spec, CatalogIsWhatWasPublished, Promise!Spec, Pages

-----------------------------------------------------------------------------
(* The creation of a battle, and the types *)

(* Parents, flags and factions are those of a good catalog; a copy keeps   *)
(* the operatives it has copied, and their profiles once it has those.     *)
BattleInv ==
  /\ DOMAIN past = {"page", "battle"}
  /\ battle.pc \in {"start", "cards", "profiles", "universals", "created"}
  /\ battle.pc # "start" => Rostered \subseteq DOMAIN rows /\ past.battle # {}
  /\ battle.pc \in {"start", "cards"} => DOMAIN battle.cards = {}
  /\ battle.pc = "profiles" => DOMAIN battle.cards = Rostered
  /\ battle.pc \in {"universals", "created"} =>
       Rostered \subseteq DOMAIN battle.cards /\ Armed(battle.cards)

(* The rows of operatives are their profiles. *)
LEMMA ChildrenAreProfiles ==
  ASSUME NEW tables, GoodCatalog(tables), NEW operatives,
         \A k \in operatives : k \in DOMAIN tables /\ Table(k) = "operative"
  PROVE  /\ \A w \in ChildrenOf(tables, operatives) : Table(w) = "weapon"
         /\ \A k \in operatives \cap Profiled :
              \E w \in ProfileOf(k, ChildrenOf(tables, operatives)) : Live(tables, w)
<1>1. ASSUME NEW w \in ChildrenOf(tables, operatives) PROVE Table(w) = "weapon"
  BY DEF ChildrenOf, GoodCatalog, Hangs
<1>2. ASSUME NEW k \in operatives \cap Profiled
      PROVE  \E w \in ProfileOf(k, ChildrenOf(tables, operatives)) : Live(tables, w)
  <2>1. PICK w \in ProfileOf(k, DOMAIN tables) : ~tables[w].withdrawn
    BY DEF GoodCatalog
  <2> QED BY <2>1 DEF ProfileOf, ChildrenOf, Live
<1> QED BY <1>1, <1>2

LEMMA CommitGrows ==
  ASSUME SeedInv, Commit
  PROVE  /\ DOMAIN rows \subseteq DOMAIN rows'
         /\ DOMAIN past' = DOMAIN past
         /\ \A who \in DOMAIN past : past[who] \subseteq past'[who]
         /\ \A who \in DOMAIN past : past[who] # {} =>
              past'[who] = past[who] \cup {[rows |-> rows', compositions |-> compositions']}
<1>1. rows' = Seeded(rows, seed.payload)
  BY DEF Commit, SeedInv, Underway, Progress
<1>2. DOMAIN rows \subseteq DOMAIN rows'
  BY <1>1 DEF Seeded, Brought
<1> QED BY <1>2 DEF Commit

LEMMA BattleNext == SeedInv /\ BattleInv /\ [Next]_vars => BattleInv'
<1> SUFFICES ASSUME SeedInv, BattleInv, [Next]_vars PROVE BattleInv'
  OBVIOUS
<1>1. GoodCatalog(rows)
  BY DEF SeedInv
<1>2. CASE Commit
  <2>1. UNCHANGED battle
    BY <1>2 DEF Commit
  <2> QED BY <1>2, <2>1, CommitGrows DEF BattleInv, Armed
<1>3. CASE UNCHANGED <<rows, battle, past>>
  BY <1>3 DEF BattleInv, Armed
<1>4. ASSUME NEW t \in Teams, ReadTeam(t) PROVE BattleInv'
  BY <1>4 DEF ReadTeam, BattleInv, Armed
<1>5. CASE CopyTeamPloys
  <2>1. DOMAIN battle'.cards = DOMAIN battle.cards
    BY <1>5 DEF CopyTeamPloys, Copies, Union, Values
  <2> QED BY <1>5, <2>1 DEF BattleInv, CopyTeamPloys, Copies
<1>6. CASE CopyCards
  <2>1. battle'.cards = Union(battle.cards, Values(rows, Rostered)) /\ battle'.pc = "profiles"
        /\ battle.pc = "cards" /\ UNCHANGED <<rows, past>>
    BY <1>6 DEF CopyCards, Copies, RosterCards
  <2>2. DOMAIN battle'.cards = DOMAIN battle.cards \cup Rostered
    BY <2>1 DEF Union, Values
  <2> QED BY <1>6, <2>1, <2>2 DEF BattleInv
<1>7. CASE CopyProfiles
  <2> DEFINE profiles == ChildrenOf(rows, Rostered)
  <2>1. battle.pc = "profiles" /\ DOMAIN battle.cards = Rostered /\ Rostered \subseteq DOMAIN rows
    BY <1>7 DEF CopyProfiles, BattleInv
  <2>2. battle'.cards = Union(battle.cards, Values(rows, profiles)) /\ battle'.pc = "universals"
        /\ UNCHANGED <<rows, past>>
    BY <1>7, <2>1 DEF CopyProfiles, Copies
  <2>3. DOMAIN battle'.cards = Rostered \cup profiles
    <3> HIDE DEF profiles
    <3> QED BY <2>1, <2>2 DEF Union, Values
  <2>4. /\ \A w \in profiles : Table(w) = "weapon"
        /\ \A k \in Rostered \cap Profiled : \E w \in ProfileOf(k, profiles) : Live(rows, w)
    BY <1>1, <2>1, RosterAssumption, ChildrenAreProfiles
  <2>5. \A k \in Profiled : Table(k) = "operative"
    BY DEF Profiled
  <2>6. Armed(battle'.cards)
    BY <2>3, <2>4, <2>5 DEF Armed, ProfileOf
  <2>7. Armed(battle.cards)'
    BY <2>6 DEF Armed
  <2> QED BY <2>1, <2>2, <2>3, <2>7 DEF BattleInv
<1>8. CASE CopyUniversals
  <2>1. DOMAIN battle'.cards = DOMAIN battle.cards
    BY <1>8 DEF CopyUniversals, Copies, Union, Values
  <2> QED BY <1>8, <2>1 DEF BattleInv, CopyUniversals, Copies, Armed
<1> QED
  BY <1>2, <1>3, <1>4, <1>5, <1>6, <1>7, <1>8
  DEF Next, Seeding, Reading, vars, Start, SeedTeam, SeedUniversals, SweepTop, Fail, Wrote,
      ReadOperatives, ReadProfiles, ReadPloys, ReadRules, Reads

LEMMA BattleInvariance == Spec => []BattleInv
<1>1. Init => BattleInv
  BY DEF Init, BattleInv
<1> QED BY <1>1, BattleNext, SeedInvariance, PTL DEF Spec

(* A battle fields its roster, with profiles, whatever the source has      *)
(* withdrawn (create_game).                                                *)
THEOREM BattlesFieldTheirRoster == Spec => []BattleFieldsTheRoster
<1>1. BattleInv => BattleFieldsTheRoster
  BY DEF BattleInv, BattleFieldsTheRoster
<1> QED BY <1>1, BattleInvariance, PTL

-----------------------------------------------------------------------------
(* The read of a page.  Whatever it has seen, some catalog committed since *)
(* it began served as it was seen; and what it has yet to look for is what *)
(* such a catalog has of it: a run that does not name the team, or the     *)
(* operative, does not touch what it owns.                                 *)

Due(pc) ==
  {"team"} \cup (IF pc # "operatives" THEN {"operative"} ELSE {})
           \cup (IF pc \notin {"operatives", "profiles"} THEN {"weapon"} ELSE {})
           \cup (IF pc \in {"rules", "served"} THEN {"ploy"} ELSE {})

Honest(pg, cats) ==
  \A k \in DOMAIN pg.seen : \E c \in cats : k \in Served(c.rows, pg.team) /\ c.rows[k].value = pg.seen[k]

Complete(pg, cats) ==
  \A k : (Table(k) \in Due(pg.pc) /\ \A c \in cats : k \in Served(c.rows, pg.team)) => k \in DOMAIN pg.seen

(* What `tables` have below `parent` was there when `parent` was served.   *)
TeamStands(t, cats, tables) ==
  \E c \in cats : /\ Live(c.rows, t)
                  /\ \A k \in DOMAIN tables : (Within(k, t) /\ k # t) =>
                       k \in DOMAIN c.rows /\ c.rows[k] = tables[k]

CardStands(o, t, cats, tables) ==
  \E c \in cats : /\ o \in Served(c.rows, t)
                  /\ \A w \in DOMAIN tables : Owner(w) = o =>
                       w \in DOMAIN c.rows /\ c.rows[w] = tables[w]

PageGood(pg, cats, tables, comps) ==
  /\ DOMAIN pg = {"pc", "team", "seen", "rules"}
  /\ pg.pc \in {"start", "operatives", "profiles", "ploys", "rules", "served"}
  /\ pg.pc # "start" =>
       /\ pg.team \in Teams
       /\ [rows |-> tables, compositions |-> comps] \in cats
       /\ \A c \in cats : GoodCatalog(c.rows) /\ DOMAIN c.rows \subseteq DOMAIN tables
       /\ Honest(pg, cats) /\ Complete(pg, cats)
  /\ pg.pc = "operatives" => DOMAIN pg.seen = {pg.team}
  /\ pg.pc \in {"operatives", "profiles", "ploys"} => TeamStands(pg.team, cats, tables)
  /\ pg.pc = "profiles" =>
       \A o \in DOMAIN pg.seen : Table(o) = "operative" => CardStands(o, pg.team, cats, tables)
  /\ pg.pc \in {"ploys", "rules", "served"} => Armed(pg.seen)
  /\ pg.pc = "served" => \E c \in cats : c.compositions[pg.team] = pg.rules

PageInv == PageGood(page, past.page, rows, compositions)

LEMMA TeamStillStands ==
  ASSUME NEW tables, GoodCatalog(tables), NEW p, Sound(p), NEW new, new = Seeded(tables, p),
         NEW t \in Teams, NEW cats, TeamStands(t, cats, tables), NEW newest, newest.rows = new
  PROVE  TeamStands(t, cats \cup {newest}, new)
<1>1. SeededFrom(tables, p, new)
  BY SeededRows
<1>2. CASE t \in TeamsOf(p)
  <2>1. Live(new, t)
    BY <1>1, <1>2 DEF SeededFrom, Live, TeamsOf
  <2> QED BY <2>1 DEF TeamStands
<1>3. CASE t \notin TeamsOf(p)
  <2>1. \A k \in DOMAIN new : (Within(k, t) /\ k # t) => k \in DOMAIN tables /\ new[k] = tables[k]
    BY <1>3, OthersUntouched
  <2> QED BY <2>1 DEF TeamStands
<1> QED BY <1>2, <1>3

LEMMA ServedOperative ==
  ASSUME NEW tables, GoodCatalog(tables), NEW t \in Teams, NEW o \in Served(tables, t),
         Table(o) = "operative"
  PROVE  Owner(o) = t /\ o # t
<1>1. o \in DOMAIN tables /\ Within(o, t) /\ Table(t) = "team"
  BY TeamsAssumption DEF Served
<1>2. Nobody \notin DOMAIN tables /\ \A x \in DOMAIN tables : Hangs(x, DOMAIN tables)
  BY DEF GoodCatalog
<1> QED BY <1>1, <1>2, WithinTeam

LEMMA CardStillStands ==
  ASSUME NEW tables, GoodCatalog(tables), NEW p, Sound(p), NEW new, new = Seeded(tables, p),
         NEW t \in Teams, NEW cats, \A c \in cats : GoodCatalog(c.rows),
         NEW o, Table(o) = "operative", CardStands(o, t, cats, tables),
         NEW newest, newest.rows = new
  PROVE  CardStands(o, t, cats \cup {newest}, new)
<1>1. SeededFrom(tables, p, new)
  BY SeededRows
<1>2. PICK c \in cats : /\ o \in Served(c.rows, t)
                        /\ \A w \in DOMAIN tables : Owner(w) = o =>
                             w \in DOMAIN c.rows /\ c.rows[w] = tables[w]
  BY DEF CardStands
<1>3. Owner(o) = t /\ o # Nobody
  <2>1. o \in DOMAIN c.rows /\ GoodCatalog(c.rows)
    BY <1>2 DEF Served
  <2> QED BY <1>2, <2>1, ServedOperative DEF GoodCatalog
<1>4. CASE o \in KeysOf(p)
  <2>1. Live(new, o) /\ t \in KeysOf(p)
    BY <1>1, <1>3, <1>4 DEF SeededFrom, Live, Sound, Nested, Hangs
  <2>2. Live(new, t)
    BY <1>1, <2>1 DEF SeededFrom, Live
  <2>3. o \in Served(new, t)
    BY <1>3, <2>1, <2>2 DEF Served, Live, Within
  <2> QED BY <2>3 DEF CardStands
<1>5. CASE o \notin KeysOf(p)
  <2>1. ASSUME NEW w \in DOMAIN new, Owner(w) = o
        PROVE  w \in DOMAIN tables /\ new[w] = tables[w]
    <3>1. w \notin KeysOf(p)
      <4> SUFFICES ASSUME w \in KeysOf(p) PROVE FALSE
        OBVIOUS
      <4>1. Hangs(w, KeysOf(p))
        BY DEF Sound, Nested
      <4> QED BY <1>3, <1>5, <2>1, <4>1 DEF Hangs
    <3>2. w \in DOMAIN tables
      BY <1>1, <3>1 DEF SeededFrom
    <3>3. Hangs(w, DOMAIN tables)
      BY <3>2 DEF GoodCatalog
    <3>4. Table(w) = "weapon"
      BY <1>3, <2>1, <3>3 DEF Hangs
    <3>5. w \notin AllGone(tables, p)
      BY <1>5, <2>1, <3>1, <3>2, <3>4, WhoIsGone DEF TeamsOf
    <3> QED BY <1>1, <3>1, <3>2, <3>5 DEF SeededFrom
  <2> QED BY <1>2, <2>1 DEF CardStands
<1> QED BY <1>4, <1>5

LEMMA PageAtCommit ==
  ASSUME NEW tables, GoodCatalog(tables), NEW p, Sound(p), NEW new, new = Seeded(tables, p),
         NEW comps, NEW newComps, NEW pg, NEW cats, PageGood(pg, cats, tables, comps),
         pg.pc # "start"
  PROVE  PageGood(pg, cats \cup {[rows |-> new, compositions |-> newComps]}, new, newComps)
<1>0. PICK newest : newest = [rows |-> new, compositions |-> newComps]
  OBVIOUS
<1>1. newest = [rows |-> new, compositions |-> newComps] /\ newest.rows = new
  BY <1>0
<1>2. /\ pg.team \in Teams /\ Honest(pg, cats) /\ Complete(pg, cats)
      /\ \A c \in cats : GoodCatalog(c.rows) /\ DOMAIN c.rows \subseteq DOMAIN tables
  BY DEF PageGood
<1>3. DOMAIN tables \subseteq DOMAIN new /\ GoodCatalog(new)
  BY SeededIsGood DEF Seeded, Brought
<1>4. \A c \in cats \cup {newest} : GoodCatalog(c.rows) /\ DOMAIN c.rows \subseteq DOMAIN new
  BY <1>1, <1>2, <1>3
<1>5. Honest(pg, cats \cup {newest}) /\ Complete(pg, cats \cup {newest})
  BY <1>2 DEF Honest, Complete
<1>6. pg.pc \in {"operatives", "profiles", "ploys"} => TeamStands(pg.team, cats \cup {newest}, new)
  BY <1>1, <1>2, TeamStillStands DEF PageGood
<1>7. pg.pc = "profiles" =>
        \A o \in DOMAIN pg.seen : Table(o) = "operative" =>
          CardStands(o, pg.team, cats \cup {newest}, new)
  BY <1>1, <1>2, CardStillStands DEF PageGood
<1>8. pg.pc = "served" => \E c \in cats \cup {newest} : c.compositions[pg.team] = pg.rules
  BY DEF PageGood
<1> QED BY <1>1, <1>2, <1>4, <1>5, <1>6, <1>7, <1>8 DEF PageGood

LEMMA PageBegins ==
  ASSUME NEW tables, GoodCatalog(tables), NEW comps, NEW t \in Teams, Live(tables, t),
         NEW pg, DOMAIN pg = {"pc", "team", "seen", "rules"},
         pg.pc = "operatives", pg.team = t, pg.seen = Values(tables, {t}),
         NEW c, c = [rows |-> tables, compositions |-> comps]
  PROVE  PageGood(pg, {c}, tables, comps)
<1>1. c.rows = tables /\ Table(t) = "team"
  BY TeamsAssumption
<1>2. t \in Served(tables, t)
  BY <1>1 DEF Served, Live, Within
<1>3. DOMAIN pg.seen = {t} /\ pg.seen[t] = tables[t].value
  BY DEF Values
<1>4. Honest(pg, {c})
  BY <1>1, <1>2, <1>3 DEF Honest
<1>5. Complete(pg, {c})
  <2> SUFFICES ASSUME NEW k, Table(k) = "team", k \in Served(tables, t) PROVE k = t
    BY <1>1, <1>3 DEF Complete, Due
  <2>1. k \in DOMAIN tables /\ Within(k, t)
    BY DEF Served
  <2> QED BY <2>1, WithinTeam DEF GoodCatalog
<1>6. TeamStands(t, {c}, tables)
  BY <1>1 DEF TeamStands
<1> QED BY <1>1, <1>3, <1>4, <1>5, <1>6 DEF PageGood

Added(seen, tables, found, more) ==
  /\ DOMAIN more = DOMAIN seen \cup found
  /\ \A k \in DOMAIN seen : more[k] = seen[k]
  /\ \A k \in found \ DOMAIN seen : more[k] = tables[k].value

WereServed(found, tables, t, cats) ==
  \A k \in found : \E c \in cats : k \in Served(c.rows, t) /\ c.rows[k].value = tables[k].value

AllFound(found, due, t, cats) ==
  \A k : (Table(k) \in due /\ \A c \in cats : k \in Served(c.rows, t)) => k \in found

(* What a read adds to a page must have been served by some catalog of its *)
(* time, and be all of its table that every one of them served.            *)
LEMMA PageGoesOn ==
  ASSUME NEW tables, NEW comps, NEW pg, NEW cats, PageGood(pg, cats, tables, comps),
         pg.pc # "start",
         NEW new, new.team = pg.team, NEW found, Added(pg.seen, tables, found, new.seen),
         WereServed(found, tables, pg.team, cats),
         AllFound(found, Due(new.pc) \ Due(pg.pc), pg.team, cats)
  PROVE  /\ DOMAIN new.seen = DOMAIN pg.seen \cup found
         /\ Honest(new, cats) /\ Complete(new, cats)
<1>1. /\ DOMAIN new.seen = DOMAIN pg.seen \cup found
      /\ \A k \in DOMAIN pg.seen : new.seen[k] = pg.seen[k]
      /\ \A k \in found \ DOMAIN pg.seen : new.seen[k] = tables[k].value
  BY DEF Added
<1>2. Honest(pg, cats) /\ Complete(pg, cats)
  BY DEF PageGood
<1>3. Honest(new, cats)
  BY <1>1, <1>2 DEF Honest, WereServed
<1>4. Complete(new, cats)
  BY <1>1, <1>2 DEF Complete, AllFound
<1> QED BY <1>1, <1>3, <1>4

(* The rows that lie right below the team, read when they may be others    *)
(* than those of the catalog the read began with.                          *)
LEMMA ChildrenWereServed ==
  ASSUME NEW tables, GoodCatalog(tables), NEW comps, NEW pg, NEW cats,
         PageGood(pg, cats, tables, comps), pg.pc \in {"operatives", "ploys"},
         NEW table \in {"operative", "ploy"}
  PROVE  /\ WereServed(LiveChildren(tables, pg.team, table), tables, pg.team, cats)
         /\ AllFound(LiveChildren(tables, pg.team, table), {table}, pg.team, cats)
<1> DEFINE t == pg.team
<1>1. t \in Teams /\ Table(t) = "team" /\ TeamStands(t, cats, tables)
  BY TeamsAssumption DEF PageGood
<1>2. ASSUME NEW k \in LiveChildren(tables, t, table)
      PROVE  \E c \in cats : k \in Served(c.rows, t) /\ c.rows[k].value = tables[k].value
  <2>1. /\ k \in DOMAIN tables /\ Owner(k) = t /\ Table(k) = table /\ k # t
        /\ Live(tables, k)
    BY <1>1 DEF LiveChildren, ChildrenOf
  <2>2. PICK c \in cats : /\ Live(c.rows, t)
                          /\ \A x \in DOMAIN tables : (Within(x, t) /\ x # t) =>
                               x \in DOMAIN c.rows /\ c.rows[x] = tables[x]
    BY <1>1 DEF TeamStands
  <2>3. Within(k, t)
    BY <2>1 DEF Within
  <2>4. k \in DOMAIN c.rows /\ c.rows[k] = tables[k]
    BY <2>1, <2>2, <2>3
  <2> QED BY <2>1, <2>2, <2>3, <2>4 DEF Served, Live
<1>3. ASSUME NEW k, Table(k) = table, \A c \in cats : k \in Served(c.rows, t)
      PROVE  k \in LiveChildren(tables, t, table)
  <2>1. PICK c \in cats : c.rows = tables
    BY DEF PageGood
  <2>2. k \in DOMAIN tables /\ Within(k, t) /\ Live(tables, k) /\ k # t
    BY <1>1, <1>3, <2>1 DEF Served
  <2>3. Owner(k) = t
    BY <1>1, <1>3, <2>2, WithinTeam DEF GoodCatalog
  <2> QED BY <1>3, <2>2, <2>3 DEF LiveChildren, ChildrenOf
<1> QED BY <1>2, <1>3 DEF WereServed, AllFound

LEMMA PageReadsOperatives ==
  ASSUME NEW tables, GoodCatalog(tables), NEW comps, NEW pg, NEW cats,
         PageGood(pg, cats, tables, comps), pg.pc = "operatives",
         NEW new, DOMAIN new = DOMAIN pg, new.team = pg.team, new.pc = "profiles",
         new.seen = Union(pg.seen, Values(tables, LiveChildren(tables, pg.team, "operative")))
  PROVE  PageGood(new, cats, tables, comps)
<1> DEFINE t == pg.team
<1>1. PICK found : found = LiveChildren(tables, t, "operative")
  OBVIOUS
<1>2. Due(new.pc) \ Due(pg.pc) = {"operative"}
  BY DEF Due
<1>3. /\ DOMAIN new.seen = DOMAIN pg.seen \cup found
      /\ Honest(new, cats) /\ Complete(new, cats)
  <2>1. WereServed(found, tables, t, cats) /\ AllFound(found, {"operative"}, t, cats)
    BY <1>1, ChildrenWereServed
  <2>2. Added(pg.seen, tables, found, new.seen)
    BY <1>1 DEF Added, Union, Values
  <2> QED BY <1>2, <2>1, <2>2, PageGoesOn
<1>4. t \in Teams /\ Table(t) = "team" /\ TeamStands(t, cats, tables) /\ DOMAIN pg.seen = {t}
  BY TeamsAssumption DEF PageGood
<1>5. ASSUME NEW o \in DOMAIN new.seen, Table(o) = "operative"
      PROVE  CardStands(o, t, cats, tables)
  <2>1. /\ o \in DOMAIN tables /\ Owner(o) = t /\ o # t /\ Live(tables, o) /\ o # Nobody
    BY <1>1, <1>3, <1>4, <1>5 DEF LiveChildren, ChildrenOf, GoodCatalog
  <2>2. PICK c \in cats : /\ Live(c.rows, t)
                          /\ \A x \in DOMAIN tables : (Within(x, t) /\ x # t) =>
                               x \in DOMAIN c.rows /\ c.rows[x] = tables[x]
    BY <1>4 DEF TeamStands
  <2>3. Within(o, t)
    BY <2>1 DEF Within
  <2>4. o \in Served(c.rows, t)
    BY <1>5, <2>1, <2>2, <2>3 DEF Served, Live
  <2>5. ASSUME NEW w \in DOMAIN tables, Owner(w) = o
        PROVE  w \in DOMAIN c.rows /\ c.rows[w] = tables[w]
    <3>1. Within(w, t)
      BY <2>1, <2>5 DEF Within
    <3>2. w # t
      BY <1>4, <2>1, <2>5 DEF GoodCatalog, Hangs
    <3> QED BY <2>2, <3>1, <3>2
  <2> QED BY <2>4, <2>5 DEF CardStands
<1> QED BY <1>3, <1>4, <1>5 DEF PageGood

LEMMA PageReadsProfiles ==
  ASSUME NEW tables, GoodCatalog(tables), NEW comps, NEW pg, NEW cats,
         PageGood(pg, cats, tables, comps), pg.pc = "profiles",
         NEW operatives, operatives = {k \in DOMAIN pg.seen : Table(k) = "operative"},
         NEW new, DOMAIN new = DOMAIN pg, new.team = pg.team, new.pc = "ploys",
         new.seen = Union(pg.seen, Values(tables, LiveProfiles(tables, operatives)))
  PROVE  PageGood(new, cats, tables, comps)
<1> DEFINE t == pg.team
<1>1. PICK found : found = LiveProfiles(tables, operatives)
  OBVIOUS
<1>2. Due(new.pc) \ Due(pg.pc) = {"weapon"} /\ "operative" \in Due(pg.pc)
  BY DEF Due
<1>3. /\ t \in Teams /\ Table(t) = "team" /\ Honest(pg, cats) /\ Complete(pg, cats)
      /\ \A c \in cats : GoodCatalog(c.rows) /\ DOMAIN c.rows \subseteq DOMAIN tables
      /\ [rows |-> tables, compositions |-> comps] \in cats
  BY TeamsAssumption DEF PageGood
<1>4. ASSUME NEW o \in operatives
      PROVE  o \in DOMAIN tables /\ Table(o) = "operative" /\ o # Nobody
  BY <1>3 DEF Honest, Served, GoodCatalog
<1>5. ASSUME NEW w \in found
      PROVE  \E c \in cats : w \in Served(c.rows, t) /\ c.rows[w].value = tables[w].value
  <2>1. w \in DOMAIN tables /\ Owner(w) \in operatives /\ Live(tables, w)
    BY <1>1 DEF LiveProfiles, ChildrenOf
  <2>2. PICK o : o = Owner(w)
    OBVIOUS
  <2>3. CardStands(o, t, cats, tables) /\ Table(o) = "operative" /\ o # Nobody
    BY <1>4, <2>1, <2>2 DEF PageGood
  <2>4. PICK c \in cats : o \in Served(c.rows, t) /\ w \in DOMAIN c.rows /\ c.rows[w] = tables[w]
    BY <2>1, <2>2, <2>3 DEF CardStands
  <2>5. Owner(o) = t
    BY <1>3, <2>3, <2>4, ServedOperative
  <2>6. Within(w, t) /\ Live(c.rows, w)
    BY <2>1, <2>2, <2>3, <2>4, <2>5 DEF Within, Live
  <2> QED BY <2>2, <2>4, <2>6 DEF Served
<1>6. ASSUME NEW w, Table(w) = "weapon", \A c \in cats : w \in Served(c.rows, t)
      PROVE  w \in found
  <2>1. ASSUME NEW c \in cats PROVE Owner(w) \in Served(c.rows, t) /\ Table(Owner(w)) = "operative"
    <3>1. /\ w \in DOMAIN c.rows /\ Within(w, t) /\ Live(c.rows, Owner(w)) /\ Live(c.rows, t)
      BY <1>6 DEF Served
    <3>2. Table(Owner(w)) = "operative" /\ Owner(Owner(w)) = t /\ Owner(w) \in DOMAIN c.rows
      <4>1. Nobody \notin DOMAIN c.rows /\ \A x \in DOMAIN c.rows : Hangs(x, DOMAIN c.rows)
        BY <1>3 DEF GoodCatalog
      <4>2. w # t
        BY <1>3, <1>6
      <4> QED BY <1>3, <1>6, <3>1, <4>1, <4>2, WithinTeam
    <3>3. Within(Owner(w), t)
      BY <3>2 DEF Within
    <3> QED BY <3>1, <3>2, <3>3 DEF Served
  <2>2. PICK c \in cats : c.rows = tables
    BY <1>3
  <2>3. Owner(w) \in operatives
    BY <1>2, <1>3, <2>1, <2>2 DEF Complete
  <2> QED BY <1>1, <1>6, <2>2, <2>3 DEF LiveProfiles, ChildrenOf, Served
<1>7. /\ DOMAIN new.seen = DOMAIN pg.seen \cup found
      /\ Honest(new, cats) /\ Complete(new, cats)
  <2>1. Added(pg.seen, tables, found, new.seen)
    BY <1>1 DEF Added, Union, Values
  <2>2. WereServed(found, tables, t, cats) /\ AllFound(found, {"weapon"}, t, cats)
    BY <1>5, <1>6 DEF WereServed, AllFound
  <2> QED BY <1>2, <2>1, <2>2, PageGoesOn
<1>8. Armed(new.seen)
  <2>1. /\ \A w \in ChildrenOf(tables, operatives) : Table(w) = "weapon"
        /\ \A k \in operatives \cap Profiled :
             \E w \in ProfileOf(k, ChildrenOf(tables, operatives)) : Live(tables, w)
    BY <1>4, ChildrenAreProfiles
  <2>2. \A k \in Profiled : Table(k) = "operative"
    BY DEF Profiled
  <2>3. found = {w \in ChildrenOf(tables, operatives) : Live(tables, w)}
    BY <1>1 DEF LiveProfiles
  <2>4. ASSUME NEW k \in DOMAIN new.seen \cap Profiled PROVE ProfileOf(k, DOMAIN new.seen) # {}
    <3>1. k \in operatives
      BY <1>7, <2>1, <2>2, <2>3
    <3> QED BY <1>7, <2>1, <2>3, <3>1 DEF ProfileOf
  <2> QED BY <2>4 DEF Armed
<1> QED BY <1>3, <1>7, <1>8 DEF PageGood

LEMMA PageReadsPloys ==
  ASSUME NEW tables, GoodCatalog(tables), NEW comps, NEW pg, NEW cats,
         PageGood(pg, cats, tables, comps), pg.pc = "ploys",
         NEW new, DOMAIN new = DOMAIN pg, new.team = pg.team, new.pc = "rules",
         new.seen = Union(pg.seen, Values(tables, LiveChildren(tables, pg.team, "ploy")))
  PROVE  PageGood(new, cats, tables, comps)
<1> DEFINE t == pg.team
<1>1. PICK found : found = LiveChildren(tables, t, "ploy")
  OBVIOUS
<1>2. Due(new.pc) \ Due(pg.pc) = {"ploy"}
  BY DEF Due
<1>3. /\ DOMAIN new.seen = DOMAIN pg.seen \cup found
      /\ Honest(new, cats) /\ Complete(new, cats)
  <2>1. WereServed(found, tables, t, cats) /\ AllFound(found, {"ploy"}, t, cats)
    BY <1>1, ChildrenWereServed
  <2>2. Added(pg.seen, tables, found, new.seen)
    BY <1>1 DEF Added, Union, Values
  <2> QED BY <1>2, <2>1, <2>2, PageGoesOn
<1>4. Armed(new.seen)
  <2>1. \A k \in found : Table(k) = "ploy"
    BY <1>1 DEF LiveChildren
  <2> QED BY <1>3, <2>1 DEF PageGood, Armed, Profiled, ProfileOf
<1> QED BY <1>3, <1>4 DEF PageGood

LEMMA PageReadsRules ==
  ASSUME NEW tables, NEW comps, NEW pg, NEW cats,
         PageGood(pg, cats, tables, comps), pg.pc = "rules",
         NEW new, DOMAIN new = DOMAIN pg, new.team = pg.team, new.pc = "served",
         new.seen = pg.seen, new.rules = comps[pg.team]
  PROVE  PageGood(new, cats, tables, comps)
<1>1. Due(new.pc) = Due(pg.pc)
  BY DEF Due
<1>2. Honest(new, cats) /\ Complete(new, cats) /\ Armed(new.seen)
  BY <1>1 DEF PageGood, Honest, Complete
<1>3. PICK c \in cats : c = [rows |-> tables, compositions |-> comps]
  BY DEF PageGood
<1>4. c.compositions[new.team] = new.rules
  BY <1>3
<1> QED BY <1>2, <1>4 DEF PageGood

LEMMA ReadKeeps ==
  ASSUME SeedInv, BattleInv, PageInv,
         (\E t \in Teams : ReadTeam(t)) \/ ReadOperatives \/ ReadProfiles \/ ReadPloys \/ ReadRules
  PROVE  PageInv'
<1>1. GoodCatalog(rows) /\ PageGood(page, past.page, rows, compositions)
  BY DEF SeedInv, PageInv
<1>2. DOMAIN page = {"pc", "team", "seen", "rules"}
  BY <1>1 DEF PageGood
<1>3. ASSUME NEW t \in Teams, ReadTeam(t) PROVE PageInv'
  <2>1. /\ DOMAIN page' = DOMAIN page /\ page'.pc = "operatives" /\ page'.team = t
        /\ page'.seen = Values(rows, {t}) /\ Live(rows, t) /\ UNCHANGED <<rows, compositions>>
    BY <1>2, <1>3 DEF ReadTeam, LiveTeam
  <2>2. past'.page = {Catalog}
    BY <1>3 DEF ReadTeam, BattleInv
  <2>3. PageGood(page', {Catalog}, rows, compositions)
    BY <1>1, <1>2, <2>1, PageBegins DEF Catalog
  <2> QED BY <2>1, <2>2, <2>3 DEF PageInv
<1>4. CASE ReadOperatives
  <2>1. /\ DOMAIN page' = DOMAIN page /\ page'.pc = "profiles" /\ page'.team = page.team
        /\ page'.seen = Union(page.seen, Values(rows, LiveChildren(rows, page.team, "operative")))
        /\ page.pc = "operatives" /\ UNCHANGED <<rows, compositions, past>>
    BY <1>2, <1>4 DEF ReadOperatives, Reads
  <2>2. PageGood(page', past.page, rows, compositions)
    BY <1>1, <2>1, PageReadsOperatives
  <2> QED BY <2>1, <2>2 DEF PageInv
<1>5. CASE ReadProfiles
  <2>1. PICK operatives : operatives = {k \in DOMAIN page.seen : Table(k) = "operative"}
    OBVIOUS
  <2>2. /\ DOMAIN page' = DOMAIN page /\ page'.pc = "ploys" /\ page'.team = page.team
        /\ page'.seen = Union(page.seen, Values(rows, LiveProfiles(rows, operatives)))
        /\ page.pc = "profiles" /\ UNCHANGED <<rows, compositions, past>>
    BY <1>2, <1>5, <2>1 DEF ReadProfiles, Reads
  <2>3. PageGood(page', past.page, rows, compositions)
    BY <1>1, <2>1, <2>2, PageReadsProfiles
  <2> QED BY <2>2, <2>3 DEF PageInv
<1>6. CASE ReadPloys
  <2>1. /\ DOMAIN page' = DOMAIN page /\ page'.pc = "rules" /\ page'.team = page.team
        /\ page'.seen = Union(page.seen, Values(rows, LiveChildren(rows, page.team, "ploy")))
        /\ page.pc = "ploys" /\ UNCHANGED <<rows, compositions, past>>
    BY <1>2, <1>6 DEF ReadPloys, Reads
  <2>2. PageGood(page', past.page, rows, compositions)
    BY <1>1, <2>1, PageReadsPloys
  <2> QED BY <2>1, <2>2 DEF PageInv
<1>7. CASE ReadRules
  <2>1. /\ DOMAIN page' = DOMAIN page /\ page'.pc = "served" /\ page'.team = page.team
        /\ page'.seen = page.seen /\ page'.rules = compositions[page.team]
        /\ page.pc = "rules" /\ UNCHANGED <<rows, compositions, past>>
    BY <1>2, <1>7 DEF ReadRules
  <2>2. PageGood(page', past.page, rows, compositions)
    BY <1>1, <2>1, PageReadsRules
  <2> QED BY <2>1, <2>2 DEF PageInv
<1> QED BY <1>3, <1>4, <1>5, <1>6, <1>7

LEMMA PageNext == SeedInv /\ BattleInv /\ PageInv /\ [Next]_vars => PageInv'
<1> SUFFICES ASSUME SeedInv, BattleInv, PageInv, [Next]_vars PROVE PageInv'
  OBVIOUS
<1>1. PageGood(page, past.page, rows, compositions) /\ "page" \in DOMAIN past
  BY DEF PageInv, BattleInv
<1>2. CASE Commit
  <2>1. UNCHANGED page
    BY <1>2 DEF Commit
  <2>2. CASE page.pc = "start"
    BY <1>1, <2>1, <2>2 DEF PageInv, PageGood
  <2>3. CASE page.pc # "start"
    <3>1. past.page # {}
      BY <1>1, <2>3 DEF PageGood
    <3>2. past'.page = past.page \cup {[rows |-> rows', compositions |-> compositions']}
      BY <1>1, <1>2, <3>1, CommitGrows
    <3>3. /\ GoodCatalog(rows) /\ Sound(seed.payload) /\ rows' = Seeded(rows, seed.payload)
      BY <1>2 DEF Commit, SeedInv, Underway, Progress
    <3>4. PageGood(page, past'.page, rows', compositions')
      BY <1>1, <2>3, <3>2, <3>3, PageAtCommit
    <3> QED BY <2>1, <3>4 DEF PageInv
  <2> QED BY <2>2, <2>3
<1>3. CASE CopyTeamPloys
  <2>1. past'.page = past.page /\ UNCHANGED <<rows, compositions, page>>
    BY <1>1, <1>3 DEF CopyTeamPloys, Copies
  <2> QED BY <1>1, <2>1 DEF PageInv
<1>4. CASE UNCHANGED <<rows, compositions, page, past>>
  BY <1>4 DEF PageInv
<1> QED
  BY <1>2, <1>3, <1>4, ReadKeeps, TeamsAssumption
  DEF Next, Seeding, Reading, vars, Start, SeedTeam, SeedUniversals, SweepTop, Fail, Wrote,
      CopyCards, CopyProfiles, CopyUniversals, Copies

LEMMA PageInvariance == Spec => [](SeedInv /\ BattleInv /\ PageInv)
<1>1. Init => PageInv
  BY DEF Init, PageInv, PageGood
<1> QED BY <1>1, PageNext, SeedInvariance, BattleInvariance, PTL DEF Spec

-----------------------------------------------------------------------------
(* What is read *)

(* Every row has its parent, a team's faction is a row, and whoever reads  *)
(* has a catalog it began with (the foreign keys of models_killteam.py).   *)
THEOREM TypeCorrect == Spec => []TypeOK
<1>1. SeedInv /\ BattleInv /\ PageInv => TypeOK
  BY DEF SeedInv, BattleInv, PageInv, PageGood, GoodCatalog, IsRow, Hangs, TypeOK
<1> QED BY <1>1, PageInvariance, PTL

(* A page holds nothing that no catalog of its time served, and misses     *)
(* nothing they all served (get_kill_team).                                *)
THEOREM PagesAreOfTheirTime == Spec => []PageIsOfItsTime
<1>1. ASSUME PageInv, page.pc = "served" PROVE PageIsOfItsTime
  <2> DEFINE t == page.team
  <2>1. /\ t \in Teams /\ Table(t) = "team" /\ past.page # {}
        /\ \A c \in past.page : GoodCatalog(c.rows)
        /\ Honest(page, past.page) /\ Complete(page, past.page)
        /\ \E c \in past.page : c.compositions[t] = page.rules
    BY <1>1, TeamsAssumption DEF PageInv, PageGood
  <2>2. ASSUME NEW k, \A c \in past.page : k \in Served(c.rows, t) PROVE k \in DOMAIN page.seen
    <3>1. PICK c \in past.page : GoodCatalog(c.rows) /\ k \in Served(c.rows, t)
      BY <2>1, <2>2
    <3>2. k \in DOMAIN c.rows /\ Within(k, t)
      BY <3>1 DEF Served
    <3>3. Table(k) \in {"team", "ploy", "operative", "weapon"}
      BY <2>1, <3>1, <3>2, WithinTeam DEF GoodCatalog
    <3>4. Table(k) \in Due(page.pc)
      BY <1>1, <3>3 DEF Due
    <3> QED BY <2>1, <2>2, <3>4 DEF Complete
  <2> QED BY <2>1, <2>2 DEF PageIsOfItsTime, Honest
<1>2. PageInv => PageIsOfItsTime
  BY <1>1 DEF PageIsOfItsTime
<1> QED BY <1>2, PageInvariance, PTL

(* No datacard is served without its profiles: _seed_operatives sweeps     *)
(* those of the operatives the payload names, and of no other.             *)
THEOREM CardsAreWhole == Spec => []CardsComeWhole
<1>1. PageInv => CardsComeWhole
  BY DEF PageInv, PageGood, CardsComeWhole
<1> QED BY <1>1, PageInvariance, PTL
=============================================================================
