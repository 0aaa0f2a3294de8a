--------------------------- MODULE CollectionProofs ---------------------------
(***************************************************************************)
(* What locks and constraints keep true of the army builder's tables, for  *)
(* any number of requests and whatever is in the tables to begin with.     *)
(***************************************************************************)
EXTENDS CollectionRequests, FiniteSetTheorems, SequenceTheorems, TLAPS

-----------------------------------------------------------------------------
(* Tables *)

Good(d) ==
  /\ d = [i \in DOMAIN d |-> d[i]] /\ IsFiniteSet(DOMAIN d) /\ None \notin DOMAIN d
  /\ Typed(d) /\ Resolved(d) /\ KeysDiffer(d)

(* The columns no operation rewrites. *)
Steady(table) == UniqueKey[table] \cup (Schema[table] \cap {"table", "owner_user_id"})

LEMMA SchemaFacts ==
  /\ DOMAIN UniqueKey = DOMAIN Schema
  /\ \A table \in DOMAIN Schema : UniqueKey[table] \subseteq Schema[table] /\ "table" \in Schema[table]
  /\ \A c \in DOMAIN Refers :
       Refers[c] \in {"users", "factions", "subfactions", "armies", "units", "weapons"}
  /\ \A table \in DOMAIN Schema : \A c \in Schema[table] :
       <<table, c>> \in Cascades => c \in Steady(table) /\ c # "subfaction_id"
BY DEF Schema, UniqueKey, Refers, Cascades, Steady

(* A row named is there, and of the table its column refers to.            *)
LEMMA NamedRows ==
  ASSUME NEW d, NEW row, Resolves(d, row), NEW n \in Names(row)
  PROVE  /\ n \in DOMAIN d /\ n # None
         /\ d[n].table \in {"users", "factions", "subfactions", "armies", "units", "weapons"}
<1>1. PICK c \in Columns(row) : n = row[c] /\ n # None
  BY DEF Names
<1>2. n \in Of(d, Refers[c])
  BY <1>1 DEF Resolves
<1> QED BY <1>1, <1>2, SchemaFacts DEF Of, Columns

(* Rows that agree on what is steady have the same key. *)
LEMMA KeysAreSteady ==
  ASSUME NEW p, NEW q, IsRow(p), IsRow(q), p.table = q.table,
         \A c \in Steady(p.table) : p[c] = q[c]
  PROVE  /\ Key(p) = Key(q) /\ KeyLocks(p) = KeyLocks(q)
         /\ \A row : (SameKey(row, p) <=> SameKey(row, q)) /\ (SameKey(p, row) <=> SameKey(q, row))
<1>1. Key(p) = Key(q)
  BY DEF Key, Steady
<1> QED BY <1>1 DEF KeyLocks, Keyed, SameKey

LEMMA SameKeyLocks ==
  ASSUME NEW p, NEW q, SameKey(p, q)
  PROVE  KeyLocks(p) = KeyLocks(q) /\ KeyLocks(p) # {} /\ SameKey(q, p)
BY DEF SameKey, KeyLocks, Keyed

-----------------------------------------------------------------------------
(* What a transaction has written *)

(* It holds the locks that keep others from what its statements relied on: *)
(* the rows it changed, the keys it took, the rows it names.               *)
Wrote(d, r, t, i) ==
  /\ IsRow(t.wrote[i])
  /\ i \in DOMAIN d =>
       /\ <<"row", i>> \in t.locks /\ t.wrote[i].table = d[i].table
       /\ \A c \in Steady(d[i].table) : t.wrote[i][c] = d[i][c]
       /\ Names(t.wrote[i]) \subseteq Names(d[i]) \cup {n \in DOMAIN d : <<"id", n>> \in t.shares}
  /\ i \notin DOMAIN d =>
       /\ \E n \in Nat : i = NewId(r, n)
       /\ KeyLocks(t.wrote[i]) \subseteq t.locks
       /\ \A n \in Names(t.wrote[i]) : <<"id", n>> \in t.shares

WritesNone(t) == DOMAIN t.wrote = {}

Granted(d, r, t) ==
  /\ t.wrote = [i \in DOMAIN t.wrote |-> t.wrote[i]]
  /\ \A i \in DOMAIN t.wrote : Wrote(d, r, t, i)
  /\ \A i \in t.gone : i \in DOMAIN d /\ {<<"row", i>>, <<"id", i>>} \subseteq t.locks
  /\ t.gone = {} \/ DOMAIN t.wrote = {}
  /\ Resolved(Overlay(d, t.wrote, t.gone)) /\ KeysDiffer(Overlay(d, t.wrote, t.gone))

Covers(v, d, wrote, gone) ==
  /\ v = [i \in DOMAIN v |-> v[i]]
  /\ DOMAIN v = (DOMAIN d \cup DOMAIN wrote) \ gone
  /\ \A i \in DOMAIN v :
       /\ i \in DOMAIN wrote => v[i] = wrote[i]
       /\ i \notin DOMAIN wrote => i \in DOMAIN d /\ v[i] = d[i]

LEMMA OverlayFacts ==
  ASSUME NEW d, NEW wrote, NEW gone
  PROVE  Covers(Overlay(d, wrote, gone), d, wrote, gone)
BY DEF Overlay, Covers

(* A table a transaction has written is as good as it was. *)
LEMMA WrittenIsGood ==
  ASSUME NEW d, Good(d), NEW r \in Requests, NEW t, Granted(d, r, t), IsFiniteSet(DOMAIN t.wrote)
  PROVE  Good(Overlay(d, t.wrote, t.gone))
<1>1. PICK v : v = Overlay(d, t.wrote, t.gone)
  OBVIOUS
<1>2. /\ v = [i \in DOMAIN v |-> v[i]]
      /\ DOMAIN v = (DOMAIN d \cup DOMAIN t.wrote) \ t.gone
      /\ \A i \in DOMAIN v :
           /\ i \in DOMAIN t.wrote => v[i] = t.wrote[i]
           /\ i \notin DOMAIN t.wrote => i \in DOMAIN d /\ v[i] = d[i]
  <2>1. Covers(v, d, t.wrote, t.gone)
    BY <1>1, OverlayFacts
  <2> QED BY <2>1 DEF Covers
<1>3. IsFiniteSet(DOMAIN v)
  <2>1. IsFiniteSet(DOMAIN d \cup DOMAIN t.wrote)
    BY FS_Union DEF Good
  <2> QED BY <1>2, <2>1, FS_Subset
<1>4. Typed(v)
  BY <1>2 DEF Typed, Good, Granted, Wrote
<1>5. None \notin DOMAIN v
  <2> SUFFICES ASSUME None \in DOMAIN v PROVE FALSE
    OBVIOUS
  <2>1. None \notin DOMAIN d /\ None \in DOMAIN t.wrote
    BY <1>2 DEF Good
  <2>2. Wrote(d, r, t, None)
    BY <2>1 DEF Granted
  <2>3. PICK n \in Nat : None = <<r, n>>
    BY <2>1, <2>2 DEF Wrote, NewId
  <2> QED BY <2>3, IdsAssumption
<1> QED BY <1>1, <1>2, <1>3, <1>4, <1>5 DEF Good, Granted

(* How a table moves when a transaction commits. *)
Becomes(d, q, t, new) ==
  /\ \A i \in DOMAIN d \cap DOMAIN new :
       /\ IsRow(new[i]) /\ new[i].table = d[i].table
       /\ \A c \in Steady(d[i].table) : new[i][c] = d[i][c]
       /\ i \notin DOMAIN t.wrote => new[i] = d[i]
       /\ Names(new[i]) \subseteq Names(d[i]) \cup {n \in DOMAIN d : <<"id", n>> \in t.shares}
  /\ \A i \in DOMAIN new \ DOMAIN d :
       /\ i \in DOMAIN t.wrote /\ new[i] = t.wrote[i] /\ \E n \in Nat : i = NewId(q, n)
       /\ KeyLocks(new[i]) \subseteq t.locks
       /\ \A n \in Names(new[i]) : <<"id", n>> \in t.shares
  /\ \A i \in DOMAIN d \ DOMAIN new : i \in t.gone

LEMMA CommitBecomes ==
  ASSUME NEW d, Good(d), NEW q, NEW t, Granted(d, q, t),
         NEW new, new = Overlay(d, t.wrote, t.gone)
  PROVE  Becomes(d, q, t, new)
<1>1. Covers(new, d, t.wrote, t.gone)
  BY OverlayFacts
<1>2. \A i \in DOMAIN d : IsRow(d[i])
  BY DEF Good, Typed
<1>3. /\ \A i \in DOMAIN t.wrote : Wrote(d, q, t, i)
      /\ \A i \in t.gone : i \in DOMAIN d
  BY DEF Granted
<1>4. ASSUME NEW i \in DOMAIN d \cap DOMAIN new
      PROVE  /\ IsRow(new[i]) /\ new[i].table = d[i].table
             /\ \A c \in Steady(d[i].table) : new[i][c] = d[i][c]
             /\ i \notin DOMAIN t.wrote => new[i] = d[i]
             /\ Names(new[i]) \subseteq Names(d[i]) \cup {n \in DOMAIN d : <<"id", n>> \in t.shares}
  <2>1. CASE i \in DOMAIN t.wrote
    BY <1>1, <1>3, <2>1 DEF Covers, Wrote
  <2>2. CASE i \notin DOMAIN t.wrote
    BY <1>1, <1>2, <2>2 DEF Covers
  <2> QED BY <2>1, <2>2
<1>5. ASSUME NEW i \in DOMAIN new \ DOMAIN d
      PROVE  /\ i \in DOMAIN t.wrote /\ new[i] = t.wrote[i] /\ \E n \in Nat : i = NewId(q, n)
             /\ KeyLocks(new[i]) \subseteq t.locks
             /\ \A n \in Names(new[i]) : <<"id", n>> \in t.shares
  BY <1>1, <1>3 DEF Covers, Wrote
<1>6. \A i \in DOMAIN d \ DOMAIN new : i \in t.gone
  BY <1>1 DEF Covers
<1> QED BY <1>4, <1>5, <1>6 DEF Becomes

Apart(s, t) ==
  s.locks \cap (t.locks \cup t.shares) = {} /\ t.locks \cap (s.locks \cup s.shares) = {}

(* What a transaction holds does not move when another commits.            *)
LEMMA HeldStays ==
  ASSUME NEW d, Good(d), NEW q, NEW s, Granted(d, q, s), NEW t, Apart(s, t),
         NEW new, new = Overlay(d, s.wrote, s.gone)
  PROVE  /\ \A i \in DOMAIN d : <<"row", i>> \in t.locks => i \in DOMAIN new /\ new[i] = d[i]
         /\ \A i \in DOMAIN d : <<"id", i>> \in t.locks \cup t.shares => i \in DOMAIN new
<1>1. Covers(new, d, s.wrote, s.gone)
  BY OverlayFacts
<1>2. \A i \in DOMAIN d : i \in DOMAIN s.wrote => <<"row", i>> \in s.locks
  BY DEF Granted, Wrote
<1>3. \A i \in s.gone : {<<"row", i>>, <<"id", i>>} \subseteq s.locks
  BY DEF Granted
<1> QED BY <1>1, <1>2, <1>3 DEF Covers, Apart

LEMMA OthersCommit ==
  ASSUME NEW d, Good(d), NEW q \in Requests, NEW r \in Requests, q # r, NEW s, Granted(d, q, s),
         NEW t, Granted(d, r, t), Apart(s, t),
         NEW new, new = Overlay(d, s.wrote, s.gone)
  PROVE  Granted(new, r, t)
<1>1. Becomes(d, q, s, new)
  BY CommitBecomes
<1>2. /\ \A i \in DOMAIN d : <<"row", i>> \in t.locks => i \in DOMAIN new /\ new[i] = d[i]
      /\ \A i \in DOMAIN d : <<"id", i>> \in t.locks \cup t.shares => i \in DOMAIN new
  BY HeldStays
<1>3. Resolved(new) /\ KeysDiffer(new)
  BY DEF Granted
<1>4. PICK mine : mine = Overlay(d, t.wrote, t.gone)
  OBVIOUS
<1>5. Covers(mine, d, t.wrote, t.gone) /\ Resolved(mine) /\ KeysDiffer(mine)
  <2>1. Covers(mine, d, t.wrote, t.gone)
    BY <1>4, OverlayFacts
  <2> QED BY <1>4, <2>1 DEF Granted
<1>6. PICK v : v = Overlay(new, t.wrote, t.gone)
  OBVIOUS
<1>7. Covers(v, new, t.wrote, t.gone)
  BY <1>6, OverlayFacts
<1>8. t.gone = {} \/ DOMAIN t.wrote = {}
  BY DEF Granted
<1>9. ASSUME NEW i \in DOMAIN t.wrote PROVE Wrote(new, r, t, i)
  <2>1. Wrote(d, r, t, i)
    BY DEF Granted
  <2>2. CASE i \in DOMAIN d
    BY <1>2, <2>1, <2>2 DEF Wrote
  <2>3. CASE i \notin DOMAIN d
    <3>1. i \notin DOMAIN new
      BY <1>1, <2>1, <2>3 DEF Becomes, Wrote, NewId
    <3> QED BY <2>1, <2>3, <3>1 DEF Wrote
  <2> QED BY <2>2, <2>3
<1>10. \A i \in t.gone : i \in DOMAIN new /\ {<<"row", i>>, <<"id", i>>} \subseteq t.locks
  BY <1>2 DEF Granted
<1>11. ASSUME NEW i \in DOMAIN new \cap DOMAIN v PROVE v[i].table = new[i].table
  BY <1>7, <1>9 DEF Covers, Wrote
<1>12. Resolved(v)
  <2> SUFFICES ASSUME NEW k \in DOMAIN v, NEW c \in Columns(v[k]),
                      ~(c = "subfaction_id" /\ v[k][c] = None)
               PROVE  v[k][c] \in Of(v, Refers[c])
    BY DEF Resolved, Resolves
  <2>0. PICK n : n = v[k][c]
    OBVIOUS
  <2>1. CASE k \in DOMAIN t.wrote
    <3>1. t.gone = {} /\ v[k] = t.wrote[k] /\ k \in DOMAIN mine /\ mine[k] = t.wrote[k]
      BY <1>5, <1>7, <1>8, <2>1 DEF Covers
    <3>2. n \in Of(mine, Refers[c]) /\ (n # None => n \in Names(t.wrote[k]))
      BY <1>5, <2>0, <3>1 DEF Resolved, Resolves, Names
    <3>3. CASE n \in DOMAIN t.wrote
      BY <1>5, <1>7, <2>0, <3>1, <3>2, <3>3 DEF Covers, Of
    <3>4. CASE n \notin DOMAIN t.wrote
      <4>1. n \in DOMAIN d /\ d[n].table = Refers[c]
        BY <1>5, <3>2, <3>4 DEF Covers, Of
      <4>2. n \in DOMAIN new
        <5>1. CASE n \in DOMAIN d /\ <<"id", n>> \in t.shares
          BY <1>2, <5>1
        <5>2. CASE k \in DOMAIN d /\ n \in Names(d[k])
          <6>1. k \in DOMAIN new /\ new[k] = d[k]
            BY <1>2, <2>1, <5>2 DEF Granted, Wrote
          <6>2. Resolves(new, d[k])
            BY <1>3, <6>1 DEF Resolved
          <6> QED BY <5>2, <6>2, NamedRows
        <5>3. n # None
          BY <4>1 DEF Good
        <5> QED BY <2>1, <3>2, <4>1, <5>1, <5>2, <5>3 DEF Granted, Wrote
      <4>3. new[n].table = Refers[c] /\ n \in DOMAIN v
        BY <1>1, <1>7, <3>1, <4>1, <4>2 DEF Becomes, Covers
      <4> QED BY <1>11, <2>0, <4>2, <4>3 DEF Of
    <3> QED BY <3>3, <3>4
  <2>2. CASE k \notin DOMAIN t.wrote
    <3>1. k \in DOMAIN new /\ k \notin t.gone /\ v[k] = new[k]
      BY <1>7, <2>2 DEF Covers
    <3>2. n \in DOMAIN new /\ new[n].table = Refers[c] /\ n \in Names(new[k])
      <4>1. n \in Of(new, Refers[c])
        BY <1>3, <2>0, <3>1 DEF Resolved, Resolves
      <4>2. None \notin DOMAIN new
        BY <1>1, IdsAssumption DEF Becomes, Good, NewId
      <4> QED BY <2>0, <3>1, <4>1, <4>2 DEF Of, Names
    <3>3. n \notin t.gone
      <4> SUFFICES ASSUME n \in t.gone PROVE FALSE
        OBVIOUS
      <4>1. n \in DOMAIN d /\ <<"id", n>> \in t.locks
        BY DEF Granted
      <4>2. <<"id", n>> \notin s.shares
        BY <4>1 DEF Apart
      <4>3. k \in DOMAIN d /\ n \in Names(d[k])
        BY <1>1, <3>1, <3>2, <4>2 DEF Becomes
      <4>4. k \in DOMAIN mine /\ mine[k] = d[k]
        BY <1>5, <2>2, <3>1, <4>3 DEF Covers
      <4>5. Resolves(mine, d[k])
        BY <1>5, <4>4 DEF Resolved
      <4>6. n \in DOMAIN mine
        BY <4>3, <4>5, NamedRows
      <4> QED BY <1>5, <4>6 DEF Covers
    <3>4. n \in DOMAIN v
      BY <1>7, <3>2, <3>3 DEF Covers
    <3> QED BY <1>11, <2>0, <3>2, <3>4 DEF Of
  <2> QED BY <2>1, <2>2
<1>13. KeysDiffer(v)
  <2>1. ASSUME NEW i \in DOMAIN v, NEW k \in DOMAIN v, SameKey(v[i], v[k]),
               i \in DOMAIN t.wrote, k \notin DOMAIN t.wrote
        PROVE  FALSE
    <3>1. /\ t.gone = {} /\ v[i] = t.wrote[i] /\ i \in DOMAIN mine /\ mine[i] = t.wrote[i]
          /\ k \in DOMAIN new /\ v[k] = new[k] /\ Wrote(d, r, t, i)
      BY <1>5, <1>7, <1>8, <2>1 DEF Covers, Granted
    <3>2. CASE k \in DOMAIN d
      <4>1. k \in DOMAIN mine /\ mine[k] = d[k]
        BY <1>5, <2>1, <3>1, <3>2 DEF Covers
      <4>2. /\ IsRow(new[k]) /\ IsRow(d[k]) /\ new[k].table = d[k].table
            /\ \A c \in Steady(d[k].table) : d[k][c] = new[k][c]
        BY <1>1, <3>1, <3>2 DEF Becomes, Good, Typed
      <4>3. SameKey(mine[i], mine[k])
        BY <2>1, <3>1, <4>1, <4>2, KeysAreSteady
      <4> QED BY <1>5, <2>1, <3>1, <4>1, <4>3 DEF KeysDiffer
    <3>3. CASE k \notin DOMAIN d /\ i \notin DOMAIN d
      <4>1. KeyLocks(new[k]) \subseteq s.locks /\ KeyLocks(t.wrote[i]) \subseteq t.locks
        BY <1>1, <3>1, <3>3 DEF Becomes, Wrote
      <4>2. KeyLocks(new[k]) = KeyLocks(t.wrote[i]) /\ KeyLocks(new[k]) # {}
        BY <2>1, <3>1, SameKeyLocks
      <4> QED BY <4>1, <4>2 DEF Apart
    <3>4. CASE k \notin DOMAIN d /\ i \in DOMAIN d
      <4>1. i \in DOMAIN new /\ new[i] = d[i]
        BY <1>2, <3>1, <3>4 DEF Wrote
      <4>2. /\ IsRow(t.wrote[i]) /\ IsRow(d[i]) /\ t.wrote[i].table = d[i].table
            /\ \A c \in Steady(d[i].table) : d[i][c] = t.wrote[i][c]
        BY <3>1, <3>4 DEF Wrote, Good, Typed
      <4>3. SameKey(new[i], new[k])
        BY <2>1, <3>1, <4>1, <4>2, KeysAreSteady
      <4> QED BY <1>3, <3>1, <3>4, <4>1, <4>3 DEF KeysDiffer
    <3> QED BY <3>2, <3>3, <3>4
  <2>2. ASSUME NEW i \in DOMAIN v, NEW k \in DOMAIN v, SameKey(v[i], v[k]),
               i \in DOMAIN t.wrote <=> k \in DOMAIN t.wrote
        PROVE  i = k
    <3>1. CASE i \in DOMAIN t.wrote
      BY <1>5, <1>7, <1>8, <2>2, <3>1 DEF Covers, KeysDiffer
    <3>2. CASE i \notin DOMAIN t.wrote
      BY <1>3, <1>7, <2>2, <3>2 DEF Covers, KeysDiffer
    <3> QED BY <3>1, <3>2
  <2> QED BY <2>1, <2>2, SameKeyLocks DEF KeysDiffer
<1>14. t.wrote = [i \in DOMAIN t.wrote |-> t.wrote[i]]
  BY DEF Granted
<1> QED BY <1>6, <1>8, <1>9, <1>10, <1>12, <1>13, <1>14 DEF Granted

-----------------------------------------------------------------------------
(* Statements *)

(* A row that hangs on to another by a cascade names it. *)
LEMMA CascadesAreNames ==
  ASSUME NEW d, Resolved(d), Typed(d), None \notin DOMAIN d, NEW k \in DOMAIN d
  PROVE  NamesByCascade(d[k]) \subseteq Names(d[k])
<1> SUFFICES ASSUME NEW n \in NamesByCascade(d[k]) PROVE n \in Names(d[k])
  OBVIOUS
<1>1. PICK c \in Columns(d[k]) : <<d[k].table, c>> \in Cascades /\ n = d[k][c]
  BY DEF NamesByCascade
<1>2. c # "subfaction_id"
  BY <1>1, SchemaFacts DEF Typed, IsRow, Columns
<1>3. n \in Of(d, Refers[c])
  BY <1>1, <1>2 DEF Resolved, Resolves
<1> QED BY <1>1, <1>3 DEF Of, Names

(* Entries and links are named by none. *)
LEMMA NobodyNames ==
  ASSUME NEW d, Resolved(d), NEW i \in DOMAIN d,
         d[i].table \in {"army_units", "user_unit", "unit_weapons"},
         NEW k \in DOMAIN d
  PROVE  i \notin Names(d[k])
BY NamedRows DEF Resolved

(* What a statement takes away was named by nothing else. *)
LEMMA GoneIsFree ==
  ASSUME NEW v, Resolved(v), Typed(v), None \notin DOMAIN v, NEW s, Succeeds(v, s),
         s.op \in {"clear", "delete", "unlink"},
         s.op = "unlink" => (s.id \in DOMAIN v => v[s.id].table = "unit_weapons"),
         NEW k \in DOMAIN v \ Gone(v, s)
  PROVE  Names(v[k]) \cap Gone(v, s) = {}
<1>1. CASE s.op = "clear"
  <2>1. \A i \in Gone(v, s) : i \in DOMAIN v /\ v[i].table \in {"army_units", "user_unit"}
    BY <1>1 DEF Gone, EntriesOf, Of
  <2> QED BY <2>1, NobodyNames
<1>2. CASE s.op = "unlink"
  <2>1. s.id \in DOMAIN v /\ v[s.id].table = "unit_weapons"
    BY <1>2 DEF Succeeds
  <2>2. \A i \in DOMAIN v : s.id \notin Names(v[i]) /\ s.id \notin NamesByCascade(v[i])
    BY <2>1, NobodyNames, CascadesAreNames
  <2>3. Gone(v, s) = {s.id}
    BY <1>2, <2>1, <2>2 DEF Gone, Swept
  <2> QED BY <2>2, <2>3
<1>3. CASE s.op = "delete"
  <2>1. CASE s.id \in DOMAIN v
    <3>1. Holders(v, {s.id}) = {} /\ Gone(v, s) = Swept(v, {s.id})
      BY <1>3, <2>1 DEF Succeeds, Gone
    <3> QED BY <3>1 DEF Holders
  <2>2. CASE s.id \notin DOMAIN v
    BY <1>3, <2>2 DEF Gone, Swept
  <2> QED BY <2>1, <2>2
<1> QED BY <1>1, <1>2, <1>3

(* A transaction once a statement has been carried out. *)
Carried(d, t, s, new) ==
  LET v == Overlay(d, t.wrote, t.gone) IN
  /\ new.wrote = IF Leaves(s) THEN With(t.wrote, s.id, Left(v, s)) ELSE t.wrote
  /\ new.gone = t.gone \cup Gone(v, s)
  /\ new.locks = t.locks \cup Needs(v, s) /\ new.shares = t.shares \cup Shares(s)

LEMMA InsertGranted ==
  ASSUME NEW d, Good(d), NEW r, NEW t, Granted(d, r, t), t.gone = {},
         NEW s, s.op = "insert", IsRow(s.row), NEW n \in Nat, s.id = NewId(r, n),
         s.id \notin DOMAIN d \cup DOMAIN t.wrote,
         NEW new, Carried(d, t, s, new), Succeeds(Overlay(d, t.wrote, t.gone), s)
  PROVE  Granted(d, r, new)
<1>1. PICK v : v = Overlay(d, t.wrote, t.gone)
  OBVIOUS
<1>2. PICK w : w = Overlay(d, new.wrote, new.gone)
  OBVIOUS
<1>3. /\ Covers(v, d, t.wrote, t.gone) /\ Resolved(v) /\ KeysDiffer(v)
      /\ Free(v, s.row) /\ Resolves(v, s.row)
  <2>1. Covers(v, d, t.wrote, t.gone)
    BY <1>1, OverlayFacts
  <2> QED BY <1>1, <2>1 DEF Granted, Succeeds, Constrained
<1>4. /\ DOMAIN new.wrote = DOMAIN t.wrote \cup {s.id}
      /\ new.wrote = [i \in DOMAIN new.wrote |-> new.wrote[i]]
      /\ new.wrote[s.id] = s.row /\ \A i \in DOMAIN t.wrote : new.wrote[i] = t.wrote[i]
      /\ new.gone = {} /\ new.locks = t.locks \cup KeyLocks(s.row)
      /\ new.shares = t.shares \cup {<<"id", i>> : i \in Names(s.row)}
  BY DEF Carried, Leaves, Left, With, Gone, Needs, Shares
<1>5. Covers(w, d, new.wrote, new.gone)
  BY <1>2, OverlayFacts
<1>6. /\ DOMAIN w = DOMAIN v \cup {s.id} /\ s.id \notin DOMAIN v /\ w[s.id] = s.row
      /\ \A i \in DOMAIN v : w[i] = v[i]
  BY <1>3, <1>4, <1>5 DEF Covers
<1>7. \A table : Of(v, table) \subseteq Of(w, table)
  BY <1>6 DEF Of
<1>8. Resolved(w)
  BY <1>3, <1>6, <1>7 DEF Resolved, Resolves
<1>9. KeysDiffer(w)
  <2>1. \A i \in DOMAIN v : ~SameKey(v[i], s.row) /\ ~SameKey(s.row, v[i])
    BY <1>3, SameKeyLocks DEF Free
  <2> QED BY <1>3, <1>6, <2>1 DEF KeysDiffer
<1>10. ASSUME NEW i \in DOMAIN t.wrote PROVE Wrote(d, r, new, i)
  <2>1. Wrote(d, r, t, i)
    BY DEF Granted
  <2> QED BY <1>4, <2>1 DEF Wrote
<1>11. Wrote(d, r, new, s.id)
  BY <1>4 DEF Wrote
<1> QED BY <1>2, <1>4, <1>8, <1>9, <1>10, <1>11 DEF Granted

(* What an UPDATE may set in a row. *)
Fits(row, changes) ==
  /\ DOMAIN changes \subseteq Schema[row.table] \ Steady(row.table)
  /\ "amount" \in DOMAIN changes => changes.amount \in 1..IntMax

LEMMA SetFits ==
  ASSUME NEW row, IsRow(row), NEW changes, Fits(row, changes)
  PROVE  /\ IsRow(Set(row, changes)) /\ Set(row, changes).table = row.table
         /\ \A c \in Steady(row.table) : Set(row, changes)[c] = row[c]
         /\ Names(Set(row, changes)) \subseteq Names(row) \cup Names(changes)
<1>1. PICK new : new = Set(row, changes)
  OBVIOUS
<1>2. /\ DOMAIN new = DOMAIN row
      /\ \A c \in DOMAIN row : c \in DOMAIN changes => new[c] = changes[c]
      /\ \A c \in DOMAIN row : c \notin DOMAIN changes => new[c] = row[c]
  BY <1>1 DEF Set
<1>3. Steady(row.table) \subseteq DOMAIN row /\ "table" \in Steady(row.table)
  BY SchemaFacts DEF IsRow, Steady
<1>4. \A c \in Steady(row.table) : new[c] = row[c]
  BY <1>2, <1>3 DEF Fits
<1>5. new.table = row.table
  BY <1>3, <1>4
<1>6. IsRow(new)
  BY <1>2, <1>5 DEF IsRow, Fits
<1>7. Names(new) \subseteq Names(row) \cup Names(changes)
  BY <1>2 DEF Names, Columns
<1> QED BY <1>1, <1>4, <1>5, <1>6, <1>7

Updated(d, s, new) ==
  /\ s.id \in DOMAIN d /\ DOMAIN new.wrote = {s.id} /\ new.gone = {}
  /\ new.wrote[s.id] = Set(d[s.id], s.row)

LEMMA UpdateGranted ==
  ASSUME NEW d, Good(d), NEW r, NEW t, Granted(d, r, t), t.gone = {}, WritesNone(t),
         NEW s, s.op = "update", s.id \in DOMAIN d => Fits(d[s.id], s.row),
         NEW new, Carried(d, t, s, new), Succeeds(Overlay(d, t.wrote, t.gone), s)
  PROVE  Granted(d, r, new) /\ Updated(d, s, new)
<1> USE DEF WritesNone
<1>1. PICK v : v = Overlay(d, t.wrote, t.gone)
  OBVIOUS
<1>2. PICK w : w = Overlay(d, new.wrote, new.gone)
  OBVIOUS
<1>3. /\ DOMAIN v = DOMAIN d /\ \A i \in DOMAIN d : v[i] = d[i]
      /\ s.id \in DOMAIN v /\ Resolves(v, Set(v[s.id], s.row))
  <2>1. Covers(v, d, t.wrote, t.gone)
    BY <1>1, OverlayFacts
  <2> QED BY <1>1, <2>1 DEF Covers, Succeeds
<1>4. PICK row : row = Set(d[s.id], s.row)
  OBVIOUS
<1>5. /\ s.id \in DOMAIN d /\ IsRow(d[s.id]) /\ Fits(d[s.id], s.row) /\ Resolves(v, row)
  BY <1>3, <1>4 DEF Good, Typed
<1>6. /\ IsRow(row) /\ row.table = d[s.id].table
      /\ \A c \in Steady(d[s.id].table) : row[c] = d[s.id][c]
      /\ Names(row) \subseteq Names(d[s.id]) \cup Names(s.row)
  BY <1>4, <1>5, SetFits
<1>7. /\ DOMAIN new.wrote = {s.id} /\ new.wrote = [i \in DOMAIN new.wrote |-> new.wrote[i]]
      /\ new.wrote[s.id] = row
      /\ new.gone = {} /\ <<"row", s.id>> \in new.locks
      /\ \A n \in Names(s.row) : <<"id", n>> \in new.shares
  BY <1>1, <1>3, <1>4 DEF Carried, Leaves, Left, With, Gone, Needs, Shares
<1>8. Covers(w, d, new.wrote, new.gone)
  BY <1>2, OverlayFacts
<1>9. /\ DOMAIN w = DOMAIN d /\ w[s.id] = row
      /\ \A i \in DOMAIN d \ {s.id} : w[i] = d[i]
  BY <1>5, <1>7, <1>8 DEF Covers
<1>10. \A table : Of(v, table) = Of(w, table) /\ Of(d, table) = Of(w, table)
  BY <1>3, <1>6, <1>9 DEF Of
<1>11. Resolved(w)
  BY <1>5, <1>9, <1>10 DEF Good, Resolved, Resolves
<1>12. KeysDiffer(w)
  <2>1. /\ \A i : SameKey(d[i], row) <=> SameKey(d[i], d[s.id])
        /\ \A i : SameKey(row, d[i]) <=> SameKey(d[s.id], d[i])
    BY <1>5, <1>6, KeysAreSteady
  <2> QED BY <1>5, <1>9, <2>1 DEF KeysDiffer, Good
<1>13. Wrote(d, r, new, s.id)
  <2>1. Names(row) \subseteq Names(d[s.id]) \cup {n \in DOMAIN d : <<"id", n>> \in new.shares}
    <3>1. \A n \in Names(row) : n \in DOMAIN v
      BY <1>5, NamedRows
    <3> QED BY <1>3, <1>6, <1>7, <3>1
  <2> QED BY <1>5, <1>6, <1>7, <2>1 DEF Wrote
<1> QED BY <1>2, <1>4, <1>5, <1>7, <1>11, <1>12, <1>13 DEF Granted, Updated

LEMMA DeleteGranted ==
  ASSUME NEW d, Good(d), NEW r, NEW t, Granted(d, r, t), WritesNone(t),
         NEW s, s.op \in {"clear", "delete", "unlink"},
         s.op = "unlink" => (s.id \in DOMAIN d => d[s.id].table = "unit_weapons"),
         NEW new, Carried(d, t, s, new), Succeeds(Overlay(d, t.wrote, t.gone), s)
  PROVE  Granted(d, r, new) /\ WritesNone(new)
<1> USE DEF WritesNone
<1>1. PICK v : v = Overlay(d, t.wrote, t.gone)
  OBVIOUS
<1>2. PICK w : w = Overlay(d, new.wrote, new.gone)
  OBVIOUS
<1>3. PICK G : G = Gone(v, s)
  OBVIOUS
<1>4. /\ DOMAIN v = DOMAIN d \ t.gone /\ \A i \in DOMAIN v : v[i] = d[i]
      /\ Resolved(v) /\ KeysDiffer(v) /\ Succeeds(v, s)
  <2>1. Covers(v, d, t.wrote, t.gone)
    BY <1>1, OverlayFacts
  <2> QED BY <1>1, <2>1 DEF Covers, Granted
<1>5. Typed(v) /\ None \notin DOMAIN v
  BY <1>4 DEF Typed, Good
<1>6. ASSUME NEW k \in DOMAIN v \ G PROVE Names(v[k]) \cap G = {}
  BY <1>3, <1>4, <1>5, GoneIsFree
<1>7. G \subseteq DOMAIN v
  BY <1>3 DEF Gone, Swept, EntriesOf, Of
<1>8. /\ new.wrote = t.wrote /\ new.gone = t.gone \cup G
      /\ \A i \in G : {<<"row", i>>, <<"id", i>>} \subseteq new.locks
      /\ t.locks \subseteq new.locks
  BY <1>1, <1>3 DEF Carried, Leaves, Needs, Locked
<1>9. Covers(w, d, new.wrote, new.gone)
  BY <1>2, OverlayFacts
<1>10. DOMAIN w = DOMAIN v \ G /\ \A i \in DOMAIN w : w[i] = v[i]
  BY <1>4, <1>8, <1>9 DEF Covers
<1>11. Resolved(w)
  <2> SUFFICES ASSUME NEW k \in DOMAIN w, NEW c \in Columns(w[k]),
                      ~(c = "subfaction_id" /\ w[k][c] = None)
               PROVE  w[k][c] \in Of(w, Refers[c])
    BY DEF Resolved, Resolves
  <2>1. k \in DOMAIN v \ G /\ w[k] = v[k]
    BY <1>10
  <2>2. v[k][c] \in Of(v, Refers[c])
    BY <1>4, <2>1 DEF Resolved, Resolves
  <2>3. v[k][c] \in Names(v[k])
    BY <1>5, <2>1, <2>2 DEF Names, Of
  <2> QED BY <1>6, <1>10, <2>1, <2>2, <2>3 DEF Of
<1>12. KeysDiffer(w)
  BY <1>4, <1>10 DEF KeysDiffer
<1>13. \A i \in new.gone : i \in DOMAIN d /\ {<<"row", i>>, <<"id", i>>} \subseteq new.locks
  BY <1>4, <1>7, <1>8 DEF Granted
<1> QED BY <1>1, <1>2, <1>3, <1>8, <1>11, <1>12, <1>13 DEF Granted

(* Holding more takes nothing from what is granted. *)
LEMMA MoreIsGranted ==
  ASSUME NEW d, NEW r, NEW t, Granted(d, r, t),
         NEW new, new.wrote = t.wrote, new.gone = t.gone,
         t.locks \subseteq new.locks, t.shares \subseteq new.shares
  PROVE  Granted(d, r, new)
<1>1. ASSUME NEW i \in DOMAIN t.wrote PROVE Wrote(d, r, new, i)
  <2>1. Wrote(d, r, t, i)
    BY DEF Granted
  <2> QED BY <2>1 DEF Wrote
<1> QED BY <1>1 DEF Granted

-----------------------------------------------------------------------------
(* What a request still has to do, and what it has done                    *)

(* An id that a request still running will give is no row's yet.           *)
Known(i, oks) == i \in Requests \X Nat => i[1] \in oks

(* What it loaded is there as it was, or gone for good. *)
Subject(d, j, oks) == Known(j.id, oks) /\ (j.id \in DOMAIN d => Found(d, j))

AddedRow(j) == IF j.kind = "add" THEN EntryRow(j.table, j.id, j.unit, j.amount) ELSE j.row

Adding(j, r, t) ==
  /\ t.gone = {} /\ IsRow(AddedRow(j))
  /\ \/ t.todo = <<Insert(NewId(r, 1), AddedRow(j))>> /\ DOMAIN t.wrote = {}
     \/ t.todo = <<>> /\ DOMAIN t.wrote = {}
     \/ /\ t.todo = <<>> /\ DOMAIN t.wrote = {NewId(r, 1)}
        /\ t.wrote[NewId(r, 1)] = AddedRow(j)

ChangesOf(j) ==
  IF j.kind = "set" THEN {[amount |-> j.amount]}
  ELSE {[c \in C |-> j.changes[c]] : C \in SUBSET DOMAIN j.changes}

Sent(j, t) ==
  IF j.kind = "update" THEN Moved(t.loaded, j.changes) ELSE [amount |-> j.amount]

(* What it changes is the row, or the entry, that was asked for.           *)
Aimed(d, j, i) ==
  i \in DOMAIN d => IF j.kind = "update" THEN i = j.id ELSE i \in Entry(d, j.id, j.unit)

Changing(d, j, t, oks) ==
  /\ t.gone = {}
  /\ \/ t.todo = <<>> /\ DOMAIN t.wrote = {}
     \/ \E i, c :
          /\ Known(i, oks) /\ Aimed(d, j, i) /\ c = Sent(j, t)
          /\ c \in ChangesOf(j) /\ (i \in DOMAIN d => Fits(d[i], c))
          /\ \/ t.todo = <<Update(i, c)>> /\ DOMAIN t.wrote = {}
             \/ /\ t.todo = <<>> /\ DOMAIN t.wrote = {i} /\ i \in DOMAIN d
                /\ t.wrote[i] = Set(d[i], c)

(* What it takes away is the entry, or the link, that was asked for.       *)
Target(d, j, i) ==
  i \in DOMAIN d =>
    IF j.kind = "unlink"
    THEN d[i].table = "unit_weapons" /\ Names(d[i]) = Names(j.row) /\ SameKey(d[i], j.row)
    ELSE /\ d[i].table \in {"army_units", "user_unit"} /\ d[i].unit_id = j.unit
         /\ i \in Entry(d, j.id, j.unit)

Removing(d, j, t, oks) ==
  /\ DOMAIN t.wrote = {}
  /\ \/ t.todo = <<>> /\ t.gone = {}
     \/ \E i :
          /\ Known(i, oks) /\ Target(d, j, i)
          /\ \/ t.todo = <<IF j.kind = "unlink" THEN Unlink(i) ELSE Delete(i)>> /\ t.gone = {}
             \/ t.todo = <<>> /\ t.gone = {i}

HangsOn(d, i, x) == i \in DOMAIN d => d[i].table = "unit_weapons" /\ x \in Names(d[i])

Deleting(d, j, t, oks) ==
  /\ DOMAIN t.wrote = {}
  /\ t.todo # <<>> =>
       /\ \E S : t.todo \in Seq(S)
       /\ t.todo[Len(t.todo)] = Delete(j.id)
       /\ \A k \in 1..Len(t.todo) : k # Len(t.todo) =>
            \/ t.todo[k] \in {Clear(j.id), Collect(j.id), Take(j.id)}
            \/ \E i : t.todo[k] = Unlink(i) /\ Known(i, oks) /\ HangsOn(d, i, j.id)
       /\ \A g \in t.gone : j.id \in NamesByCascade(d[g])
  /\ t.todo = <<>> =>
       /\ j.id \in DOMAIN d => t.gone = Swept(d, {j.id}) /\ Holders(d, {j.id}) = {}
       /\ j.id \notin DOMAIN d => t.gone = {}

SeedStatement(j, r, n, s) ==
  s.op \in {"ensure", "insert"} /\ s.id = NewId(r, n) /\ s.row = j.rows[n]

Seeding(j, r, t) ==
  /\ t.gone = {}
  /\ \E S : t.todo \in Seq(S)
  /\ Len(t.todo) <= Len(j.rows)
  /\ \A k \in 1..Len(t.todo) :
       SeedStatement(j, r, Len(j.rows) - Len(t.todo) + k, t.todo[k])
  /\ \A i \in DOMAIN t.wrote : \E n \in 1..(Len(j.rows) - Len(t.todo)) : i = NewId(r, n)

Line(d, j, r, t, oks) ==
  /\ j.kind \in {"add", "create", "link"} => Adding(j, r, t)
  /\ j.kind \in {"set", "update"} => Changing(d, j, t, oks)
  /\ j.kind \in {"remove", "unlink"} => Removing(d, j, t, oks)
  /\ j.kind = "delete" => Deleting(d, j, t, oks)
  /\ j.kind = "seed" => Seeding(j, r, t)

(* A row gone stays gone, and none comes back under its id. *)
LEMMA KnownStays ==
  ASSUME NEW d, NEW q \in Requests, NEW s, NEW new, Becomes(d, q, s, new),
         NEW oks, q \notin oks, NEW i, Known(i, oks), i \in DOMAIN new
  PROVE  i \in DOMAIN d
<1> SUFFICES ASSUME i \notin DOMAIN d PROVE FALSE
  OBVIOUS
<1>1. PICK n \in Nat : i = <<q, n>>
  BY DEF Becomes, NewId
<1> QED BY <1>1 DEF Known

LEMMA SubjectStays ==
  ASSUME NEW d, NEW q \in Requests, NEW s, NEW new, Becomes(d, q, s, new),
         NEW oks, q \notin oks, NEW j, Subject(d, j, oks)
  PROVE  Subject(new, j, oks \cup {q})
<1>1. Known(j.id, oks) /\ Known(j.id, oks \cup {q})
  BY DEF Subject, Known
<1>2. ASSUME j.id \in DOMAIN new PROVE Found(new, j)
  <2>1. j.id \in DOMAIN d /\ Found(d, j)
    BY <1>1, <1>2, KnownStays DEF Subject
  <2>2. d[j.id].table = j.table /\ new[j.id].table = j.table
    BY <1>2, <2>1 DEF Found, Of, Becomes
  <2>3. j.table = "armies" => "owner_user_id" \in Steady(j.table)
    BY DEF Steady, Schema
  <2> QED BY <1>2, <2>1, <2>2, <2>3 DEF Found, Of, Becomes
<1> QED BY <1>1, <1>2 DEF Subject

(* The rows that hang on by a cascade are steady, and so are the links.    *)
LEMMA SteadyNames ==
  ASSUME NEW p, NEW q, IsRow(p), IsRow(q), p.table = q.table,
         \A c \in Steady(p.table) : p[c] = q[c]
  PROVE  /\ NamesByCascade(p) = NamesByCascade(q)
         /\ p.table = "unit_weapons" => Names(p) = Names(q)
<1>1. Columns(p) = Columns(q)
  BY DEF Columns, IsRow
<1>2. \A c \in Columns(p) : <<p.table, c>> \in Cascades => p[c] = q[c]
  BY SchemaFacts DEF Columns, IsRow
<1>3. p.table = "unit_weapons" => \A c \in Columns(p) : p[c] = q[c]
  BY DEF Columns, IsRow, Schema, Steady, UniqueKey, Refers
<1>4. NamesByCascade(p) = NamesByCascade(q)
  BY <1>1, <1>2 DEF NamesByCascade
<1>5. p.table = "unit_weapons" => Names(p) = Names(q)
  BY <1>1, <1>3 DEF Names
<1> QED BY <1>4, <1>5

(* An entry stays one of its list and its unit. *)
LEMMA EntryStays ==
  ASSUME NEW d, NEW new, NEW i \in DOMAIN d \cap DOMAIN new, new[i].table = d[i].table,
         \A c \in Steady(d[i].table) : new[i][c] = d[i][c],
         NEW list, NEW unit, i \in Entry(d, list, unit)
  PROVE  i \in Entry(new, list, unit)
<1>1. /\ d[i].unit_id = unit /\ d[i].table \in {"army_units", "user_unit"}
      /\ d[i].table = "army_units" => d[i].army_id = list
      /\ d[i].table = "user_unit" => d[i].owner_user_id = list
  BY DEF Entry, EntriesOf, Of
<1>2. /\ {"army_id", "unit_id"} \subseteq Steady("army_units")
      /\ {"owner_user_id", "unit_id"} \subseteq Steady("user_unit")
  BY DEF Steady, UniqueKey
<1>3. CASE d[i].table = "army_units"
  <2>1. new[i].table = "army_units" /\ new[i].army_id = list /\ new[i].unit_id = unit
    BY <1>1, <1>2, <1>3
  <2> QED BY <2>1 DEF Entry, EntriesOf, Of
<1>4. CASE d[i].table = "user_unit"
  <2>1. new[i].table = "user_unit" /\ new[i].owner_user_id = list /\ new[i].unit_id = unit
    BY <1>1, <1>2, <1>4
  <2> QED BY <2>1 DEF Entry, EntriesOf, Of
<1> QED BY <1>1, <1>3, <1>4

(* What a deletion has found stays so: the ids of what it takes are its    *)
(* own, and no other may name them.                                        *)
LEMMA DeletingStays ==
  ASSUME NEW d, Good(d), NEW q \in Requests, NEW s, Granted(d, q, s), NEW r, NEW t, Granted(d, r, t),
         Apart(s, t), NEW new, new = Overlay(d, s.wrote, s.gone), Good(new),
         NEW oks, q \notin oks, NEW j, Known(j.id, oks), Deleting(d, j, t, oks)
  PROVE  Deleting(new, j, t, oks \cup {q})
<1>1. Becomes(d, q, s, new)
  BY CommitBecomes
<1>2. /\ \A i \in DOMAIN d : <<"row", i>> \in t.locks => i \in DOMAIN new /\ new[i] = d[i]
      /\ \A i \in DOMAIN d : <<"id", i>> \in t.locks \cup t.shares => i \in DOMAIN new
  BY HeldStays
<1>3. \A g \in t.gone : /\ g \in DOMAIN d /\ g \in DOMAIN new /\ new[g] = d[g]
                        /\ <<"id", g>> \in t.locks
  BY <1>2 DEF Granted
<1>4. ASSUME NEW k \in DOMAIN d \cap DOMAIN new
      PROVE  /\ NamesByCascade(new[k]) = NamesByCascade(d[k])
             /\ d[k].table = new[k].table
             /\ d[k].table = "unit_weapons" => Names(new[k]) = Names(d[k])
  BY <1>1, <1>4, SteadyNames DEF Becomes, Good, Typed
<1>5. ASSUME NEW i, Known(i, oks) PROVE Known(i, oks \cup {q}) /\ (i \in DOMAIN new => i \in DOMAIN d)
  BY <1>1, <1>5, KnownStays DEF Known
<1>6. ASSUME NEW i, Known(i, oks), HangsOn(d, i, j.id) PROVE HangsOn(new, i, j.id)
  BY <1>4, <1>5, <1>6 DEF HangsOn
<1>7. ASSUME t.todo = <<>>, j.id \in DOMAIN new
      PROVE  t.gone = Swept(new, {j.id}) /\ Holders(new, {j.id}) = {}
  <2>1. j.id \in DOMAIN d /\ t.gone = Swept(d, {j.id}) /\ Holders(d, {j.id}) = {}
    BY <1>5, <1>7 DEF Deleting
  <2>2. j.id \in t.gone
    BY <2>1 DEF Swept
  <2>3. ASSUME NEW k \in DOMAIN new, NEW g \in t.gone, g \in Names(new[k])
        PROVE  k \in DOMAIN d /\ g \in Names(d[k])
    <3>1. g \in DOMAIN d /\ <<"id", g>> \notin s.shares
      BY <1>3 DEF Apart
    <3> QED BY <1>1, <2>3, <3>1 DEF Becomes
  <2>4. \A k \in DOMAIN new : j.id \in NamesByCascade(new[k]) => k \in t.gone
    BY <1>4, <2>1, <2>2, <2>3, CascadesAreNames DEF Good, Swept
  <2>5. \A k \in t.gone : k = j.id \/ (k \in DOMAIN new /\ j.id \in NamesByCascade(new[k]))
    BY <1>3, <2>1 DEF Swept
  <2>6. t.gone = Swept(new, {j.id})
    BY <2>2, <2>4, <2>5 DEF Swept
  <2>7. \A k \in DOMAIN new \ t.gone : Names(new[k]) \cap t.gone = {}
    BY <2>1, <2>3 DEF Holders
  <2> QED BY <2>6, <2>7 DEF Holders
<1>8. ASSUME t.todo = <<>>, j.id \notin DOMAIN new PROVE t.gone = {}
  <2>1. j.id \in DOMAIN d => j.id \in t.gone
    BY <1>8 DEF Deleting, Swept
  <2> QED BY <1>3, <1>8, <2>1 DEF Deleting
<1>9. ASSUME t.todo # <<>>
      PROVE  /\ \E S : t.todo \in Seq(S)
             /\ t.todo[Len(t.todo)] = Delete(j.id)
             /\ \A k \in 1..Len(t.todo) : k # Len(t.todo) =>
                  \/ t.todo[k] \in {Clear(j.id), Collect(j.id), Take(j.id)}
                  \/ \E i : t.todo[k] = Unlink(i) /\ Known(i, oks \cup {q}) /\ HangsOn(new, i, j.id)
             /\ \A g \in t.gone : j.id \in NamesByCascade(new[g])
  <2>1. \A k \in 1..Len(t.todo) : k # Len(t.todo) =>
          \/ t.todo[k] \in {Clear(j.id), Collect(j.id), Take(j.id)}
          \/ \E i : t.todo[k] = Unlink(i) /\ Known(i, oks) /\ HangsOn(d, i, j.id)
    BY <1>9 DEF Deleting
  <2>2. \A k \in 1..Len(t.todo) : k # Len(t.todo) =>
          \/ t.todo[k] \in {Clear(j.id), Collect(j.id), Take(j.id)}
          \/ \E i : t.todo[k] = Unlink(i) /\ Known(i, oks \cup {q}) /\ HangsOn(new, i, j.id)
    BY <1>5, <1>6, <2>1
  <2> QED BY <1>3, <1>9, <2>2 DEF Deleting
<1> QED BY <1>7, <1>8, <1>9 DEF Deleting

LEMMA LineStays ==
  ASSUME NEW d, Good(d), NEW q \in Requests, NEW s, Granted(d, q, s), NEW r, NEW t, Granted(d, r, t),
         Apart(s, t), NEW new, new = Overlay(d, s.wrote, s.gone), Good(new),
         NEW oks, q \notin oks, NEW j, j.kind = "delete" => Known(j.id, oks), Line(d, j, r, t, oks)
  PROVE  Line(new, j, r, t, oks \cup {q})
<1>1. Becomes(d, q, s, new)
  BY CommitBecomes
<1>2. \A i \in DOMAIN d : <<"row", i>> \in t.locks => i \in DOMAIN new /\ new[i] = d[i]
  BY HeldStays
<1>3. ASSUME NEW i, Known(i, oks)
      PROVE  /\ Known(i, oks \cup {q})
             /\ i \in DOMAIN new => i \in DOMAIN d /\ new[i].table = d[i].table
  <2>1. Known(i, oks \cup {q})
    BY <1>3 DEF Known
  <2>2. i \in DOMAIN new => i \in DOMAIN d
    BY <1>1, <1>3, KnownStays
  <2> QED BY <1>1, <2>1, <2>2 DEF Becomes
<1>4. ASSUME j.kind \in {"set", "update"} PROVE Changing(new, j, t, oks \cup {q})
  <2>1. Changing(d, j, t, oks)
    BY <1>4 DEF Line
  <2>2. CASE t.todo = <<>> /\ DOMAIN t.wrote = {}
    BY <2>1, <2>2 DEF Changing
  <2>3. CASE \E i, c :
               /\ Known(i, oks) /\ Aimed(d, j, i) /\ c = Sent(j, t)
               /\ c \in ChangesOf(j) /\ (i \in DOMAIN d => Fits(d[i], c))
               /\ \/ t.todo = <<Update(i, c)>> /\ DOMAIN t.wrote = {}
                  \/ /\ t.todo = <<>> /\ DOMAIN t.wrote = {i} /\ i \in DOMAIN d
                     /\ t.wrote[i] = Set(d[i], c)
    <3>1. PICK i, c :
               /\ Known(i, oks) /\ Aimed(d, j, i) /\ c = Sent(j, t)
               /\ c \in ChangesOf(j) /\ (i \in DOMAIN d => Fits(d[i], c))
               /\ \/ t.todo = <<Update(i, c)>> /\ DOMAIN t.wrote = {}
                  \/ /\ t.todo = <<>> /\ DOMAIN t.wrote = {i} /\ i \in DOMAIN d
                     /\ t.wrote[i] = Set(d[i], c)
      BY <2>3
    <3>2. /\ Known(i, oks \cup {q}) /\ (i \in DOMAIN new => Fits(new[i], c))
          /\ Aimed(new, j, i)
      <4>1. Known(i, oks \cup {q}) /\ (i \in DOMAIN new => Fits(new[i], c))
        BY <1>3, <3>1 DEF Fits
      <4>2. ASSUME i \in DOMAIN new, j.kind # "update" PROVE i \in Entry(new, j.id, j.unit)
        <5>1. i \in DOMAIN d \cap DOMAIN new /\ i \in Entry(d, j.id, j.unit)
          BY <1>3, <3>1, <4>2 DEF Aimed
        <5>2. new[i].table = d[i].table /\ \A k \in Steady(d[i].table) : new[i][k] = d[i][k]
          BY <1>1, <5>1 DEF Becomes
        <5> QED BY <5>1, <5>2, EntryStays
      <4>3. (i \in DOMAIN new /\ j.kind = "update") => i = j.id
        BY <1>3, <3>1 DEF Aimed
      <4> QED BY <4>1, <4>2, <4>3 DEF Aimed
    <3>3. ASSUME DOMAIN t.wrote = {i}, i \in DOMAIN d PROVE i \in DOMAIN new /\ new[i] = d[i]
      BY <1>2, <3>3 DEF Granted, Wrote
    <3>4. \/ t.todo = <<Update(i, c)>> /\ DOMAIN t.wrote = {}
          \/ /\ t.todo = <<>> /\ DOMAIN t.wrote = {i} /\ i \in DOMAIN new
             /\ t.wrote[i] = Set(new[i], c)
      BY <3>1, <3>3
    <3> QED BY <2>1, <3>1, <3>2, <3>4 DEF Changing
  <2> QED BY <2>1, <2>2, <2>3 DEF Changing
<1>5. ASSUME j.kind \in {"remove", "unlink"} PROVE Removing(new, j, t, oks \cup {q})
  <2>1. Removing(d, j, t, oks)
    BY <1>5 DEF Line
  <2>2. ASSUME NEW i, Known(i, oks), Target(d, j, i) PROVE Target(new, j, i)
    <3> SUFFICES ASSUME i \in DOMAIN new PROVE Target(new, j, i)
      BY DEF Target
    <3>1. i \in DOMAIN d /\ new[i].table = d[i].table
      BY <1>3, <2>2
    <3>2. IsRow(d[i]) /\ IsRow(new[i]) /\ \A c \in Steady(d[i].table) : d[i][c] = new[i][c]
      BY <1>1, <3>1 DEF Becomes, Good, Typed
    <3>3. d[i].table \in {"army_units", "user_unit"} => "unit_id" \in Steady(d[i].table)
      BY DEF Steady, UniqueKey
    <3>4. d[i].table = "unit_weapons" => Names(d[i]) = Names(new[i])
      BY <3>1, <3>2, SteadyNames
    <3>5. SameKey(d[i], j.row) => SameKey(new[i], j.row)
      BY <3>1, <3>2, KeysAreSteady
    <3>6. i \in Entry(d, j.id, j.unit) => i \in Entry(new, j.id, j.unit)
      BY <3>1, <3>2, EntryStays
    <3> QED BY <2>2, <3>1, <3>2, <3>3, <3>4, <3>5, <3>6 DEF Target
  <2>3. \A i : Known(i, oks) /\ Target(d, j, i) => Known(i, oks \cup {q}) /\ Target(new, j, i)
    BY <1>3, <2>2
  <2> QED BY <2>1, <2>3 DEF Removing
<1>6. ASSUME j.kind = "delete" PROVE Deleting(new, j, t, oks \cup {q})
  BY <1>6, DeletingStays DEF Line
<1> QED BY <1>4, <1>5, <1>6 DEF Line

-----------------------------------------------------------------------------
(* Carrying out a statement keeps a request in line *)

LEMMA Tails ==
  ASSUME NEW S, NEW q \in Seq(S), q # <<>>
  PROVE  /\ Len(q) \in Nat /\ Len(q) > 0 /\ Head(q) = q[1]
         /\ Tail(q) \in Seq(S) /\ Len(Tail(q)) = Len(q) - 1
         /\ \A k \in 1..(Len(q) - 1) : Tail(q)[k] = q[k + 1]
         /\ Tail(q) = <<>> <=> Len(q) = 1
<1>1. /\ Len(q) \in Nat /\ Len(q) > 0 /\ Head(q) = q[1]
      /\ Tail(q) \in Seq(S) /\ Len(Tail(q)) = Len(q) - 1
      /\ \A k \in 1..(Len(q) - 1) : Tail(q)[k] = q[k + 1]
  OBVIOUS
<1>2. Tail(q) # <<>> => Len(Tail(q)) \in Nat \ {0}
  BY <1>1, EmptySeq
<1>3. Tail(q) = <<>> => Len(Tail(q)) = 0
  BY EmptySeq
<1> QED BY <1>1, <1>2, <1>3

LEMMA AddingExecutes ==
  ASSUME NEW d, Good(d), NEW r \in Requests, NEW t, Granted(d, r, t),
         NEW oks, r \notin oks, \A i \in DOMAIN d : Known(i, oks),
         NEW j, Adding(j, r, t), t.todo # <<>>, NEW s, s = Head(t.todo),
         Succeeds(Overlay(d, t.wrote, t.gone), s),
         NEW new, Carried(d, t, s, new), new.todo = Tail(t.todo)
  PROVE  Granted(d, r, new) /\ Adding(j, r, new)
<1>1. /\ t.todo = <<Insert(NewId(r, 1), AddedRow(j))>> /\ DOMAIN t.wrote = {}
      /\ t.gone = {} /\ IsRow(AddedRow(j))
  BY DEF Adding
<1>2. /\ s = Insert(NewId(r, 1), AddedRow(j)) /\ new.todo = <<>>
      /\ s.op = "insert" /\ s.id = NewId(r, 1) /\ s.row = AddedRow(j)
  BY <1>1 DEF Insert, Statement
<1>3. s.id \notin DOMAIN d
  BY <1>2 DEF Known, NewId
<1>4. Granted(d, r, new)
  BY <1>1, <1>2, <1>3, InsertGranted
<1>5. new.gone = {} /\ DOMAIN new.wrote = {s.id} /\ new.wrote[s.id] = s.row
  BY <1>1, <1>2 DEF Carried, Leaves, Left, With, Gone
<1> QED BY <1>1, <1>2, <1>4, <1>5 DEF Adding

LEMMA ChangingExecutes ==
  ASSUME NEW d, Good(d), NEW r, NEW t, Granted(d, r, t), NEW oks,
         NEW j, Changing(d, j, t, oks), t.todo # <<>>, NEW s, s = Head(t.todo),
         Succeeds(Overlay(d, t.wrote, t.gone), s),
         NEW new, Carried(d, t, s, new), new.todo = Tail(t.todo), new.loaded = t.loaded
  PROVE  Granted(d, r, new) /\ Changing(d, j, new, oks)
<1>1. PICK i, c :
        /\ Known(i, oks) /\ Aimed(d, j, i) /\ c = Sent(j, t)
        /\ c \in ChangesOf(j) /\ (i \in DOMAIN d => Fits(d[i], c))
        /\ t.todo = <<Update(i, c)>> /\ DOMAIN t.wrote = {} /\ t.gone = {}
  BY DEF Changing
<1>2. /\ s = Update(i, c) /\ new.todo = <<>>
      /\ s.op = "update" /\ s.id = i /\ s.row = c
  BY <1>1 DEF Update, Statement
<1>3. /\ Granted(d, r, new) /\ i \in DOMAIN d /\ DOMAIN new.wrote = {i} /\ new.gone = {}
      /\ new.wrote[i] = Set(d[i], c)
  <2>1. WritesNone(t)
    BY <1>1 DEF WritesNone
  <2>2. s.id \in DOMAIN d => Fits(d[s.id], s.row)
    BY <1>1, <1>2
  <2>3. Granted(d, r, new) /\ Updated(d, s, new)
    BY <1>1, <1>2, <2>1, <2>2, UpdateGranted
  <2> QED BY <1>2, <2>3 DEF Updated
<1>4. c = Sent(j, new)
  BY <1>1 DEF Sent
<1> QED BY <1>1, <1>2, <1>3, <1>4 DEF Changing

(* Nothing goes with an entry or a link. *)
LEMMA LeafGoes ==
  ASSUME NEW v, Resolved(v), Typed(v), None \notin DOMAIN v, NEW i,
         i \in DOMAIN v => v[i].table \in {"army_units", "user_unit", "unit_weapons"}
  PROVE  Swept(v, {i} \cap DOMAIN v) = {i} \cap DOMAIN v
<1>1. CASE i \in DOMAIN v
  <2>1. \A k \in DOMAIN v : i \notin NamesByCascade(v[k])
    BY <1>1, NobodyNames, CascadesAreNames
  <2> QED BY <1>1, <2>1 DEF Swept
<1>2. CASE i \notin DOMAIN v
  BY <1>2 DEF Swept
<1> QED BY <1>1, <1>2

(* The view of a transaction that has only taken rows away. *)
Remains(d, gone, v) ==
  /\ DOMAIN v = DOMAIN d \ gone /\ \A i \in DOMAIN v : v[i] = d[i]
  /\ Typed(v) /\ Resolved(v) /\ None \notin DOMAIN v

LEMMA ViewAfterGone ==
  ASSUME NEW d, Good(d), NEW r, NEW t, Granted(d, r, t), WritesNone(t),
         NEW v, v = Overlay(d, t.wrote, t.gone)
  PROVE  Remains(d, t.gone, v)
<1> USE DEF WritesNone
<1>1. Covers(v, d, t.wrote, t.gone)
  BY OverlayFacts
<1>2. DOMAIN v = DOMAIN d \ t.gone /\ \A i \in DOMAIN v : v[i] = d[i]
  BY <1>1 DEF Covers
<1> QED BY <1>2 DEF Granted, Good, Typed, Remains

LEMMA RemovingExecutes ==
  ASSUME NEW d, Good(d), NEW r, NEW t, Granted(d, r, t), NEW oks,
         NEW j, Removing(d, j, t, oks), t.todo # <<>>, NEW s, s = Head(t.todo),
         Succeeds(Overlay(d, t.wrote, t.gone), s),
         NEW new, Carried(d, t, s, new), new.todo = Tail(t.todo)
  PROVE  Granted(d, r, new) /\ Removing(d, j, new, oks)
<1>1. PICK i :
        /\ Known(i, oks) /\ Target(d, j, i)
        /\ i \in DOMAIN d => d[i].table \in {"army_units", "user_unit", "unit_weapons"}
        /\ (j.kind = "unlink" /\ i \in DOMAIN d) => d[i].table = "unit_weapons"
        /\ t.todo = <<IF j.kind = "unlink" THEN Unlink(i) ELSE Delete(i)>> /\ t.gone = {}
  BY DEF Removing, Target
<1>2. PICK v : v = Overlay(d, t.wrote, t.gone)
  OBVIOUS
<1>3. /\ s = (IF j.kind = "unlink" THEN Unlink(i) ELSE Delete(i)) /\ new.todo = <<>>
      /\ s.op \in {"delete", "unlink"} /\ s.id = i
      /\ s.op = "unlink" <=> j.kind = "unlink"
  BY <1>1 DEF Unlink, Delete, Statement
<1>4. WritesNone(t)
  BY DEF Removing, WritesNone
<1>5. DOMAIN v = DOMAIN d /\ (\A k \in DOMAIN v : v[k] = d[k]) /\ Typed(v) /\ Resolved(v)
      /\ None \notin DOMAIN v
  <2>1. Remains(d, t.gone, v)
    BY <1>2, <1>4, ViewAfterGone
  <2> QED BY <1>1, <2>1 DEF Remains
<1>6. Gone(v, s) = {i} \cap DOMAIN d
  BY <1>1, <1>3, <1>5, LeafGoes DEF Gone
<1>7. Granted(d, r, new) /\ DOMAIN new.wrote = {} /\ new.gone = Gone(v, s)
  <2>1. /\ s.op \in {"clear", "delete", "unlink"}
        /\ s.op = "unlink" => (s.id \in DOMAIN d => d[s.id].table = "unit_weapons")
    BY <1>1, <1>3
  <2>2. Granted(d, r, new) /\ WritesNone(new)
    BY <1>4, <2>1, DeleteGranted
  <2> QED BY <1>1, <1>2, <2>2 DEF WritesNone, Carried
<1>8. new.gone = {} \/ new.gone = {i}
  BY <1>6, <1>7
<1> QED BY <1>1, <1>3, <1>7, <1>8 DEF Removing

(* No row names by a cascade a row of its own table. *)
LEMMA CascadesLeadElsewhere ==
  ASSUME NEW d, Resolved(d), Typed(d), NEW k \in DOMAIN d
  PROVE  k \notin NamesByCascade(d[k])
<1> SUFFICES ASSUME k \in NamesByCascade(d[k]) PROVE FALSE
  OBVIOUS
<1>1. PICK c \in Columns(d[k]) : <<d[k].table, c>> \in Cascades /\ k = d[k][c]
  BY DEF NamesByCascade
<1>2. c # "subfaction_id"
  BY <1>1, SchemaFacts DEF Typed, IsRow, Columns
<1>3. d[k].table = Refers[c]
  BY <1>1, <1>2 DEF Resolved, Resolves, Of
<1>4. \A table : \A c1 \in DOMAIN Refers : <<table, c1>> \in Cascades => table # Refers[c1]
  BY DEF Cascades, Refers
<1> QED BY <1>1, <1>3, <1>4 DEF Columns

LEMMA DeletingExecutes ==
  ASSUME NEW d, Good(d), NEW r, NEW t, Granted(d, r, t), NEW oks,
         NEW j, Deleting(d, j, t, oks), t.todo # <<>>, NEW s, s = Head(t.todo), ~Reads(s),
         Succeeds(Overlay(d, t.wrote, t.gone), s),
         NEW new, Carried(d, t, s, new), new.todo = Tail(t.todo)
  PROVE  Granted(d, r, new) /\ Deleting(d, j, new, oks)
<1> DEFINE x == j.id
<1>1. PICK v : v = Overlay(d, t.wrote, t.gone)
  OBVIOUS
<1>2. PICK S : t.todo \in Seq(S)
  BY DEF Deleting
<1>3. /\ WritesNone(t) /\ t.todo[Len(t.todo)] = Delete(x)
      /\ \A k \in 1..Len(t.todo) : k # Len(t.todo) =>
            \/ t.todo[k] \in {Clear(x), Collect(x), Take(x)}
            \/ \E i : t.todo[k] = Unlink(i) /\ Known(i, oks) /\ HangsOn(d, i, x)
      /\ \A g \in t.gone : x \in NamesByCascade(d[g])
  BY DEF Deleting, WritesNone
<1>4. /\ DOMAIN v = DOMAIN d \ t.gone /\ \A k \in DOMAIN v : v[k] = d[k]
      /\ Typed(v) /\ Resolved(v) /\ None \notin DOMAIN v
  <2>1. Remains(d, t.gone, v)
    BY <1>1, <1>3, ViewAfterGone
  <2> QED BY <2>1 DEF Remains
<1>5. Len(t.todo) \in Nat /\ Len(t.todo) > 0 /\ s = t.todo[1]
  BY <1>2
<1>6. \A g \in t.gone : g \in DOMAIN d
  BY DEF Granted
<1>6a. Len(t.todo) = 1 \/ (Len(t.todo) > 1 /\ Len(t.todo) # 1)
  <2>1. PICK n \in Nat : n = Len(t.todo)
    BY <1>5
  <2>2. n > 0
    BY <1>5, <2>1
  <2>3. n = 1 \/ (n > 1 /\ n # 1)
    BY <2>2
  <2> QED BY <2>1, <2>3
<1>7. CASE Len(t.todo) = 1
  <2>1. new.todo = <<>> /\ s.op = "delete" /\ s.id = x
    <3>1. s = Delete(x)
      BY <1>3, <1>5, <1>7
    <3>3. new.todo = <<>>
      BY <1>2, <1>7, Tails
    <3>4. s.op = "delete" /\ s.id = x
      BY <3>1 DEF Delete, Statement
    <3> QED BY <3>3, <3>4
  <2>2. Granted(d, r, new) /\ DOMAIN new.wrote = {} /\ new.gone = t.gone \cup Swept(v, {x} \cap DOMAIN v)
    <3>1. Granted(d, r, new) /\ WritesNone(new)
      BY <1>3, <2>1, DeleteGranted
    <3> QED BY <1>1, <2>1, <3>1 DEF WritesNone, Carried, Gone
  <2>3. ASSUME x \in DOMAIN d
        PROVE  new.gone = Swept(d, {x}) /\ Holders(d, {x}) = {}
    <3>1. x \in DOMAIN v
      BY <1>3, <1>4, <2>3, CascadesLeadElsewhere DEF Good
    <3>2. Holders(v, {x}) = {} /\ new.gone = t.gone \cup Swept(v, {x})
      BY <1>1, <2>1, <2>2, <3>1 DEF Succeeds
    <3>3. new.gone = Swept(d, {x})
      BY <1>3, <1>4, <1>6, <3>1, <3>2 DEF Swept
    <3>4. \A k \in DOMAIN d \ Swept(d, {x}) : Names(d[k]) \cap Swept(d, {x}) = {}
      <4> SUFFICES ASSUME NEW k \in DOMAIN d \ Swept(d, {x}), NEW g \in Names(d[k]), g \in Swept(d, {x})
                   PROVE  FALSE
        OBVIOUS
      <4>1. k \in DOMAIN v /\ v[k] = d[k] /\ k \notin Swept(v, {x})
        BY <1>4, <3>2, <3>3
      <4>2. g \in DOMAIN v
        BY <1>4, <4>1, NamedRows DEF Resolved
      <4>3. g \in Swept(v, {x})
        BY <1>4, <3>2, <3>3, <4>2
      <4> QED BY <3>2, <4>1, <4>3 DEF Holders
    <3> QED BY <3>3, <3>4 DEF Holders
  <2>4. ASSUME x \notin DOMAIN d PROVE new.gone = {}
    <3>1. t.gone = {}
      <4> SUFFICES ASSUME NEW g \in t.gone PROVE FALSE
        OBVIOUS
      <4>1. x \in Names(d[g]) /\ Resolves(d, d[g])
        BY <1>3, <1>6, CascadesAreNames DEF Good, Resolved
      <4> QED BY <2>4, <4>1, NamedRows
    <3>2. Swept(v, {x} \cap DOMAIN v) = {}
      BY <1>4, <2>4 DEF Swept
    <3> QED BY <2>2, <3>1, <3>2
  <2> QED BY <2>1, <2>2, <2>3, <2>4 DEF Deleting
<1>8. CASE Len(t.todo) > 1 /\ Len(t.todo) # 1
  <2>1. /\ new.todo \in Seq(S) /\ Len(new.todo) = Len(t.todo) - 1 /\ new.todo # <<>>
        /\ \A k \in 1..Len(new.todo) : new.todo[k] = t.todo[k + 1]
    <3>1. /\ Tail(t.todo) \in Seq(S) /\ Len(Tail(t.todo)) = Len(t.todo) - 1
          /\ \A k \in 1..(Len(t.todo) - 1) : Tail(t.todo)[k] = t.todo[k + 1]
      BY <1>2, Tails
    <3>2. new.todo # <<>>
      BY <1>2, <1>8, Tails
    <3> QED BY <3>1, <3>2
  <2>2. /\ new.todo[Len(new.todo)] = Delete(x)
        /\ \A k \in 1..Len(new.todo) : k # Len(new.todo) =>
              \/ new.todo[k] \in {Clear(x), Collect(x), Take(x)}
              \/ \E i : new.todo[k] = Unlink(i) /\ Known(i, oks) /\ HangsOn(d, i, x)
    BY <1>3, <1>5, <1>8, <2>1
  <2>3. s \in {Clear(x), Take(x)} \/ \E i : s = Unlink(i) /\ HangsOn(d, i, x)
    BY <1>3, <1>5, <1>8 DEF Reads, Collect, Statement
  <2>4. ASSUME s = Clear(x)
        PROVE  /\ s.op \in {"clear", "unlink"}
               /\ s.op = "unlink" => (s.id \in DOMAIN d => d[s.id].table = "unit_weapons")
               /\ \A g \in Gone(v, s) : x \in NamesByCascade(d[g])
    <3>1. s.op = "clear" /\ s.id = x
      BY <2>4 DEF Clear, Statement
    <3>2. ASSUME NEW g \in EntriesOf(v, x) PROVE x \in NamesByCascade(d[g])
      <4>1. g \in DOMAIN d /\ v[g] = d[g] /\ IsRow(d[g])
        BY <1>4, <3>2 DEF EntriesOf, Of, Good, Typed
      <4>2. \/ /\ d[g].table = "army_units" /\ d[g].army_id = x
               /\ "army_id" \in Columns(d[g]) /\ <<d[g].table, "army_id">> \in Cascades
            \/ /\ d[g].table = "user_unit" /\ d[g].owner_user_id = x
               /\ "owner_user_id" \in Columns(d[g]) /\ <<d[g].table, "owner_user_id">> \in Cascades
        BY <3>2, <4>1 DEF EntriesOf, Of, IsRow, Schema, Columns, Refers, Cascades
      <4> QED BY <4>2 DEF NamesByCascade
    <3> QED BY <3>1, <3>2 DEF Gone
  <2>5. ASSUME NEW i, s = Unlink(i), HangsOn(d, i, x)
        PROVE  /\ s.op \in {"clear", "unlink"}
               /\ s.op = "unlink" => (s.id \in DOMAIN d => d[s.id].table = "unit_weapons")
               /\ \A g \in Gone(v, s) : x \in NamesByCascade(d[g])
    <3>1. s.op = "unlink" /\ s.id = i
      BY <2>5 DEF Unlink, Statement
    <3>2. i \in DOMAIN v /\ i \in DOMAIN d /\ v[i] = d[i] /\ d[i].table = "unit_weapons" /\ x \in Names(d[i])
      BY <1>1, <1>4, <2>5, <3>1 DEF Succeeds, HangsOn
    <3>3. Gone(v, s) = {i}
      BY <1>4, <3>1, <3>2, LeafGoes DEF Gone
    <3>4. \A c \in Columns(d[i]) : <<d[i].table, c>> \in Cascades
      BY <3>2 DEF Good, Typed, IsRow, Schema, Columns, Refers, Cascades
    <3>5. x \in NamesByCascade(d[i])
      BY <3>2, <3>4 DEF Names, NamesByCascade
    <3> QED BY <3>1, <3>2, <3>3, <3>5
  <2>6. ASSUME s # Take(x)
        PROVE  /\ Granted(d, r, new) /\ WritesNone(new) /\ new.gone = t.gone \cup Gone(v, s)
               /\ \A g \in Gone(v, s) : x \in NamesByCascade(d[g])
    <3>1. /\ s.op \in {"clear", "unlink"}
          /\ s.op = "unlink" => (s.id \in DOMAIN d => d[s.id].table = "unit_weapons")
          /\ \A g \in Gone(v, s) : x \in NamesByCascade(d[g])
      BY <2>3, <2>4, <2>5, <2>6
    <3>2. Granted(d, r, new) /\ WritesNone(new)
      BY <1>3, <3>1, DeleteGranted
    <3> QED BY <1>1, <3>1, <3>2 DEF Carried
  <2>6a. ASSUME s = Take(x)
         PROVE  /\ Granted(d, r, new) /\ WritesNone(new) /\ new.gone = t.gone \cup Gone(v, s)
                /\ \A g \in Gone(v, s) : x \in NamesByCascade(d[g])
    <3>1. s.op = "take"
      BY <2>6a DEF Take, Statement
    <3>2. Gone(v, s) = {} /\ ~Leaves(s)
      BY <3>1 DEF Gone, Leaves
    <3>3. /\ new.wrote = t.wrote /\ new.gone = t.gone
          /\ t.locks \subseteq new.locks /\ t.shares \subseteq new.shares
      BY <1>1, <3>2 DEF Carried
    <3>4. Granted(d, r, new)
      BY <3>3, MoreIsGranted
    <3> QED BY <1>3, <3>2, <3>3, <3>4 DEF WritesNone
  <2>7. /\ Granted(d, r, new) /\ DOMAIN new.wrote = {} /\ new.gone = t.gone \cup Gone(v, s)
        /\ \A g \in Gone(v, s) : x \in NamesByCascade(d[g])
    BY <2>6, <2>6a DEF WritesNone
  <2>8. \A g \in new.gone : x \in NamesByCascade(d[g])
    BY <1>3, <2>7
  <2>9. \E Q : new.todo \in Seq(Q)
    BY <2>1
  <2>10. DOMAIN new.wrote = {}
    BY <2>7 DEF WritesNone
  <2>11. Granted(d, r, new) /\ new.todo # <<>>
    BY <2>1, <2>7
  <2> QED BY <2>2, <2>8, <2>9, <2>10, <2>11 DEF Deleting
<1> QED BY <1>6a, <1>7, <1>8

LEMMA SeedingExecutes ==
  ASSUME NEW d, Good(d), NEW r \in Requests, NEW t, Granted(d, r, t),
         NEW oks, r \notin oks, \A i \in DOMAIN d : Known(i, oks),
         NEW j, j.kind = "seed", Asks(j), Seeding(j, r, t), t.todo # <<>>,
         NEW s, s = Head(t.todo), ~Reads(s),
         Succeeds(Overlay(d, t.wrote, t.gone), s),
         NEW new, Carried(d, t, s, new), new.todo = Tail(t.todo)
  PROVE  Granted(d, r, new) /\ Seeding(j, r, new)
<1>1. PICK S : t.todo \in Seq(S)
  BY DEF Seeding
<1>2. PICK rows \in Nat : rows = Len(j.rows)
  BY DEF Asks
<1>3. PICK len \in Nat : len = Len(t.todo)
  BY <1>1, Tails
<1>4. /\ t.gone = {} /\ len <= rows
      /\ \A k \in 1..len : SeedStatement(j, r, rows - len + k, t.todo[k])
      /\ \A i \in DOMAIN t.wrote : \E m \in 1..(rows - len) : i = NewId(r, m)
  BY <1>2, <1>3 DEF Seeding
<1>5. DOMAIN j.rows = 1..rows /\ \A n \in 1..rows : IsRow(j.rows[n])
  BY <1>2 DEF Asks
<1>6. /\ len > 0 /\ s = t.todo[1] /\ new.todo \in Seq(S) /\ Len(new.todo) = len - 1
      /\ \A k \in 1..(len - 1) : new.todo[k] = t.todo[k + 1]
  BY <1>1, <1>3, Tails
<1> DEFINE n == rows - len + 1
<1>7. n \in 1..rows /\ n \in Nat /\ n = rows - (len - 1)
  BY <1>4, <1>6
<1> HIDE DEF n
<1>8. s.op = "insert" /\ s.id = NewId(r, n) /\ s.row = j.rows[n] /\ IsRow(s.row)
  <2>1. SeedStatement(j, r, n, s)
    <3>1. 1 \in 1..len /\ rows - len + 1 = n
      BY <1>6 DEF n
    <3>2. SeedStatement(j, r, rows - len + 1, t.todo[1])
      BY <1>4, <3>1
    <3> QED BY <1>6, <3>1, <3>2
  <2> QED BY <1>5, <1>7, <2>1 DEF SeedStatement, Reads
<1>8a. s.id \notin DOMAIN d \cup DOMAIN t.wrote
  <2>1. s.id \notin DOMAIN d
    <3>1. PICK m \in Nat : s.id = <<r, m>>
      BY <1>7, <1>8 DEF NewId
    <3>2. <<r, m>> \in Requests \X Nat /\ <<r, m>>[1] = r
      OBVIOUS
    <3> QED BY <3>1, <3>2 DEF Known
  <2>2. s.id \notin DOMAIN t.wrote
    <3> SUFFICES ASSUME s.id \in DOMAIN t.wrote PROVE FALSE
      OBVIOUS
    <3>1. PICK m \in 1..(rows - len) : s.id = NewId(r, m)
      BY <1>4
    <3>2. m = n
      BY <1>8, <3>1 DEF NewId
    <3> QED BY <1>7, <3>1, <3>2
  <2> QED BY <2>1, <2>2
<1>9. Granted(d, r, new)
  BY <1>4, <1>7, <1>8, <1>8a, InsertGranted
<1>10. new.gone = {} /\ DOMAIN new.wrote = DOMAIN t.wrote \cup {s.id}
  BY <1>4, <1>8 DEF Carried, Leaves, With, Gone
<1>11. \A i \in DOMAIN new.wrote : \E m \in 1..(rows - (len - 1)) : i = NewId(r, m)
  <2> SUFFICES ASSUME NEW i \in DOMAIN new.wrote
               PROVE  \E m \in 1..(rows - (len - 1)) : i = NewId(r, m)
    OBVIOUS
  <2>1. CASE i = s.id
    <3>1. n \in 1..(rows - (len - 1))
      BY <1>7
    <3> QED BY <1>8, <2>1, <3>1
  <2>2. CASE i \in DOMAIN t.wrote
    <3>1. PICK m \in 1..(rows - len) : i = NewId(r, m)
      BY <1>4, <2>2
    <3>2. m \in 1..(rows - (len - 1))
      OBVIOUS
    <3> QED BY <3>1, <3>2
  <2> QED BY <1>10, <2>1, <2>2
<1>12. \A k \in 1..(len - 1) : SeedStatement(j, r, rows - (len - 1) + k, new.todo[k])
  <2> SUFFICES ASSUME NEW k \in 1..(len - 1)
               PROVE  SeedStatement(j, r, rows - (len - 1) + k, new.todo[k])
    OBVIOUS
  <2>1. k + 1 \in 1..len /\ rows - len + (k + 1) = rows - (len - 1) + k
    OBVIOUS
  <2>2. SeedStatement(j, r, rows - len + (k + 1), t.todo[k + 1])
    BY <1>4, <2>1
  <2> QED BY <1>6, <2>1, <2>2
<1>13. len - 1 <= rows
  BY <1>4
<1> QED BY <1>2, <1>6, <1>9, <1>10, <1>11, <1>12, <1>13 DEF Seeding

LEMMA ExecuteKeeps ==
  ASSUME NEW d, Good(d), NEW r \in Requests, NEW t, Granted(d, r, t),
         NEW oks, r \notin oks, \A i \in DOMAIN d : Known(i, oks),
         NEW j, Asks(j), Line(d, j, r, t, oks), t.todo # <<>>,
         NEW s, s = Head(t.todo), ~Reads(s),
         Succeeds(Overlay(d, t.wrote, t.gone), s),
         NEW new, Carried(d, t, s, new), new.todo = Tail(t.todo), new.loaded = t.loaded
  PROVE  Granted(d, r, new) /\ Line(d, j, r, new, oks)
<1>1. CASE j.kind \in {"add", "create", "link"}
  BY <1>1, AddingExecutes DEF Line
<1>2. CASE j.kind \in {"set", "update"}
  BY <1>2, ChangingExecutes DEF Line
<1>3. CASE j.kind \in {"remove", "unlink"}
  BY <1>3, RemovingExecutes DEF Line
<1>4. CASE j.kind = "delete"
  BY <1>4, DeletingExecutes DEF Line
<1>5. CASE j.kind = "seed"
  BY <1>5, SeedingExecutes DEF Line
<1>6. j.kind \in {"add", "set", "remove", "create", "update", "delete", "link", "unlink", "seed"}
  BY DEF Asks
<1> QED BY <1>1, <1>2, <1>3, <1>4, <1>5, <1>6

-----------------------------------------------------------------------------
(* What a request looks for and decides *)

LEMMA Sequenced ==
  ASSUME NEW S, IsFiniteSet(S)
  PROVE  SetToSeq(S) \in [1..Cardinality(S) -> S] /\ SetToSeq(S) \in Seq(S) /\ IsInjective(SetToSeq(S))
<1>1. Cardinality(S) \in Nat /\ \E f : f \in Bijection(1..Cardinality(S), S)
  BY FS_CardinalityType DEF ExistsBijection
<1>2. \E f \in [1..Cardinality(S) -> S] : IsInjective(f)
  BY <1>1 DEF Bijection, Injection
<1>3. SetToSeq(S) \in [1..Cardinality(S) -> S] /\ IsInjective(SetToSeq(S))
  BY <1>2 DEF SetToSeq
<1> QED BY <1>1, <1>3

LEMMA SequencedFew ==
  /\ SetToSeq({}) = <<>>
  /\ \A x : SetToSeq({x}) = <<x>>
<1>1. SetToSeq({}) \in Seq({})
  BY Sequenced, FS_EmptySet
<1>2. SetToSeq({}) = <<>>
  BY <1>1
<1>3. ASSUME NEW x PROVE SetToSeq({x}) = <<x>>
  <2>1. Cardinality({x}) = 1 /\ IsFiniteSet({x})
    BY FS_Singleton
  <2>2. SetToSeq({x}) \in [1..1 -> {x}] /\ SetToSeq({x}) \in Seq({x})
    BY <2>1, Sequenced
  <2> QED BY <2>2
<1> QED BY <1>2, <1>3

LEMMA Unlinks ==
  ASSUME NEW L, IsFiniteSet(L), NEW u \in SetToSeqs({Unlink(i) : i \in L})
  PROVE  u \in Seq({Unlink(i) : i \in L}) /\ IsInjective(u)
<1>1. PICK f : f = [i \in L |-> Unlink(i)]
  OBVIOUS
<1>2. f \in Surjection(L, {Unlink(i) : i \in L})
  BY <1>1 DEF Surjection
<1>3. PICK S : S = {Unlink(i) : i \in L}
  OBVIOUS
<1>4. IsFiniteSet(S)
  BY <1>2, <1>3, FS_Surjection
<1>5. Cardinality(S) \in Nat
  BY <1>4, FS_CardinalityType
<1>6. u \in [1..Cardinality(S) -> S] /\ \A m, n \in 1..Cardinality(S) : m # n => u[m] # u[n]
  BY <1>3 DEF SetToSeqs
<1>7. u \in Seq(S) /\ IsInjective(u)
  BY <1>5, <1>6 DEF IsInjective
<1> QED BY <1>3, <1>7

(* The links a deletion finds hang on to what it deletes, and come before  *)
(* it.                                                                     *)
LEMMA GatherKeeps ==
  ASSUME NEW d, Good(d), NEW r, NEW t, Granted(d, r, t), NEW oks, \A i \in DOMAIN d : Known(i, oks),
         NEW j, Deleting(d, j, t, oks), t.todo # <<>>, Head(t.todo).op = "collect",
         NEW links, links = LinksOf(Overlay(d, t.wrote, t.gone), Head(t.todo).id),
         NEW u \in SetToSeqs({Unlink(i) : i \in links}),
         NEW new, new.wrote = t.wrote, new.gone = t.gone, new.todo = u \o Tail(t.todo)
  PROVE  Deleting(d, j, new, oks)
<1>1. PICK v : v = Overlay(d, t.wrote, t.gone)
  OBVIOUS
<1>2. PICK S : t.todo \in Seq(S)
  BY DEF Deleting
<1>3. /\ WritesNone(t) /\ t.todo[Len(t.todo)] = Delete(j.id)
      /\ \A k \in 1..Len(t.todo) : k # Len(t.todo) =>
            \/ t.todo[k] \in {Clear(j.id), Collect(j.id), Take(j.id)}
            \/ \E i : t.todo[k] = Unlink(i) /\ Known(i, oks) /\ HangsOn(d, i, j.id)
      /\ \A g \in t.gone : j.id \in NamesByCascade(d[g])
  BY DEF Deleting, WritesNone
<1>4. /\ DOMAIN v = DOMAIN d \ t.gone /\ \A k \in DOMAIN v : v[k] = d[k]
      /\ Typed(v) /\ Resolved(v) /\ None \notin DOMAIN v
  <2>1. Remains(d, t.gone, v)
    BY <1>1, <1>3, ViewAfterGone
  <2> QED BY <2>1 DEF Remains
<1>5. PICK len \in Nat : len = Len(t.todo)
  BY <1>2, Tails
<1>6. /\ len > 0 /\ Head(t.todo) = t.todo[1] /\ Tail(t.todo) \in Seq(S) /\ Len(Tail(t.todo)) = len - 1
      /\ \A k \in 1..(len - 1) : Tail(t.todo)[k] = t.todo[k + 1]
  BY <1>2, <1>5, Tails
<1>7. len # 1
  <2> SUFFICES ASSUME len = 1 PROVE FALSE
    OBVIOUS
  <2>1. Head(t.todo) = Delete(j.id)
    BY <1>3, <1>5, <1>6
  <2> QED BY <2>1 DEF Delete, Statement
<1>8. Head(t.todo).id = j.id
  <2>1. 1 \in 1..len /\ 1 # len
    BY <1>6, <1>7
  <2>2. \/ Head(t.todo) \in {Clear(j.id), Collect(j.id), Take(j.id)}
        \/ \E i : Head(t.todo) = Unlink(i)
    BY <1>3, <1>5, <1>6, <2>1
  <2>3. PICK h : h = Head(t.todo)
    OBVIOUS
  <2>4. h.op = "collect" /\ (h \in {Clear(j.id), Collect(j.id), Take(j.id)} \/ \E i : h = Unlink(i))
    BY <2>2, <2>3
  <2>5. h.id = j.id
    BY <2>4 DEF Clear, Collect, Take, Unlink, Statement
  <2> QED BY <2>3, <2>5
<1>9. links = LinksOf(v, j.id)
  BY <1>1, <1>8
<1>10. \A i \in links : Known(i, oks) /\ HangsOn(d, i, j.id)
  BY <1>4, <1>9 DEF LinksOf, Of, HangsOn
<1>11. IsFiniteSet(links)
  <2>1. links \subseteq DOMAIN d /\ IsFiniteSet(DOMAIN d)
    BY <1>4, <1>9 DEF LinksOf, Of, Good
  <2> QED BY <2>1, FS_Subset
<1>13. u \in Seq({Unlink(i) : i \in links})
  BY <1>11, Unlinks
<1>14. PICK m \in Nat : m = Len(u)
  BY <1>13
<1>15. \A k \in 1..m : \E i \in links : u[k] = Unlink(i)
  BY <1>13, <1>14, ElementOfSeq
<1>16. PICK w : w = Tail(t.todo)
  OBVIOUS
<1>17. /\ new.todo = u \o w /\ w \in Seq(S) /\ Len(w) = len - 1
       /\ \A k \in 1..(len - 1) : w[k] = t.todo[k + 1]
  BY <1>6, <1>16
<1>18. PICK Q : u \in Seq(Q) /\ w \in Seq(Q)
  <2>1. u \in Seq({Unlink(i) : i \in links} \cup S)
    BY <1>13
  <2>2. w \in Seq({Unlink(i) : i \in links} \cup S)
    BY <1>17
  <2> QED BY <2>1, <2>2
<1>19. /\ u \o w \in Seq(Q) /\ Len(u \o w) = m + (len - 1)
       /\ \A k \in 1..(m + (len - 1)) : (u \o w)[k] = IF k <= m THEN u[k] ELSE w[k - m]
  <2>1. /\ u \o w \in Seq(Q) /\ Len(u \o w) = Len(u) + Len(w)
        /\ \A k \in 1..(Len(u) + Len(w)) : (u \o w)[k] = IF k <= Len(u) THEN u[k] ELSE w[k - Len(u)]
    BY <1>18, ConcatProperties
  <2> QED BY <1>14, <1>17, <2>1
<1>20. (u \o w)[m + (len - 1)] = Delete(j.id)
  <2>1. /\ m + (len - 1) \in 1..(m + (len - 1)) /\ ~(m + (len - 1) <= m)
        /\ (m + (len - 1)) - m = len - 1 /\ len - 1 \in 1..(len - 1) /\ (len - 1) + 1 = len
    BY <1>6, <1>7
  <2>2. (u \o w)[m + (len - 1)] = w[len - 1]
    BY <1>19, <2>1
  <2> QED BY <1>3, <1>5, <1>17, <2>1, <2>2
<1>21. ASSUME NEW k \in 1..(m + (len - 1)), k # m + (len - 1)
       PROVE  \/ (u \o w)[k] \in {Clear(j.id), Collect(j.id), Take(j.id)}
              \/ \E i : (u \o w)[k] = Unlink(i) /\ Known(i, oks) /\ HangsOn(d, i, j.id)
  <2>1. CASE k <= m
    <3>1. k \in 1..m /\ (u \o w)[k] = u[k]
      BY <1>19, <2>1
    <3> QED BY <1>10, <1>15, <3>1
  <2>2. CASE ~(k <= m)
    <3>1. k - m \in 1..(len - 1) /\ (k - m) + 1 \in 1..len /\ (k - m) + 1 # len
      BY <1>21, <2>2
    <3>2. (u \o w)[k] = t.todo[(k - m) + 1]
      BY <1>17, <1>19, <2>2, <3>1
    <3> QED BY <1>3, <1>5, <3>1, <3>2
  <2> QED BY <2>1, <2>2
<1>22. new.todo \in Seq(Q) /\ Len(new.todo) = m + (len - 1) /\ new.todo # <<>>
  <2>1. m + (len - 1) # 0
    BY <1>6, <1>7
  <2>2. Len(<<>>) = 0
    BY EmptySeq
  <2> QED BY <1>17, <1>19, <2>1, <2>2
<1>23. /\ new.todo[Len(new.todo)] = Delete(j.id)
       /\ \A k \in 1..Len(new.todo) : k # Len(new.todo) =>
            \/ new.todo[k] \in {Clear(j.id), Collect(j.id), Take(j.id)}
            \/ \E i : new.todo[k] = Unlink(i) /\ Known(i, oks) /\ HangsOn(d, i, j.id)
  BY <1>17, <1>20, <1>21, <1>22
<1>24. DOMAIN new.wrote = {}
  BY <1>3 DEF WritesNone
<1> QED BY <1>3, <1>22, <1>23, <1>24 DEF Deleting

LEMMA Joined ==
  ASSUME NEW S, NEW w \in Seq(S), NEW x, NEW len \in Nat, len = Len(w)
  PROVE  /\ <<x>> \o w \in Seq(S \cup {x}) /\ Len(<<x>> \o w) = len + 1
         /\ (<<x>> \o w)[1] = x /\ \A k \in 2..(len + 1) : (<<x>> \o w)[k] = w[k - 1]
<1>1. <<x>> \in Seq(S \cup {x}) /\ w \in Seq(S \cup {x}) /\ Len(<<x>>) = 1 /\ <<x>>[1] = x
  OBVIOUS
<1>2. /\ <<x>> \o w \in Seq(S \cup {x}) /\ Len(<<x>> \o w) = 1 + len
      /\ \A k \in 1..(1 + len) : (<<x>> \o w)[k] = IF k <= 1 THEN <<x>>[k] ELSE w[k - 1]
  BY <1>1, ConcatProperties
<1>3. 1 \in 1..(1 + len) /\ \A k \in 2..(len + 1) : k \in 1..(1 + len) /\ ~(k <= 1)
  OBVIOUS
<1> QED BY <1>1, <1>2, <1>3

(* The seed creates what its look-up did not find, and goes on. *)
LEMMA SeekKeeps ==
  ASSUME NEW r, NEW t, NEW j, Asks(j), j.kind = "seed", Seeding(j, r, t),
         t.todo # <<>>, Head(t.todo).op = "ensure",
         NEW new, new.wrote = t.wrote, new.gone = t.gone,
         \/ new.todo = <<Insert(Head(t.todo).id, Head(t.todo).row)>> \o Tail(t.todo)
         \/ new.todo = <<>> \o Tail(t.todo)
  PROVE  Seeding(j, r, new)
<1>1. PICK S : t.todo \in Seq(S)
  BY DEF Seeding
<1>2. PICK rows \in Nat : rows = Len(j.rows)
  BY DEF Asks
<1>3. PICK len \in Nat : len = Len(t.todo)
  BY <1>1, Tails
<1>4. PICK h : h = Head(t.todo)
  OBVIOUS
<1>5. PICK w : w = Tail(t.todo)
  OBVIOUS
<1>6. /\ t.gone = {} /\ len <= rows
      /\ \A k \in 1..len : SeedStatement(j, r, rows - len + k, t.todo[k])
      /\ \A i \in DOMAIN t.wrote : \E m \in 1..(rows - len) : i = NewId(r, m)
  BY <1>2, <1>3 DEF Seeding
<1>7. /\ len > 0 /\ h = t.todo[1] /\ w \in Seq(S) /\ Len(w) = len - 1
      /\ \A k \in 1..(len - 1) : w[k] = t.todo[k + 1]
  BY <1>1, <1>3, <1>4, <1>5, Tails
<1>8. SeedStatement(j, r, rows - len + 1, h)
  BY <1>6, <1>7
<1>9. CASE new.todo = <<Insert(h.id, h.row)>> \o w
  <2>1. PICK u : u = <<Insert(h.id, h.row)>> \o w
    OBVIOUS
  <2>2. PICK k0 \in Nat : k0 = len - 1
    BY <1>7
  <2>3. /\ u \in Seq(S \cup {Insert(h.id, h.row)}) /\ Len(u) = k0 + 1
        /\ u[1] = Insert(h.id, h.row) /\ \A k \in 2..(k0 + 1) : u[k] = w[k - 1]
    BY <1>7, <2>1, <2>2, Joined
  <2>4. SeedStatement(j, r, rows - len + 1, u[1])
    BY <1>8, <2>3 DEF SeedStatement, Insert, Statement
  <2>5. ASSUME NEW k \in 2..len PROVE SeedStatement(j, r, rows - len + k, u[k])
    <3>1. k \in 2..(k0 + 1) /\ k - 1 \in 1..(len - 1) /\ (k - 1) + 1 = k /\ k \in 1..len
      BY <2>2
    <3>2. u[k] = t.todo[k]
      BY <1>7, <2>3, <3>1
    <3> QED BY <1>6, <3>1, <3>2
  <2>6. \A k \in 1..len : k = 1 \/ k \in 2..len
    OBVIOUS
  <2>7. \A k \in 1..len : SeedStatement(j, r, rows - len + k, u[k])
    BY <2>4, <2>5, <2>6
  <2>8. new.todo = u /\ Len(u) = len
    BY <1>9, <2>1, <2>2, <2>3
  <2>9. \E Q : u \in Seq(Q)
    BY <2>3
  <2> QED BY <1>2, <1>6, <2>7, <2>8, <2>9 DEF Seeding
<1>10. CASE new.todo = <<>> \o w
  <2>1. new.todo = w
    BY <1>7, <1>10
  <2>2. ASSUME NEW k \in 1..(len - 1) PROVE SeedStatement(j, r, rows - (len - 1) + k, w[k])
    <3>1. k + 1 \in 1..len /\ rows - len + (k + 1) = rows - (len - 1) + k
      OBVIOUS
    <3>2. SeedStatement(j, r, rows - len + (k + 1), t.todo[k + 1])
      BY <1>6, <3>1
    <3> QED BY <1>7, <3>1, <3>2
  <2>3. ASSUME NEW i \in DOMAIN t.wrote PROVE \E m \in 1..(rows - (len - 1)) : i = NewId(r, m)
    <3>1. PICK m \in 1..(rows - len) : i = NewId(r, m)
      BY <1>6
    <3>2. m \in 1..(rows - (len - 1))
      OBVIOUS
    <3> QED BY <3>1, <3>2
  <2>4. len - 1 <= rows
    BY <1>6
  <2>5. \E Q : w \in Seq(Q)
    BY <1>7
  <2> QED BY <1>2, <1>6, <1>7, <2>1, <2>2, <2>3, <2>4, <2>5 DEF Seeding
<1> QED BY <1>4, <1>5, <1>9, <1>10

(* A list has a unit in one entry, and a unit a weapon by one link.        *)
LEMMA OneEntry ==
  ASSUME NEW d, Good(d), NEW list, NEW unit,
         NEW i \in Entry(d, list, unit), NEW k \in Entry(d, list, unit), d[i].table = d[k].table
  PROVE  i = k
<1>1. /\ i \in DOMAIN d /\ k \in DOMAIN d /\ IsRow(d[i]) /\ IsRow(d[k])
      /\ d[i].unit_id = unit /\ d[k].unit_id = unit
      /\ d[i].table \in {"army_units", "user_unit"}
      /\ d[i].table = "army_units" => d[i].army_id = list /\ d[k].army_id = list
      /\ d[i].table = "user_unit" => d[i].owner_user_id = list /\ d[k].owner_user_id = list
  BY DEF Entry, EntriesOf, Of, Good, Typed
<1>2. d[i].table = "army_units" => SameKey(d[i], d[k])
  BY <1>1 DEF SameKey, Keyed, Key, UniqueKey
<1>3. d[i].table = "user_unit" => SameKey(d[i], d[k])
  BY <1>1 DEF SameKey, Keyed, Key, UniqueKey
<1> QED BY <1>1, <1>2, <1>3 DEF Good, KeysDiffer

LEMMA OneLink ==
  ASSUME NEW d, Good(d), NEW j, NEW i \in TheLink(d, j), NEW k \in TheLink(d, j)
  PROVE  i = k
<1>1. SameKey(d[i], j.row) /\ SameKey(d[k], j.row) /\ i \in DOMAIN d /\ k \in DOMAIN d
  BY DEF TheLink, LinksOf, Of
<1>2. SameKey(d[i], d[k])
  BY <1>1 DEF SameKey
<1> QED BY <1>1, <1>2 DEF Good, KeysDiffer

(* What is decided: a change of what differs from the row as it was, or    *)
(* nothing.                                                                *)
LEMMA DecidesChange ==
  ASSUME NEW d, NEW j, NEW oks, NEW i, Known(i, oks), Aimed(d, j, i), NEW row, NEW changes,
         \A C \in SUBSET DOMAIN changes : [c \in C |-> changes[c]] \in ChangesOf(j) \/ C = {},
         \A C \in SUBSET DOMAIN changes : i \in DOMAIN d => Fits(d[i], [c \in C |-> changes[c]]),
         NEW new, DOMAIN new.wrote = {}, new.gone = {}, new.todo = UpdateIfMoved(i, row, changes),
         DOMAIN Moved(row, changes) # {} => Moved(row, changes) = Sent(j, new)
  PROVE  Changing(d, j, new, oks)
<1>1. CASE DOMAIN Moved(row, changes) = {}
  BY <1>1 DEF UpdateIfMoved, Changing
<1>2. CASE DOMAIN Moved(row, changes) # {}
  <2>1. PICK c : c = Moved(row, changes)
    OBVIOUS
  <2>2. PICK C \in SUBSET DOMAIN changes : c = [k \in C |-> changes[k]] /\ C = DOMAIN c
    BY <2>1 DEF Moved
  <2>3. c = Sent(j, new) /\ c \in ChangesOf(j) /\ (i \in DOMAIN d => Fits(d[i], c))
    BY <1>2, <2>1, <2>2
  <2>4. new.todo = <<Update(i, c)>>
    BY <1>2, <2>1 DEF UpdateIfMoved
  <2> QED BY <2>3, <2>4 DEF Changing
<1> QED BY <1>1, <1>2

EndsWith(q, a, b, c, e) ==
  /\ q # <<>> /\ q[Len(q)] = e /\ q \in Seq({a, b, c, e})
  /\ \A k \in 1..Len(q) : k # Len(q) => q[k] \in {a, b, c}

LEMMA LastOf ==
  ASSUME NEW a, NEW b, NEW c, NEW e, NEW q,
         q = <<a, b, c, e>> \/ q = <<b, c, e>> \/ q = <<c, e>>
  PROVE  EndsWith(q, a, b, c, e)
<1> USE DEF EndsWith
<1>1. CASE q = <<a, b, c, e>>
  <2>1. /\ Len(q) = 4 /\ q[1] = a /\ q[2] = b /\ q[3] = c /\ q[4] = e
        /\ q # <<>> /\ q \in Seq({a, b, c, e})
    BY <1>1
  <2>2. \A k \in 1..4 : k # 4 => k = 1 \/ k = 2 \/ k = 3
    OBVIOUS
  <2> QED BY <2>1, <2>2
<1>2. CASE q = <<b, c, e>>
  <2>1. Len(q) = 3 /\ q[1] = b /\ q[2] = c /\ q[3] = e /\ q # <<>> /\ q \in Seq({a, b, c, e})
    BY <1>2
  <2>2. \A k \in 1..3 : k # 3 => k = 1 \/ k = 2
    OBVIOUS
  <2> QED BY <2>1, <2>2
<1>3. CASE q = <<c, e>>
  <2>1. Len(q) = 2 /\ q[1] = c /\ q[2] = e /\ q # <<>> /\ q \in Seq({a, b, c, e})
    BY <1>3
  <2>2. \A k \in 1..2 : k # 2 => k = 1
    OBVIOUS
  <2> QED BY <2>1, <2>2
<1> QED BY <1>1, <1>2, <1>3

LEMMA PlanKeeps ==
  ASSUME NEW r \in Requests, Good(db), NEW oks, \A i \in DOMAIN db : Known(i, oks),
         NEW j, j = job[r], Asks(j), HasSubject(j) => Subject(db, j, oks), Accepts(db, j),
         NEW new, DOMAIN new.wrote = {}, new.gone = {}, new.todo = Plan(r),
         new.loaded = tx[r].loaded
  PROVE  Line(db, j, r, new, oks)
<1>1. CASE j.kind = "add"
  <2>1. new.todo = <<Insert(NewId(r, 1), AddedRow(j))>>
    BY <1>1 DEF Plan, AddedRow
  <2>2. IsRow(AddedRow(j))
    <3>1. j.amount \in 1..IntMax /\ j.table \in {"armies", "users"}
      BY <1>1 DEF Asks, Accepts, AmountAllowed
    <3> QED BY <1>1, <3>1 DEF AddedRow, EntryRow, IsRow, Schema
  <2>3. Adding(j, r, new)
    BY <2>1, <2>2 DEF Adding
  <2> QED BY <1>1, <2>3 DEF Line
<1>2. CASE j.kind = "create"
  <2>1. new.todo = <<Insert(NewId(r, 1), AddedRow(j))>>
    BY <1>2 DEF Plan, AddedRow
  <2>2. IsRow(AddedRow(j))
    BY <1>2 DEF AddedRow, Asks
  <2>3. Adding(j, r, new)
    BY <2>1, <2>2 DEF Adding
  <2> QED BY <1>2, <2>3 DEF Line
<1>3. CASE j.kind = "link"
  <2>1. new.todo = <<Insert(NewId(r, 1), AddedRow(j))>> \/ new.todo = <<>>
    BY <1>3 DEF Plan, AddedRow
  <2>2. IsRow(AddedRow(j))
    BY <1>3 DEF AddedRow, Asks
  <2>3. Adding(j, r, new)
    BY <2>1, <2>2 DEF Adding
  <2> QED BY <1>3, <2>3 DEF Line
<1>4. CASE j.kind = "set"
  <2>1. PICK i : i = TheEntry(db, j)
    OBVIOUS
  <2>2. i \in Entry(db, j.id, j.unit)
    BY <1>4, <2>1 DEF Accepts, TheEntry
  <2>3. i \in DOMAIN db /\ db[i].table \in {"army_units", "user_unit"}
    BY <2>2 DEF Entry, EntriesOf, Of
  <2>4. j.amount \in 1..IntMax
    BY <1>4 DEF Asks, Accepts, AmountAllowed
  <2>5. PICK changes : changes = [amount |-> j.amount]
    OBVIOUS
  <2>6. DOMAIN changes = {"amount"} /\ changes["amount"] = j.amount
    BY <2>5
  <2>7. ASSUME NEW C \in SUBSET DOMAIN changes
        PROVE  [c \in C |-> changes[c]] \in ChangesOf(j) \/ C = {}
    <3>1. C = {} \/ C = {"amount"}
      BY <2>6
    <3>2. [c \in {"amount"} |-> changes[c]] = changes
      BY <2>5
    <3> QED BY <1>4, <2>5, <3>1, <3>2 DEF ChangesOf
  <2>8. ASSUME NEW C \in SUBSET DOMAIN changes
        PROVE  Fits(db[i], [c \in C |-> changes[c]])
    <3>1. "amount" \in Schema[db[i].table] \ Steady(db[i].table)
      BY <2>3 DEF Steady, UniqueKey, Schema
    <3>2. PICK f : f = [c \in C |-> changes[c]]
      OBVIOUS
    <3>3. DOMAIN f \subseteq {"amount"} /\ ("amount" \in DOMAIN f => f["amount"] = j.amount)
      BY <2>6, <3>2
    <3>4. Fits(db[i], f)
      BY <2>4, <3>1, <3>3 DEF Fits
    <3> QED BY <3>2, <3>4
  <2>9. new.todo = UpdateIfMoved(i, db[i], changes)
    BY <1>4, <2>1, <2>5 DEF Plan
  <2>10. Known(i, oks)
    BY <2>3
  <2>11. DOMAIN Moved(db[i], changes) # {} => Moved(db[i], changes) = Sent(j, new)
    <3>1. PICK f : f = Moved(db[i], changes)
      OBVIOUS
    <3>2. f = [c \in DOMAIN f |-> changes[c]] /\ DOMAIN f \subseteq {"amount"}
      BY <2>6, <3>1 DEF Moved
    <3>3. DOMAIN f # {} => f = changes
      <4> SUFFICES ASSUME DOMAIN f # {} PROVE f = changes
        OBVIOUS
      <4>1. DOMAIN f = {"amount"}
        BY <3>2
      <4>2. f = [c \in {"amount"} |-> changes[c]]
        BY <3>2, <4>1
      <4>3. changes = [c \in {"amount"} |-> changes[c]]
        BY <2>5
      <4> QED BY <4>2, <4>3
    <3> QED BY <1>4, <2>5, <3>1, <3>3 DEF Sent
  <2>12. Aimed(db, j, i)
    BY <1>4, <2>2 DEF Aimed
  <2>13. Changing(db, j, new, oks)
    BY <2>7, <2>8, <2>9, <2>10, <2>11, <2>12, DecidesChange
  <2> QED BY <1>4, <2>13 DEF Line
<1>5. CASE j.kind = "update"
  <2>1. new.todo = UpdateIfMoved(j.id, tx[r].loaded, j.changes)
    BY <1>5 DEF Plan
  <2>2. Subject(db, j, oks)
    BY <1>5 DEF HasSubject
  <2>3. \A C \in SUBSET DOMAIN j.changes : [c \in C |-> j.changes[c]] \in ChangesOf(j)
    BY <1>5 DEF ChangesOf
  <2>4. ASSUME j.id \in DOMAIN db, NEW C \in SUBSET DOMAIN j.changes
        PROVE  Fits(db[j.id], [c \in C |-> j.changes[c]])
    <3>1. db[j.id].table = j.table
      BY <2>2, <2>4 DEF Subject, Found, Of
    <3>2. /\ j.table \in {"armies", "units", "weapons"}
          /\ DOMAIN j.changes \subseteq Schema[j.table] \ {"table", "owner_user_id"}
      BY <1>5 DEF Asks
    <3>3. "amount" \notin Schema[j.table] /\ UniqueKey[j.table] = {}
      BY <3>2 DEF Schema, UniqueKey
    <3>4. PICK f : f = [c \in C |-> j.changes[c]]
      OBVIOUS
    <3>5. DOMAIN f \subseteq DOMAIN j.changes
      BY <3>4
    <3>6. Fits(db[j.id], f)
      BY <3>1, <3>2, <3>3, <3>5 DEF Fits, Steady
    <3> QED BY <3>4, <3>6
  <2>5. Moved(tx[r].loaded, j.changes) = Sent(j, new) /\ Aimed(db, j, j.id)
    BY <1>5 DEF Sent, Aimed
  <2>6. Changing(db, j, new, oks)
    BY <2>1, <2>2, <2>3, <2>4, <2>5, DecidesChange DEF Subject
  <2> QED BY <1>5, <2>6 DEF Line
<1>6. CASE j.kind = "remove"
  <2>1. PICK i : i = TheEntry(db, j)
    OBVIOUS
  <2>2. i \in Entry(db, j.id, j.unit)
    BY <1>6, <2>1 DEF Accepts, TheEntry
  <2>3. i \in DOMAIN db /\ db[i].table \in {"army_units", "user_unit"} /\ db[i].unit_id = j.unit
    BY <2>2 DEF Entry, EntriesOf, Of
  <2>4. new.todo = <<Delete(i)>>
    BY <1>6, <2>1 DEF Plan, RemovePlan
  <2>5. Removing(db, j, new, oks)
    BY <1>6, <2>2, <2>3, <2>4 DEF Removing, Target
  <2> QED BY <1>6, <2>5 DEF Line
<1>7. CASE j.kind = "unlink"
  <2>1. new.todo = SetToSeq({Unlink(i) : i \in TheLink(db, j)})
    BY <1>7 DEF Plan
  <2>2. CASE TheLink(db, j) = {}
    <3>1. {Unlink(i) : i \in TheLink(db, j)} = {}
      BY <2>2
    <3>2. new.todo = <<>>
      BY <2>1, <3>1, SequencedFew
    <3>3. Removing(db, j, new, oks)
      BY <3>2 DEF Removing
    <3> QED BY <1>7, <3>3 DEF Line
  <2>3. CASE TheLink(db, j) # {}
    <3>1. PICK i : i \in TheLink(db, j)
      BY <2>3
    <3>2. TheLink(db, j) = {i}
      BY <3>1, OneLink
    <3>3. {Unlink(k) : k \in TheLink(db, j)} = {Unlink(i)}
      BY <3>2
    <3>4. new.todo = <<Unlink(i)>>
      BY <2>1, <3>3, SequencedFew
    <3>5. i \in DOMAIN db /\ db[i].table = "unit_weapons"
      BY <3>1 DEF TheLink, LinksOf, Of
    <3>6. Names(db[i]) = Names(j.row)
      <4>1. SameKey(db[i], j.row) /\ IsRow(db[i]) /\ IsRow(j.row)
        BY <1>7, <3>1 DEF TheLink, LinksOf, Of, Good, Typed, Asks
      <4>2. UniqueKey["unit_weapons"] = {"unit_id", "weapon_id"}
        BY DEF UniqueKey
      <4>3. db[i].unit_id = j.row.unit_id /\ db[i].weapon_id = j.row.weapon_id /\ j.row.table = "unit_weapons"
        BY <3>5, <4>1, <4>2 DEF SameKey, Key
      <4>4. Columns(db[i]) = {"unit_id", "weapon_id"} /\ Columns(j.row) = {"unit_id", "weapon_id"}
        BY <3>5, <4>1, <4>3 DEF Columns, IsRow, Schema, Refers
      <4> QED BY <4>3, <4>4 DEF Names
    <3>7. SameKey(db[i], j.row)
      BY <3>1 DEF TheLink
    <3>8. Removing(db, j, new, oks)
      BY <1>7, <3>4, <3>5, <3>6, <3>7 DEF Removing, Target
    <3> QED BY <1>7, <3>8 DEF Line
  <2> QED BY <2>2, <2>3
<1>8. CASE j.kind = "delete"
  <2>1. new.todo = DeletePlan(j.table, j.id)
    BY <1>8 DEF Plan
  <2>2. PICK q : q = new.todo
    OBVIOUS
  <2>3. \/ q = <<Clear(j.id), Collect(j.id), Take(j.id), Delete(j.id)>>
        \/ q = <<Collect(j.id), Take(j.id), Delete(j.id)>>
        \/ q = <<Take(j.id), Delete(j.id)>>
    BY <2>1, <2>2 DEF DeletePlan
  <2>4. /\ q # <<>> /\ q[Len(q)] = Delete(j.id)
        /\ \A k \in 1..Len(q) : k # Len(q) => q[k] \in {Clear(j.id), Collect(j.id), Take(j.id)}
        /\ q \in Seq({Clear(j.id), Collect(j.id), Take(j.id), Delete(j.id)})
    <3>1. EndsWith(q, Clear(j.id), Collect(j.id), Take(j.id), Delete(j.id))
      BY <2>3, LastOf
    <3> QED BY <3>1 DEF EndsWith
  <2>6. \E S : q \in Seq(S)
    BY <2>4
  <2>7. Deleting(db, j, new, oks)
    BY <2>2, <2>4, <2>6 DEF Deleting
  <2> QED BY <1>8, <2>7 DEF Line
<1>9. CASE j.kind = "seed"
  <2>1. PICK q : q = new.todo
    OBVIOUS
  <2>2. PICK rows \in Nat : rows = Len(j.rows) /\ DOMAIN j.rows = 1..rows
    BY <1>9 DEF Asks
  <2>3. q = [n \in 1..rows |-> Ensure(NewId(r, n), j.rows[n])]
    BY <1>9, <2>1, <2>2 DEF Plan
  <2>4. q \in Seq({Ensure(NewId(r, n), j.rows[n]) : n \in 1..rows})
    BY <2>3
  <2>5. Len(q) = rows
    BY <2>3
  <2>6. \A n \in 1..rows : SeedStatement(j, r, n, q[n])
    BY <2>3 DEF SeedStatement, Ensure, Statement
  <2>7. \A n \in 1..rows : rows - rows + n = n
    OBVIOUS
  <2>8. \E S : q \in Seq(S)
    BY <2>4
  <2>9. \A k \in 1..rows : SeedStatement(j, r, rows - rows + k, q[k])
    BY <2>6, <2>7
  <2>10. Seeding(j, r, new)
    BY <2>1, <2>2, <2>5, <2>8, <2>9 DEF Seeding
  <2> QED BY <1>9, <2>10 DEF Line
<1>10. j.kind \in {"add", "set", "remove", "create", "update", "delete", "link", "unlink", "seed"}
  BY DEF Asks
<1> QED BY <1>1, <1>2, <1>3, <1>4, <1>5, <1>6, <1>7, <1>8, <1>9, <1>10

-----------------------------------------------------------------------------
(* The inductive invariant *)

Fields == {"pc", "loaded", "refreshed", "todo", "wrote", "gone", "locks", "shares"}

Fine(d, j, r, t, oks) ==
  /\ DOMAIN t = Fields /\ t.pc \in {"start", "loaded", "working"} \cup Outcomes
  /\ t.pc \in {"start", "loaded"} =>
       /\ t.wrote = [i \in DOMAIN t.wrote |-> t.wrote[i]] /\ DOMAIN t.wrote = {} /\ t.gone = {}
       /\ t.locks = {} /\ t.shares = {}
  /\ t.pc = "start" => t.loaded = None
  /\ (t.pc \in {"loaded", "working"} /\ HasSubject(j)) => Subject(d, j, oks)
  /\ t.pc = "working" =>
       /\ Granted(d, r, t) /\ IsFiniteSet(DOMAIN t.wrote)
       /\ Line(d, j, r, t, oks)
  /\ t.pc \in Outcomes => t.locks = {} /\ t.shares = {}

(* Those whose rows are in the tables: the seed commits nothing.           *)
Done == {r \in Requests : tx[r].pc = "ok" /\ job[r].kind # "seed"}

Inv ==
  /\ tx = [r \in Requests |-> tx[r]]
  /\ job \in [Requests -> Jobs]
  /\ Good(db) /\ \A i \in DOMAIN db : Known(i, Done)
  /\ \A r \in Requests : Fine(db, job[r], r, tx[r], Done)
  /\ \A r \in Requests : \A q \in Requests \ {r} : Apart(tx[r], tx[q])

LEMMA InitInv == Init => Inv
<1> SUFFICES ASSUME Init PROVE Inv
  OBVIOUS
<1>1. tx = [r \in Requests |-> tx[r]]
  BY DEF Init
<1>2. job \in [Requests -> Jobs]
  BY JobsAssumption DEF Init
<1>3. Good(db)
  BY DatabasesAssumption, IdsAssumption DEF Init, Good
<1>4. \A i \in DOMAIN db : Known(i, Done)
  BY IdsAssumption DEF Init, Known
<1>5. ASSUME NEW r \in Requests
      PROVE  /\ DOMAIN tx[r] = Fields /\ tx[r].pc = "start" /\ tx[r].wrote = <<>> /\ tx[r].gone = {}
             /\ tx[r].locks = {} /\ tx[r].shares = {} /\ tx[r].loaded = None
  BY DEF Init, Fields
<1>6. ASSUME NEW r \in Requests PROVE Fine(db, job[r], r, tx[r], Done)
  <2>1. <<>> = [i \in DOMAIN <<>> |-> <<>>[i]] /\ DOMAIN <<>> = {}
    OBVIOUS
  <2>2. tx[r].wrote = [i \in DOMAIN tx[r].wrote |-> tx[r].wrote[i]] /\ DOMAIN tx[r].wrote = {}
    BY <1>5, <2>1
  <2> QED BY <1>5, <2>2 DEF Fine, Outcomes
<1>7. \A r \in Requests : \A q \in Requests \ {r} : Apart(tx[r], tx[q])
  BY <1>5 DEF Apart
<1> QED BY <1>1, <1>2, <1>3, <1>4, <1>6, <1>7 DEF Inv

(* A step of one request that commits nothing. *)
LEMMA StepKeeps ==
  ASSUME Inv, NEW r \in Requests, NEW t, Step(r, t), Fine(db, job[r], r, t, Done),
         \A q \in Requests \ {r} : Apart(t, tx[q]),
         (tx[r].pc = "ok" \/ t.pc = "ok") => (job[r].kind = "seed" \/ tx[r].pc = t.pc)
  PROVE  Inv'
<1>1. /\ tx' = [tx EXCEPT ![r] = t] /\ db' = db /\ job' = job
      /\ tx = [q \in Requests |-> tx[q]]
  BY DEF Step, Inv
<1>2. tx' = [q \in Requests |-> tx'[q]] /\ tx'[r] = t /\ \A q \in Requests \ {r} : tx'[q] = tx[q]
  BY <1>1
<1>3. Done' = Done
  BY <1>1, <1>2 DEF Done
<1>4. ASSUME NEW q \in Requests PROVE Fine(db', job'[q], q, tx'[q], Done')
  <2>1. Fine(db, job[q], q, tx[q], Done)
    BY DEF Inv
  <2> QED BY <1>1, <1>2, <1>3, <2>1
<1>5. \A p \in Requests : \A q \in Requests \ {p} : Apart(tx'[p], tx'[q])
  <2>1. \A p, q : Apart(p, q) => Apart(q, p)
    BY DEF Apart
  <2> QED BY <1>2, <2>1 DEF Inv
<1>6. Good(db') /\ job' \in [Requests -> Jobs] /\ \A i \in DOMAIN db' : Known(i, Done')
  BY <1>1, <1>3 DEF Inv
<1> QED BY <1>2, <1>4, <1>5, <1>6 DEF Inv

LEMMA EndKeeps ==
  ASSUME Inv, NEW r \in Requests, NEW outcome \in Outcomes, End(r, outcome), tx[r].pc # "ok",
         outcome = "ok" => job[r].kind = "seed"
  PROVE  Inv'
<1>1. PICK t : t = Ended(outcome)
  OBVIOUS
<1>2. DOMAIN tx[r] = Fields
  BY DEF Inv, Fine
<1>3. DOMAIN t = Fields /\ t.pc = outcome /\ t.locks = {} /\ t.shares = {}
  BY <1>1, <1>2 DEF Ended, Fields
<1>4. Fine(db, job[r], r, t, Done)
  BY <1>3 DEF Fine, Outcomes
<1>5. \A q \in Requests \ {r} : Apart(t, tx[q])
  BY <1>3 DEF Apart
<1>6. Step(r, t)
  BY <1>1 DEF End
<1> QED BY <1>3, <1>4, <1>5, <1>6, StepKeeps

LEMMA LoadKeeps ==
  ASSUME Inv, NEW r \in Requests, Load(r)
  PROVE  Inv'
<1>1. Fine(db, job[r], r, tx[r], Done) /\ tx[r].pc = "start" /\ Good(db)
      /\ (\A i \in DOMAIN db : Known(i, Done)) /\ (\A q \in Requests \ {r} : Apart(tx[r], tx[q]))
  BY DEF Inv, Load
<1>2. PICK t :
        /\ Step(r, t) /\ (HasSubject(job[r]) => Found(db, job[r]))
        /\ DOMAIN t = Fields /\ t.pc = "loaded" /\ t.wrote = tx[r].wrote /\ t.gone = tx[r].gone
        /\ t.locks = tx[r].locks /\ t.shares = tx[r].shares
  <2>1. DOMAIN tx[r] = Fields
    BY <1>1 DEF Fine
  <2>2. CASE ~HasSubject(job[r]) /\ Step(r, [tx[r] EXCEPT !.pc = "loaded"])
    <3>1. PICK u : u = [tx[r] EXCEPT !.pc = "loaded"]
      OBVIOUS
    <3>2. /\ DOMAIN u = Fields /\ u.pc = "loaded" /\ u.wrote = tx[r].wrote /\ u.gone = tx[r].gone
          /\ u.locks = tx[r].locks /\ u.shares = tx[r].shares
      BY <2>1, <3>1 DEF Fields
    <3> QED BY <2>2, <3>1, <3>2
  <2>3. CASE /\ HasSubject(job[r]) /\ Found(db, job[r])
             /\ Step(r, [tx[r] EXCEPT !.pc = "loaded", !.loaded = db[job[r].id]])
    <3>1. PICK u : u = [tx[r] EXCEPT !.pc = "loaded", !.loaded = db[job[r].id]]
      OBVIOUS
    <3>2. /\ DOMAIN u = Fields /\ u.pc = "loaded" /\ u.wrote = tx[r].wrote /\ u.gone = tx[r].gone
          /\ u.locks = tx[r].locks /\ u.shares = tx[r].shares
      BY <2>1, <3>1 DEF Fields
    <3> QED BY <2>3, <3>1, <3>2
  <2> QED BY <2>2, <2>3 DEF Load
<1>3. HasSubject(job[r]) => Subject(db, job[r], Done)
  BY <1>1, <1>2 DEF Subject, Found, Of
<1>4. Fine(db, job[r], r, t, Done)
  BY <1>1, <1>2, <1>3 DEF Fine, Outcomes
<1>5. \A q \in Requests \ {r} : Apart(t, tx[q])
  BY <1>1, <1>2 DEF Apart
<1> QED BY <1>1, <1>2, <1>4, <1>5, StepKeeps

LEMMA DecideKeeps ==
  ASSUME Inv, NEW r \in Requests, Decide(r)
  PROVE  Inv'
<1>1. /\ Fine(db, job[r], r, tx[r], Done) /\ tx[r].pc = "loaded" /\ Good(db)
      /\ (\A i \in DOMAIN db : Known(i, Done)) /\ (\A q \in Requests \ {r} : Apart(tx[r], tx[q]))
      /\ Accepts(db, job[r]) /\ job[r] \in Jobs
  BY DEF Inv, Decide
<1>2. PICK t : t = [tx[r] EXCEPT !.pc = "working", !.refreshed = Refreshed(r), !.todo = Plan(r)]
  OBVIOUS
<1>3. Step(r, t)
  BY <1>2 DEF Decide
<1>4. /\ DOMAIN t = Fields /\ t.pc = "working" /\ t.wrote = tx[r].wrote /\ t.gone = tx[r].gone
      /\ t.locks = tx[r].locks /\ t.shares = tx[r].shares /\ t.todo = Plan(r)
      /\ t.loaded = tx[r].loaded
  BY <1>1, <1>2 DEF Fine, Fields
<1>5. /\ t.wrote = [i \in DOMAIN t.wrote |-> t.wrote[i]] /\ DOMAIN t.wrote = {} /\ t.gone = {}
  BY <1>1, <1>4 DEF Fine
<1>6. HasSubject(job[r]) => Subject(db, job[r], Done)
  BY <1>1 DEF Fine
<1>7. Asks(job[r])
  BY <1>1, JobsAssumption
<1>8. Line(db, job[r], r, t, Done)
  BY <1>1, <1>4, <1>5, <1>6, <1>7, PlanKeeps
<1>9. Granted(db, r, t)
  <2>1. PICK v : v = Overlay(db, t.wrote, t.gone)
    OBVIOUS
  <2>2. Covers(v, db, t.wrote, t.gone)
    BY <2>1, OverlayFacts
  <2>3. DOMAIN v = DOMAIN db /\ \A i \in DOMAIN db : v[i] = db[i]
    BY <1>5, <2>2 DEF Covers
  <2>4. \A table : Of(v, table) = Of(db, table)
    BY <2>3 DEF Of
  <2>5. Resolved(v)
    BY <1>1, <2>3, <2>4 DEF Good, Resolved, Resolves
  <2>6. KeysDiffer(v)
    BY <1>1, <2>3 DEF Good, KeysDiffer
  <2> QED BY <1>5, <2>1, <2>5, <2>6 DEF Granted
<1>10. IsFiniteSet(DOMAIN t.wrote)
  BY <1>5, FS_EmptySet
<1>11. Fine(db, job[r], r, t, Done)
  BY <1>4, <1>6, <1>8, <1>9, <1>10 DEF Fine, Outcomes
<1>12. \A q \in Requests \ {r} : Apart(t, tx[q])
  BY <1>1, <1>4 DEF Apart
<1> QED BY <1>1, <1>3, <1>4, <1>11, <1>12, StepKeeps

(* Only a deletion gathers, and only the seed seeks. *)
LEMMA WhoReads ==
  ASSUME NEW d, NEW j, NEW r, NEW t, NEW oks, Asks(j), Line(d, j, r, t, oks), t.todo # <<>>
  PROVE  /\ Head(t.todo).op = "collect" => j.kind = "delete"
         /\ Head(t.todo).op = "ensure" => j.kind = "seed"
<1> DEFINE h == Head(t.todo)
<1>1. ASSUME j.kind \in {"add", "create", "link"} PROVE h.op = "insert"
  <2>1. t.todo = <<Insert(NewId(r, 1), AddedRow(j))>>
    BY <1>1 DEF Line, Adding
  <2>2. h = Insert(NewId(r, 1), AddedRow(j))
    BY <2>1
  <2> QED BY <2>2 DEF Insert, Statement
<1>2. ASSUME j.kind \in {"set", "update"} PROVE h.op = "update"
  <2>1. PICK i, c : t.todo = <<Update(i, c)>>
    BY <1>2 DEF Line, Changing
  <2>2. h = Update(i, c)
    BY <2>1
  <2> QED BY <2>2 DEF Update, Statement
<1>3. ASSUME j.kind \in {"remove", "unlink"} PROVE h.op \in {"delete", "unlink"}
  <2>1. PICK i : t.todo = <<Unlink(i)>> \/ t.todo = <<Delete(i)>>
    BY <1>3 DEF Line, Removing
  <2>2. h = Unlink(i) \/ h = Delete(i)
    BY <2>1
  <2> QED BY <2>2 DEF Unlink, Delete, Statement
<1>4. ASSUME j.kind = "delete" PROVE h.op # "ensure"
  <2>1. PICK S : t.todo \in Seq(S)
    BY <1>4 DEF Line, Deleting
  <2>2. PICK len \in Nat : len = Len(t.todo)
    BY <2>1, Tails
  <2>3. 1 \in 1..len /\ h = t.todo[1]
    BY <2>1, <2>2, Tails
  <2>4. \/ h \in {Delete(j.id), Clear(j.id), Collect(j.id), Take(j.id)}
        \/ \E i : h = Unlink(i)
    BY <1>4, <2>2, <2>3 DEF Line, Deleting
  <2>5. PICK x : x = h
    OBVIOUS
  <2>6. x \in {Delete(j.id), Clear(j.id), Collect(j.id), Take(j.id)} \/ \E i : x = Unlink(i)
    BY <2>4, <2>5
  <2>7. x.op # "ensure"
    BY <2>6 DEF Delete, Clear, Collect, Take, Unlink, Statement
  <2> QED BY <2>5, <2>7
<1>5. ASSUME j.kind = "seed" PROVE h.op # "collect"
  <2>1. PICK S : t.todo \in Seq(S)
    BY <1>5 DEF Line, Seeding
  <2>2. PICK len \in Nat : len = Len(t.todo)
    BY <2>1, Tails
  <2>3. 1 \in 1..len /\ h = t.todo[1]
    BY <2>1, <2>2, Tails
  <2> QED BY <1>5, <2>2, <2>3 DEF Line, Seeding, SeedStatement
<1>6. j.kind \in {"add", "set", "remove", "create", "update", "delete", "link", "unlink", "seed"}
  BY DEF Asks
<1> QED BY <1>1, <1>2, <1>3, <1>4, <1>5, <1>6

(* What is true of a request that is at work. *)
LEMMA AtWork ==
  ASSUME Inv, NEW r \in Requests, tx[r].pc = "working"
  PROVE  /\ Good(db) /\ (\A i \in DOMAIN db : Known(i, Done)) /\ Asks(job[r]) /\ r \notin Done
         /\ DOMAIN tx[r] = Fields
         /\ Granted(db, r, tx[r]) /\ IsFiniteSet(DOMAIN tx[r].wrote)
         /\ Line(db, job[r], r, tx[r], Done)
         /\ HasSubject(job[r]) => Subject(db, job[r], Done)
         /\ \A q \in Requests \ {r} : Apart(tx[r], tx[q])
<1>1. Fine(db, job[r], r, tx[r], Done) /\ job[r] \in Jobs
  BY DEF Inv
<1>2. Asks(job[r])
  BY <1>1, JobsAssumption
<1>3. r \notin Done
  BY DEF Done
<1> QED BY <1>1, <1>2, <1>3 DEF Fine, Inv

(* What it has still to do may change, if it stays in line.                *)
LEMMA RethinkKeeps ==
  ASSUME Inv, NEW r \in Requests, tx[r].pc = "working",
         NEW t, Step(r, t), NEW todo, t = [tx[r] EXCEPT !.todo = todo],
         Line(db, job[r], r, t, Done)
  PROVE  Inv'
<1>1. /\ DOMAIN t = Fields /\ t.pc = "working" /\ t.wrote = tx[r].wrote /\ t.gone = tx[r].gone
      /\ t.locks = tx[r].locks /\ t.shares = tx[r].shares
  BY AtWork DEF Fields
<1>2. Granted(db, r, t) /\ IsFiniteSet(DOMAIN t.wrote) /\ (HasSubject(job[r]) => Subject(db, job[r], Done))
  <2>1. Granted(db, r, tx[r]) /\ IsFiniteSet(DOMAIN tx[r].wrote)
    BY AtWork
  <2>2. Granted(db, r, t)
    BY <1>1, <2>1 DEF Granted, Wrote
  <2> QED BY <1>1, <2>1, <2>2, AtWork
<1>3. Fine(db, job[r], r, t, Done)
  BY <1>1, <1>2 DEF Fine, Outcomes
<1>4. \A q \in Requests \ {r} : Apart(t, tx[q])
  <2>1. \A q \in Requests \ {r} : Apart(tx[r], tx[q])
    BY AtWork
  <2> QED BY <1>1, <2>1 DEF Apart
<1> QED BY <1>1, <1>3, <1>4, StepKeeps

LEMMA GatherStep ==
  ASSUME Inv, NEW r \in Requests, Gather(r)
  PROVE  Inv'
<1>1. /\ tx[r].pc = "working" /\ tx[r].todo # <<>> /\ Head(tx[r].todo).op = "collect"
  BY DEF Gather, Working
<1>2. PICK links : links = LinksOf(View(r), Head(tx[r].todo).id)
  OBVIOUS
<1>3. PICK u \in SetToSeqs({Unlink(i) : i \in links}) : Step(r, [tx[r] EXCEPT !.todo = u \o Tail(@)])
  BY <1>2 DEF Gather
<1>3a. PICK todo : todo = u \o Tail(tx[r].todo)
  OBVIOUS
<1>4. PICK t : t = [tx[r] EXCEPT !.todo = todo]
  OBVIOUS
<1>5. t.todo = todo /\ t.wrote = tx[r].wrote /\ t.gone = tx[r].gone
  <2>1. DOMAIN tx[r] = Fields
    BY <1>1, AtWork
  <2> QED BY <1>4, <2>1 DEF Fields
<1>6. Step(r, t)
  <2>1. DOMAIN tx[r] = Fields
    BY <1>1, AtWork
  <2>2. t = [tx[r] EXCEPT !.todo = u \o Tail(@)]
    BY <1>3a, <1>4, <2>1 DEF Fields
  <2> QED BY <1>3, <2>2
<1>7. /\ Good(db) /\ Granted(db, r, tx[r]) /\ \A i \in DOMAIN db : Known(i, Done)
      /\ Line(db, job[r], r, tx[r], Done) /\ Asks(job[r])
  BY <1>1, AtWork
<1>8. job[r].kind = "delete" /\ Deleting(db, job[r], tx[r], Done)
  <2>1. job[r].kind = "delete"
    BY <1>1, <1>7, WhoReads
  <2> QED BY <1>7, <2>1 DEF Line
<1>9. links = LinksOf(Overlay(db, tx[r].wrote, tx[r].gone), Head(tx[r].todo).id)
  BY <1>2 DEF View
<1>10. Deleting(db, job[r], t, Done)
  BY <1>1, <1>3, <1>3a, <1>5, <1>7, <1>8, <1>9, GatherKeeps
<1>11. Line(db, job[r], r, t, Done)
  BY <1>8, <1>10 DEF Line
<1> QED BY <1>1, <1>4, <1>6, <1>11, RethinkKeeps

LEMMA SeekStep ==
  ASSUME Inv, NEW r \in Requests, Seek(r)
  PROVE  Inv'
<1>1. /\ tx[r].pc = "working" /\ tx[r].todo # <<>> /\ Head(tx[r].todo).op = "ensure"
  BY DEF Seek, Working
<1>2. PICK s : s = Head(tx[r].todo)
  OBVIOUS
<1>3. PICK new : new = IF Matches(View(r), s.row) = {} THEN <<Insert(s.id, s.row)>> ELSE <<>>
  OBVIOUS
<1>4. PICK todo : todo = new \o Tail(tx[r].todo)
  OBVIOUS
<1>5. PICK t : t = [tx[r] EXCEPT !.todo = todo]
  OBVIOUS
<1>6. DOMAIN tx[r] = Fields
  BY <1>1, AtWork
<1>7. t.todo = todo /\ t.wrote = tx[r].wrote /\ t.gone = tx[r].gone
  BY <1>5, <1>6 DEF Fields
<1>8. Step(r, t)
  <2>1. t = [tx[r] EXCEPT !.todo = new \o Tail(@)]
    BY <1>4, <1>5, <1>6 DEF Fields
  <2> QED BY <1>2, <1>3, <2>1 DEF Seek
<1>9. Line(db, job[r], r, tx[r], Done) /\ Asks(job[r])
  BY <1>1, AtWork
<1>10. job[r].kind = "seed"
  BY <1>1, <1>9, WhoReads
<1>11. Seeding(job[r], r, tx[r])
  BY <1>9, <1>10 DEF Line
<1>12. \/ t.todo = <<Insert(Head(tx[r].todo).id, Head(tx[r].todo).row)>> \o Tail(tx[r].todo)
       \/ t.todo = <<>> \o Tail(tx[r].todo)
  BY <1>2, <1>3, <1>4, <1>7
<1>13. Seeding(job[r], r, t)
  BY <1>1, <1>7, <1>9, <1>10, <1>11, <1>12, SeekKeeps
<1>14. Line(db, job[r], r, t, Done)
  BY <1>10, <1>13 DEF Line
<1> QED BY <1>1, <1>5, <1>8, <1>14, RethinkKeeps

LEMMA ExecuteStep ==
  ASSUME Inv, NEW r \in Requests, Execute(r)
  PROVE  Inv'
<1>1. tx[r].pc = "working" /\ tx[r].todo # <<>> /\ ~Reads(Head(tx[r].todo))
  BY DEF Execute, Working
<1>2. PICK s : s = Head(tx[r].todo)
  OBVIOUS
<1>3. Unblocked(r, s) /\ Succeeds(View(r), s)
  BY <1>2 DEF Execute
<1>4. PICK t : t = [tx[r] EXCEPT
                !.todo = Tail(@),
                !.wrote = IF Leaves(s) THEN With(@, s.id, Left(View(r), s)) ELSE @,
                !.gone = @ \cup Gone(View(r), s),
                !.locks = @ \cup Needs(View(r), s), !.shares = @ \cup Shares(s)]
  OBVIOUS
<1>5. Step(r, t)
  BY <1>2, <1>4 DEF Execute
<1>6. /\ Good(db) /\ (\A i \in DOMAIN db : Known(i, Done)) /\ Asks(job[r]) /\ r \notin Done
      /\ DOMAIN tx[r] = Fields
      /\ Granted(db, r, tx[r]) /\ IsFiniteSet(DOMAIN tx[r].wrote)
      /\ Line(db, job[r], r, tx[r], Done)
      /\ HasSubject(job[r]) => Subject(db, job[r], Done)
      /\ \A q \in Requests \ {r} : Apart(tx[r], tx[q])
  BY <1>1, AtWork
<1>7. /\ DOMAIN t = Fields /\ t.pc = "working" /\ t.todo = Tail(tx[r].todo)
      /\ t.loaded = tx[r].loaded
      /\ t.wrote = IF Leaves(s) THEN With(tx[r].wrote, s.id, Left(View(r), s)) ELSE tx[r].wrote
      /\ t.gone = tx[r].gone \cup Gone(View(r), s)
      /\ t.locks = tx[r].locks \cup Needs(View(r), s) /\ t.shares = tx[r].shares \cup Shares(s)
  BY <1>1, <1>4, <1>6 DEF Fields
<1>8. Carried(db, tx[r], s, t)
  BY <1>7 DEF Carried, View
<1>9. Succeeds(Overlay(db, tx[r].wrote, tx[r].gone), s)
  BY <1>3 DEF View
<1>10. Granted(db, r, t) /\ Line(db, job[r], r, t, Done)
  BY <1>1, <1>2, <1>6, <1>7, <1>8, <1>9, ExecuteKeeps
<1>11. IsFiniteSet(DOMAIN t.wrote)
  <2>1. CASE Leaves(s)
    <3>1. DOMAIN t.wrote = DOMAIN tx[r].wrote \cup {s.id}
      BY <1>7, <2>1 DEF With
    <3> QED BY <1>6, <3>1, FS_AddElement
  <2>2. CASE ~Leaves(s)
    BY <1>6, <1>7, <2>2
  <2> QED BY <2>1, <2>2
<1>12. \A q \in Requests \ {r} : Apart(t, tx[q])
  <2>1. ASSUME NEW q \in Requests \ {r}
        PROVE  /\ Needs(View(r), s) \cap (tx[q].locks \cup tx[q].shares) = {}
               /\ Shares(s) \cap tx[q].locks = {}
    BY <1>3 DEF Unblocked, Blocks
  <2>2. ASSUME NEW q \in Requests \ {r} PROVE Apart(t, tx[q])
    <3>1. Apart(tx[r], tx[q])
      BY <1>6
    <3> QED BY <1>7, <2>1, <3>1 DEF Apart
  <2> QED BY <2>2
<1>13. Fine(db, job[r], r, t, Done)
  BY <1>6, <1>7, <1>10, <1>11 DEF Fine, Outcomes
<1> QED BY <1>1, <1>5, <1>7, <1>12, <1>13, StepKeeps

LEMMA CommitStep ==
  ASSUME Inv, NEW r \in Requests, Commit(r)
  PROVE  Inv'
<1>1. /\ tx[r].pc = "working" /\ job[r].kind # "seed" /\ job' = job
      /\ tx' = [tx EXCEPT ![r] = Ended("ok")]
      /\ db' = Overlay(db, tx[r].wrote, tx[r].gone)
  BY DEF Commit, Complete, View
<1>2. /\ Good(db) /\ (\A i \in DOMAIN db : Known(i, Done)) /\ Asks(job[r]) /\ r \notin Done
      /\ DOMAIN tx[r] = Fields
      /\ Granted(db, r, tx[r]) /\ IsFiniteSet(DOMAIN tx[r].wrote)
      /\ \A q \in Requests \ {r} : Apart(tx[r], tx[q])
  BY <1>1, AtWork
<1>3. PICK t : t = Ended("ok")
  OBVIOUS
<1>4. DOMAIN t = Fields /\ t.pc = "ok" /\ t.locks = {} /\ t.shares = {}
  BY <1>2, <1>3 DEF Ended, Fields
<1>5. tx' = [q \in Requests |-> tx'[q]] /\ tx'[r] = t /\ \A q \in Requests \ {r} : tx'[q] = tx[q]
  <2>1. tx = [q \in Requests |-> tx[q]]
    BY DEF Inv
  <2> QED BY <1>1, <1>3, <2>1
<1>6. Done' = Done \cup {r}
  BY <1>1, <1>4, <1>5 DEF Done
<1>7. PICK new : new = db'
  OBVIOUS
<1>8. new = Overlay(db, tx[r].wrote, tx[r].gone) /\ Good(new)
  BY <1>1, <1>2, <1>7, WrittenIsGood
<1>9. Becomes(db, r, tx[r], new)
  BY <1>2, <1>8, CommitBecomes
<1>10. ASSUME NEW i \in DOMAIN new PROVE Known(i, Done \cup {r})
  <2>1. CASE i \in DOMAIN db
    BY <1>2, <2>1 DEF Known
  <2>2. CASE i \notin DOMAIN db
    <3>1. PICK n \in Nat : i = <<r, n>>
      BY <1>9, <2>2 DEF Becomes, NewId
    <3> QED BY <3>1 DEF Known
  <2> QED BY <2>1, <2>2
<1>11. ASSUME NEW q \in Requests \ {r} PROVE Fine(new, job[q], q, tx[q], Done \cup {r})
  <2>1. Fine(db, job[q], q, tx[q], Done)
    BY DEF Inv
  <2>2. (tx[q].pc \in {"loaded", "working"} /\ HasSubject(job[q])) => Subject(new, job[q], Done \cup {r})
    BY <1>2, <1>9, <2>1, SubjectStays DEF Fine
  <2>3. ASSUME tx[q].pc = "working"
        PROVE  Granted(new, q, tx[q]) /\ Line(new, job[q], q, tx[q], Done \cup {r})
    <3>1. Granted(db, q, tx[q]) /\ Line(db, job[q], q, tx[q], Done)
      BY <2>1, <2>3 DEF Fine
    <3>2. Apart(tx[r], tx[q])
      BY <1>2
    <3>3. Granted(new, q, tx[q])
      BY <1>2, <1>8, <3>1, <3>2, OthersCommit
    <3>4. job[q].kind = "delete" => Known(job[q].id, Done)
      BY <2>1, <2>3 DEF Fine, HasSubject, Subject
    <3>5. Line(new, job[q], q, tx[q], Done \cup {r})
      BY <1>2, <1>8, <3>1, <3>2, <3>4, LineStays
    <3> QED BY <3>3, <3>5
  <2> QED BY <2>1, <2>2, <2>3 DEF Fine
<1>12. Fine(new, job[r], r, t, Done \cup {r})
  BY <1>4 DEF Fine, Outcomes
<1>13. ASSUME NEW q \in Requests PROVE Fine(db', job'[q], q, tx'[q], Done')
  BY <1>1, <1>5, <1>6, <1>7, <1>11, <1>12
<1>14. \A p \in Requests : \A q \in Requests \ {p} : Apart(tx'[p], tx'[q])
  <2>1. \A q \in Requests \ {r} : Apart(t, tx[q]) /\ Apart(tx[q], t)
    BY <1>4 DEF Apart
  <2> QED BY <1>5, <2>1 DEF Inv
<1>15. Good(db') /\ job' \in [Requests -> Jobs] /\ \A i \in DOMAIN db' : Known(i, Done')
  BY <1>1, <1>6, <1>7, <1>8, <1>10 DEF Inv
<1> QED BY <1>5, <1>13, <1>14, <1>15 DEF Inv

LEMMA NextInv == Inv /\ [Next]_vars => Inv'
<1> SUFFICES ASSUME Inv, [Next]_vars PROVE Inv'
  OBVIOUS
<1>1. CASE UNCHANGED vars
  <2>1. Done' = Done
    BY <1>1 DEF Done, vars
  <2> QED BY <1>1, <2>1 DEF Inv, vars
<1>2. ASSUME NEW r \in Requests, Run(r) \/ Lost(r) PROVE Inv'
  <2>1. CASE Load(r)
    BY <2>1, LoadKeeps
  <2>2. CASE Decide(r)
    BY <2>2, DecideKeeps
  <2>3. CASE Refuse(r)
    <3>1. tx[r].pc # "ok" /\ End(r, "refused")
      BY <2>3 DEF Refuse
    <3> QED BY <3>1, EndKeeps DEF Outcomes
  <2>4. CASE Gather(r)
    BY <2>4, GatherStep
  <2>5. CASE Seek(r)
    BY <2>5, SeekStep
  <2>6. CASE Execute(r)
    BY <2>6, ExecuteStep
  <2>7. CASE Lose(r)
    <3>1. tx[r].pc # "ok" /\ End(r, "conflict")
      BY <2>7 DEF Lose, OrphansAnEntry, Working
    <3> QED BY <3>1, EndKeeps DEF Outcomes
  <2>8. CASE Fail(r)
    <3>1. tx[r].pc # "ok" /\ End(r, "failed")
      BY <2>8 DEF Fail, Complete
    <3> QED BY <3>1, EndKeeps DEF Outcomes
  <2>9. CASE Commit(r)
    BY <2>9, CommitStep
  <2>10. CASE Report(r)
    <3>1. tx[r].pc # "ok" /\ End(r, "ok") /\ job[r].kind = "seed"
      BY <2>10 DEF Report, Complete
    <3> QED BY <3>1, EndKeeps DEF Outcomes
  <2>11. CASE Lost(r)
    <3>1. tx[r].pc # "ok" /\ End(r, "lost")
      BY <2>11 DEF Lost
    <3> QED BY <3>1, EndKeeps DEF Outcomes
  <2> QED BY <1>2, <2>1, <2>2, <2>3, <2>4, <2>5, <2>6, <2>7, <2>8, <2>9, <2>10, <2>11 DEF Run
<1> QED BY <1>1, <1>2 DEF Next

(* The locks, the constraints and the order of the statements keep the     *)
(* inductive invariant.                                                    *)
THEOREM Invariance == Spec => []Inv
<1> QED BY InitInv, NextInv, PTL DEF Spec

(* Rows keep the columns of their table, and locks exclude. *)
THEOREM TypeCorrect == Spec => []TypeOK
<1>1. Inv => TypeOK
  <2> SUFFICES ASSUME Inv PROVE TypeOK
    OBVIOUS
  <2>1. Typed(db)
    BY DEF Inv, Good
  <2>2. ASSUME NEW r \in Requests
        PROVE  /\ tx[r].pc \in {"start", "loaded", "working"} \cup Outcomes
               /\ tx[r].locks \cup tx[r].shares # {} => tx[r].pc = "working"
    <3>1. Fine(db, job[r], r, tx[r], Done)
      BY DEF Inv
    <3> QED BY <3>1 DEF Fine
  <2>3. \A r \in Requests : \A q \in Requests \ {r} :
          tx[q].locks \cap (tx[r].locks \cup tx[r].shares) = {}
    BY DEF Inv, Apart
  <2> QED BY <2>1, <2>2, <2>3 DEF TypeOK
<1> QED BY <1>1, Invariance, PTL

(* Every row finds the rows it names, whatever overlaps: what a deletion   *)
(* takes, it holds alone, with the ids that others would name.             *)
THEOREM ReferencesStay == Spec => []ReferencesResolve
<1>1. Inv => ReferencesResolve
  BY DEF Inv, Good, ReferencesResolve
<1> QED BY <1>1, Invariance, PTL

-----------------------------------------------------------------------------
(* The shortfall *)

LEMMA NoAmount ==
  ASSUME NEW list, NEW unit, Entry(db, list, unit) = {}
  PROVE  Amount(list, unit) = 0
BY DEF Amount, MapThenSumSet, MapThenFoldSet

LEMMA OneAmount ==
  ASSUME NEW list, NEW unit, NEW x, Entry(db, list, unit) = {x}, db[x].amount \in Nat
  PROVE  Amount(list, unit) = db[x].amount
<1> DEFINE any(s) == CHOOSE y \in s : TRUE
           Rec(h) == [s \in SUBSET {x} |-> IF s = {} THEN 0 ELSE db[any(s)].amount + h[s \ {any(s)}]]
           h0 == [s \in SUBSET {x} |-> IF s = {} THEN 0 ELSE db[x].amount]
           it == CHOOSE h : h = Rec(h)
<1>0. any({x}) = x
  OBVIOUS
<1>1. \A s \in SUBSET {x} : s # {} => s = {x} /\ s \ {any(s)} = {} /\ any(s) = x
  BY <1>0
<1>2. h0 = Rec(h0)
  <2>1. h0[{}] = 0 /\ \A s \in SUBSET {x} : s # {} => db[x].amount = db[any(s)].amount + h0[s \ {any(s)}]
    BY <1>1
  <2> HIDE DEF any
  <2>2. \A s \in SUBSET {x} :
          (IF s = {} THEN 0 ELSE db[x].amount)
            = (IF s = {} THEN 0 ELSE db[any(s)].amount + h0[s \ {any(s)}])
    BY <2>1
  <2> QED BY <2>2, Zenon
<1>3. it = Rec(it)
  <2> HIDE DEF h0, Rec
  <2> QED BY <1>2
<1>4. it[{}] = 0 /\ it[{x}] = db[any({x})].amount + it[{x} \ {any({x})}]
  <2> HIDE DEF it, any
  <2>1. {} \in SUBSET {x} /\ {x} \in SUBSET {x} /\ {x} # {}
    OBVIOUS
  <2> QED BY <1>3, <2>1
<1>5. it[{x}] = db[x].amount
  <2> HIDE DEF it, any
  <2> QED BY <1>0, <1>1, <1>4
<1>6. MapThenSumSet(LAMBDA i : db[i].amount, {x}) = it[{x}]
  BY Zenon DEF MapThenSumSet, MapThenFoldSet
<1> QED BY <1>5, <1>6 DEF Amount

(* The entries of a list are all of its own table. *)
LEMMA OneTable ==
  ASSUME NEW d, Good(d), NEW list \in DOMAIN d
  PROVE  \A i, k \in EntriesOf(d, list) : d[i].table = d[k].table
<1>1. ASSUME NEW i \in EntriesOf(d, list)
      PROVE  d[i].table = (IF d[list].table = "armies" THEN "army_units" ELSE "user_unit")
  <2>1. i \in DOMAIN d /\ IsRow(d[i]) /\ Resolves(d, d[i])
    BY DEF EntriesOf, Of, Good, Typed, Resolved
  <2>2. CASE d[i].table = "army_units" /\ d[i].army_id = list
    <3>1. "army_id" \in Columns(d[i]) /\ Refers["army_id"] = "armies"
      BY <2>1, <2>2 DEF IsRow, Schema, Columns, Refers
    <3>2. d[list].table = "armies"
      BY <2>1, <2>2, <3>1 DEF Resolves, Of
    <3> QED BY <2>2, <3>2
  <2>3. CASE d[i].table = "user_unit" /\ d[i].owner_user_id = list
    <3>1. "owner_user_id" \in Columns(d[i]) /\ Refers["owner_user_id"] = "users"
      BY <2>1, <2>3 DEF IsRow, Schema, Columns, Refers
    <3>2. d[list].table = "users"
      BY <2>1, <2>3, <3>1 DEF Resolves, Of
    <3> QED BY <2>3, <3>2
  <2> QED BY <2>2, <2>3 DEF EntriesOf, Of
<1> QED BY <1>1

(* What a list has of a unit is what its one entry of it says.             *)
LEMMA AmountOf ==
  ASSUME Good(db), NEW list \in DOMAIN db, NEW unit
  PROVE  /\ Entry(db, list, unit) = {} => Amount(list, unit) = 0
         /\ \A i \in Entry(db, list, unit) :
              /\ Entry(db, list, unit) = {i} /\ db[i].amount \in Nat
              /\ Amount(list, unit) = db[i].amount
<1>1. Entry(db, list, unit) = {} => Amount(list, unit) = 0
  BY NoAmount
<1>2. ASSUME NEW i \in Entry(db, list, unit)
      PROVE  /\ Entry(db, list, unit) = {i} /\ db[i].amount \in Nat
             /\ Amount(list, unit) = db[i].amount
  <2>1. i \in DOMAIN db /\ IsRow(db[i]) /\ db[i].table \in {"army_units", "user_unit"}
    BY DEF Entry, EntriesOf, Of, Good, Typed
  <2>2. db[i].amount \in Nat
    BY <2>1 DEF IsRow, Schema
  <2>3. \A k \in Entry(db, list, unit) : db[i].table = db[k].table
    BY OneTable DEF Entry
  <2>4. \A k \in Entry(db, list, unit) : k = i
    BY <2>3, OneEntry
  <2>5. Entry(db, list, unit) = {i}
    BY <2>4
  <2> QED BY <2>2, <2>5, OneAmount
<1> QED BY <1>1, <1>2

(* What shortfall reads of the inventory is all there is of the unit. *)
LEMMA OwnedIs ==
  ASSUME Good(db), NEW user \in DOMAIN db, NEW unit
  PROVE  OwnedOf(db, user, unit) = Amount(user, unit) /\ Amount(user, unit) \in Nat
<1>1. CASE Entry(db, user, unit) = {}
  BY <1>1, AmountOf DEF OwnedOf
<1>2. CASE Entry(db, user, unit) # {}
  <2>1. PICK i : i = CHOOSE k \in Entry(db, user, unit) : TRUE
    OBVIOUS
  <2>2. i \in Entry(db, user, unit)
    BY <1>2, <2>1
  <2>3. db[i].amount \in Nat /\ Amount(user, unit) = db[i].amount
    BY <2>2, AmountOf
  <2>4. OwnedOf(db, user, unit) = db[i].amount
    BY <1>2, <2>1 DEF OwnedOf
  <2> QED BY <2>3, <2>4
<1> QED BY <1>1, <1>2

(* The answer is exact: each list has a unit in one entry, whatever        *)
(* additions overlapped, so nothing is counted twice or left out.          *)
THEOREM WhatToBuyIsRight == Spec => []ShortfallIsExact
<1>1. Inv => ShortfallIsExact
  <2> SUFFICES ASSUME Good(db), NEW army \in Of(db, "armies"), NEW unit \in Of(db, "units")
               PROVE  LET asked == Amount(army, unit)
                          owned == Amount(db[army].owner_user_id, unit)
                          rows == {s \in Shortfall(db, army) : s.unit = unit}
                      IN IF asked > owned
                         THEN Cardinality(rows) = 1 /\ \A s \in rows : s.need = asked - owned
                         ELSE rows = {}
    BY DEF Inv, ShortfallIsExact
  <2>1. PICK user : user = db[army].owner_user_id
    OBVIOUS
  <2>2. PICK rows : rows = {s \in Shortfall(db, army) : s.unit = unit}
    OBVIOUS
  <2>3. PICK asked : asked = Amount(army, unit)
    OBVIOUS
  <2>4. PICK owned : owned = Amount(user, unit)
    OBVIOUS
  <2>5. army \in DOMAIN db /\ user \in DOMAIN db
    <3>1. army \in DOMAIN db /\ IsRow(db[army]) /\ db[army].table = "armies" /\ Resolves(db, db[army])
      BY DEF Of, Good, Typed, Resolved
    <3>2. "owner_user_id" \in Columns(db[army])
      BY <3>1 DEF IsRow, Schema, Columns, Refers
    <3> QED BY <2>1, <3>1, <3>2 DEF Resolves, Of
  <2>6. \A u : OwnedOf(db, user, u) = Amount(user, u) /\ Amount(user, u) \in Nat
    BY <2>5, OwnedIs
  <2>7. Shortfall(db, army) =
          {[unit |-> db[i].unit_id, need |-> db[i].amount - OwnedOf(db, user, db[i].unit_id)] :
             i \in {e \in EntriesOf(db, army) : db[e].amount > OwnedOf(db, user, db[e].unit_id)}}
    BY <2>1 DEF Shortfall
  <2>8. \A s \in rows : \E i \in Entry(db, army, unit) :
          db[i].amount > owned /\ s = [unit |-> unit, need |-> db[i].amount - owned]
    <3> SUFFICES ASSUME NEW s \in rows
                 PROVE  \E i \in Entry(db, army, unit) :
                          db[i].amount > owned /\ s = [unit |-> unit, need |-> db[i].amount - owned]
      OBVIOUS
    <3>1. PICK i \in {e \in EntriesOf(db, army) : db[e].amount > OwnedOf(db, user, db[e].unit_id)} :
            s = [unit |-> db[i].unit_id, need |-> db[i].amount - OwnedOf(db, user, db[i].unit_id)]
      BY <2>2, <2>7
    <3>2. db[i].unit_id = unit
      BY <2>2, <3>1
    <3>3. i \in Entry(db, army, unit) /\ OwnedOf(db, user, unit) = owned
      BY <2>4, <2>6, <3>1, <3>2 DEF Entry
    <3> QED BY <3>1, <3>2, <3>3
  <2>9. CASE Entry(db, army, unit) = {}
    <3>1. asked = 0 /\ rows = {} /\ owned \in Nat
      BY <2>3, <2>4, <2>5, <2>6, <2>8, <2>9, AmountOf
    <3>2. ~(asked > owned)
      BY <3>1
    <3> QED BY <2>1, <2>2, <2>3, <2>4, <3>1, <3>2
  <2>10. CASE Entry(db, army, unit) # {}
    <3>1. PICK i : i \in Entry(db, army, unit)
      BY <2>10
    <3>2. Entry(db, army, unit) = {i} /\ asked = db[i].amount
      BY <2>3, <2>5, <3>1, AmountOf
    <3>3. CASE asked > owned
      <4>1. PICK s : s = [unit |-> unit, need |-> asked - owned]
        OBVIOUS
      <4>2. i \in EntriesOf(db, army) /\ db[i].unit_id = unit /\ OwnedOf(db, user, unit) = owned
        BY <2>4, <2>6, <3>1 DEF Entry
      <4>3. s \in Shortfall(db, army)
        BY <2>7, <3>2, <3>3, <4>1, <4>2
      <4>4. s \in rows /\ s.need = asked - owned
        BY <2>2, <4>1, <4>3
      <4>5. \A z \in rows : z = s
        BY <2>8, <3>2, <4>1
      <4>6. rows = {s}
        BY <4>4, <4>5
      <4>7. Cardinality(rows) = 1
        BY <4>6, FS_Singleton
      <4> QED BY <2>1, <2>2, <2>3, <2>4, <3>3, <4>4, <4>6, <4>7
    <3>4. CASE ~(asked > owned)
      <4>1. rows = {}
        BY <2>8, <3>2, <3>4
      <4> QED BY <2>1, <2>2, <2>3, <2>4, <3>4, <4>1
    <3> QED BY <3>3, <3>4
  <2> QED BY <2>9, <2>10
<1> QED BY <1>1, Invariance, PTL

-----------------------------------------------------------------------------
(* One at a time *)

LEMMA SameTables ==
  /\ OneAtATime!UniqueKey = UniqueKey
  /\ \A row : OneAtATime!IsRow(row) <=> IsRow(row)
  /\ \A p, q : OneAtATime!SameKey(p, q) <=> SameKey(p, q)
  /\ \A d, row : OneAtATime!Free(d, row) <=> Free(d, row)
  /\ \A d, row : OneAtATime!Resolves(d, row) <=> Resolves(d, row)
  /\ \A d, S : OneAtATime!Swept(d, S) = Swept(d, S) /\ OneAtATime!Holders(d, S) = Holders(d, S)
  /\ \A row, c : OneAtATime!Set(row, c) = Set(row, c)
  /\ \A d, i, row : OneAtATime!With(d, i, row) = With(d, i, row)
  /\ \A d, S : OneAtATime!Without(d, S) = Without(d, S)
<1>1. /\ OneAtATime!UniqueKey = UniqueKey /\ OneAtATime!Refers = Refers
      /\ OneAtATime!Cascades = Cascades /\ OneAtATime!Schema = Schema
  BY DEF OneAtATime!UniqueKey, UniqueKey, OneAtATime!Refers, Refers, OneAtATime!Cascades, Cascades,
         OneAtATime!Schema, Schema
<1>2. \A p, q : OneAtATime!SameKey(p, q) <=> SameKey(p, q)
  BY <1>1 DEF OneAtATime!SameKey, SameKey, OneAtATime!Keyed, Keyed, OneAtATime!Key, Key
<1>3. \A row : OneAtATime!Columns(row) = Columns(row)
  BY <1>1 DEF OneAtATime!Columns, Columns
<1>4. \A row : OneAtATime!Names(row) = Names(row)
  BY <1>3 DEF OneAtATime!Names, Names
<1>5. \A row : OneAtATime!NamesByCascade(row) = NamesByCascade(row)
  BY <1>1, <1>3 DEF OneAtATime!NamesByCascade, NamesByCascade
<1>6. \A d, table : OneAtATime!Of(d, table) = Of(d, table)
  BY DEF OneAtATime!Of, Of
<1>7. \A d, row : OneAtATime!Free(d, row) <=> Free(d, row)
  BY <1>2 DEF OneAtATime!Free, Free
<1>8. \A d, row : OneAtATime!Resolves(d, row) <=> Resolves(d, row)
  BY <1>1, <1>3, <1>6 DEF OneAtATime!Resolves, Resolves
<1>9. \A d, S : OneAtATime!Swept(d, S) = Swept(d, S)
  BY <1>5 DEF OneAtATime!Swept, Swept
<1>10. \A d, S : OneAtATime!Holders(d, S) = Holders(d, S)
  BY <1>4, <1>9 DEF OneAtATime!Holders, Holders
<1>11. /\ \A row, c : OneAtATime!Set(row, c) = Set(row, c)
       /\ \A d, i, row : OneAtATime!With(d, i, row) = With(d, i, row)
       /\ \A d, S : OneAtATime!Without(d, S) = Without(d, S)
  BY DEF OneAtATime!Set, Set, OneAtATime!With, With, OneAtATime!Without, Without
<1>12. \A row : OneAtATime!IsRow(row) <=> IsRow(row)
  BY <1>1 DEF OneAtATime!IsRow, IsRow
<1> QED BY <1>1, <1>2, <1>7, <1>8, <1>9, <1>10, <1>11, <1>12

(* What is asked means the same in both. *)
LEMMA SameJobs ==
  /\ \A j : OneAtATime!HasSubject(j) <=> HasSubject(j)
  /\ \A d, j : OneAtATime!Found(d, j) <=> Found(d, j)
  /\ \A r, n : OneAtATime!NewId(r, n) = NewId(r, n)
  /\ \A row, c : OneAtATime!Moved(row, c) = Moved(row, c)
  /\ \A d, list, unit : OneAtATime!Entry(d, list, unit) = Entry(d, list, unit)
  /\ \A j : OneAtATime!RowAsked(j) = AddedRow(j)
<1>1. \A d, table : OneAtATime!Of(d, table) = Of(d, table)
  BY DEF OneAtATime!Of, Of
<1>2. \A d, j : OneAtATime!Found(d, j) <=> Found(d, j)
  BY <1>1 DEF OneAtATime!Found, Found
<1>3. \A d, list : OneAtATime!EntriesOf(d, list) = EntriesOf(d, list)
  BY <1>1 DEF OneAtATime!EntriesOf, EntriesOf
<1>4. \A d, list, unit : OneAtATime!Entry(d, list, unit) = Entry(d, list, unit)
  BY <1>3 DEF OneAtATime!Entry, Entry
<1>5. \A j : OneAtATime!HasSubject(j) <=> HasSubject(j)
  BY DEF OneAtATime!HasSubject, HasSubject
<1>6. \A r, n : OneAtATime!NewId(r, n) = NewId(r, n)
  BY DEF OneAtATime!NewId, NewId
<1>7. \A row, c : OneAtATime!Moved(row, c) = Moved(row, c)
  BY DEF OneAtATime!Moved, Moved
<1>8. \A j : OneAtATime!RowAsked(j) = AddedRow(j)
  <2>1. \A o, l, u, a : OneAtATime!EntryRow(o, l, u, a) = EntryRow(o, l, u, a)
    BY DEF OneAtATime!EntryRow, EntryRow
  <2> QED BY <2>1 DEF OneAtATime!RowAsked, AddedRow
<1> QED BY <1>2, <1>4, <1>5, <1>6, <1>7, <1>8

(* No row names a row of its own table: one that is added is there by what *)
(* was there.                                                              *)
LEMMA ResolvesWithout ==
  ASSUME NEW d, NEW i, i \notin DOMAIN d, NEW row, IsRow(row), NEW new, new = With(d, i, row),
         Resolves(new, row)
  PROVE  Resolves(d, row)
<1>1. \A table \in DOMAIN Schema : \A c \in Schema[table] \cap DOMAIN Refers : Refers[c] # table
  BY DEF Schema, Refers
<1>2. DOMAIN new = DOMAIN d \cup {i} /\ new[i] = row /\ \A k \in DOMAIN d : new[k] = d[k]
  BY DEF With
<1>3. ASSUME NEW c \in Columns(row), row[c] \in Of(new, Refers[c]) PROVE row[c] \in Of(d, Refers[c])
  <2>1. row[c] # i
    BY <1>1, <1>2, <1>3 DEF Columns, IsRow, Of
  <2> QED BY <1>2, <1>3, <2>1 DEF Of
<1> QED BY <1>3 DEF Resolves

(* Where there is an entry there is its list, and where a link its unit.   *)
LEMMA ListIsThere ==
  ASSUME NEW d, NEW row, Resolves(d, row), IsRow(row),
         row.table \in {"army_units", "user_unit", "unit_weapons"}
  PROVE  /\ row.table = "army_units" => row.army_id \in DOMAIN d
         /\ row.table = "user_unit" => row.owner_user_id \in DOMAIN d
         /\ row.table = "unit_weapons" => row.unit_id \in DOMAIN d
<1>1. /\ {"army_id", "owner_user_id", "unit_id"} \subseteq DOMAIN Refers
      /\ "army_id" \in Schema["army_units"] /\ "owner_user_id" \in Schema["user_unit"]
      /\ "unit_id" \in Schema["unit_weapons"]
  BY DEF Schema, Refers
<1>2. \A c \in Columns(row) : c # "subfaction_id" => row[c] \in DOMAIN d
  BY DEF Resolves, Of
<1>3. row.table = "army_units" => row.army_id \in DOMAIN d
  BY <1>1, <1>2 DEF Columns, IsRow
<1>4. row.table = "user_unit" => row.owner_user_id \in DOMAIN d
  BY <1>1, <1>2 DEF Columns, IsRow
<1>5. row.table = "unit_weapons" => row.unit_id \in DOMAIN d
  BY <1>1, <1>2 DEF Columns, IsRow
<1> QED BY <1>3, <1>4, <1>5

LEMMA EntryHasList ==
  ASSUME NEW d, Good(d), NEW list, NEW unit, NEW i \in Entry(d, list, unit)
  PROVE  list \in DOMAIN d
<1>1. /\ i \in DOMAIN d /\ d[i].table \in {"army_units", "user_unit"}
      /\ d[i].table = "army_units" => d[i].army_id = list
      /\ d[i].table = "user_unit" => d[i].owner_user_id = list
  BY DEF Entry, EntriesOf, Of
<1>2. Resolves(d, d[i]) /\ IsRow(d[i])
  BY <1>1 DEF Good, Resolved, Typed
<1> QED BY <1>1, <1>2, ListIsThere

LEMMA LinkHasUnit ==
  ASSUME NEW d, Good(d), NEW i \in DOMAIN d, NEW row, row.table = "unit_weapons", SameKey(d[i], row)
  PROVE  row.unit_id \in DOMAIN d
<1>1. d[i].table = "unit_weapons" /\ d[i].unit_id = row.unit_id
  <2>1. UniqueKey["unit_weapons"] = {"unit_id", "weapon_id"}
    BY DEF UniqueKey
  <2>2. d[i].table = "unit_weapons" /\ Key(d[i]) = Key(row)
    BY DEF SameKey
  <2>3. Key(d[i])["unit_id"] = Key(row)["unit_id"]
    BY <2>2
  <2> QED BY <2>1, <2>2, <2>3 DEF Key
<1>2. Resolves(d, d[i]) /\ IsRow(d[i])
  BY DEF Good, Resolved, Typed
<1> QED BY <1>1, <1>2, ListIsThere

(* A request at work whose subject is there may act. *)
LEMMA MayAct ==
  ASSUME Inv, NEW r \in Requests, tx[r].pc = "working", HasSubject(job[r]) => job[r].id \in DOMAIN db
  PROVE  OneAtATime!Ready(r)
<1>1. HasSubject(job[r]) => Subject(db, job[r], Done)
  BY AtWork
<1>2. HasSubject(job[r]) => Found(db, job[r])
  BY <1>1 DEF Subject
<1>3. r \in DOMAIN Seen
  BY DEF Seen, Busy
<1> QED BY <1>2, <1>3, SameJobs DEF OneAtATime!Ready, OneAtATime!Allowed

LEMMA AddIsOne ==
  ASSUME Inv, NEW r \in Requests, tx[r].pc = "working",
         Good(db), NEW t, Granted(db, r, t), NewId(r, 1) \notin DOMAIN db,
         NEW j, j = job[r], Asks(j), j.kind \in {"add", "create", "link"},
         t.todo = <<>>, Adding(j, r, t),
         db' = Overlay(db, t.wrote, t.gone)
  PROVE  db' = db \/ OneAtATime!Add(r)
<1>1. PICK new : new = db'
  OBVIOUS
<1>2. Covers(new, db, t.wrote, t.gone) /\ Resolved(new) /\ KeysDiffer(new)
  <2>1. Covers(new, db, t.wrote, t.gone)
    BY <1>1, OverlayFacts
  <2> QED BY <1>1, <2>1 DEF Granted
<1>3. CASE DOMAIN t.wrote = {} /\ t.gone = {}
  <2>1. DOMAIN new = DOMAIN db /\ \A k \in DOMAIN db : new[k] = db[k]
    BY <1>2, <1>3 DEF Covers
  <2> QED BY <1>1, <1>2, <2>1 DEF Covers, Good
<1>4. CASE /\ t.gone = {} /\ DOMAIN t.wrote = {NewId(r, 1)} /\ IsRow(AddedRow(j))
           /\ t.wrote[NewId(r, 1)] = AddedRow(j)
  <2>1. PICK i : i = NewId(r, 1)
    OBVIOUS
  <2>2. PICK row : row = AddedRow(j)
    OBVIOUS
  <2>3. DOMAIN new = DOMAIN db \cup {i} /\ new[i] = row /\ \A k \in DOMAIN db : new[k] = db[k]
    BY <1>2, <1>4, <2>1, <2>2 DEF Covers
  <2>4. new = With(db, i, row)
    BY <1>2, <2>1, <2>3 DEF With, Covers
  <2>5. Free(db, row)
    BY <1>2, <2>1, <2>3 DEF Free, KeysDiffer
  <2>6. Resolves(db, row)
    <3>1. Resolves(new, row)
      BY <1>2, <2>3 DEF Resolved
    <3> QED BY <1>4, <2>1, <2>2, <2>4, <3>1, ResolvesWithout
  <2>7. HasSubject(j) => j.id \in DOMAIN db
    <3>1. CASE j.kind = "add"
      <4>1. row = EntryRow(j.table, j.id, j.unit, j.amount) /\ j.table \in {"armies", "users"}
        BY <2>2, <3>1 DEF AddedRow, Asks
      <4>2. \/ row.table = "army_units" /\ row.army_id = j.id
            \/ row.table = "user_unit" /\ row.owner_user_id = j.id
        BY <4>1 DEF EntryRow
      <4> QED BY <1>4, <2>2, <2>6, <4>2, ListIsThere
    <3>2. CASE j.kind = "link"
      <4>1. row.table = "unit_weapons" /\ row.unit_id = j.id
        BY <2>2, <3>2 DEF AddedRow, Asks
      <4> QED BY <1>4, <2>2, <2>6, <4>1, ListIsThere
    <3> QED BY <3>1, <3>2 DEF HasSubject
  <2>8. OneAtATime!Ready(r)
    BY <2>7, MayAct
  <2>9. OneAtATime!RowAsked(job[r]) = row /\ OneAtATime!NewId(r, 1) = i
    BY <2>1, <2>2, SameJobs
  <2>10. /\ OneAtATime!IsRow(row) /\ OneAtATime!Free(db, row) /\ OneAtATime!Resolves(db, row)
         /\ db' = OneAtATime!With(db, i, row) /\ i \notin DOMAIN db
    BY <1>1, <1>4, <2>1, <2>2, <2>4, <2>5, <2>6, SameTables
  <2> QED BY <2>8, <2>9, <2>10 DEF OneAtATime!Add
<1> QED BY <1>3, <1>4 DEF Adding

LEMMA ChangeIsOne ==
  ASSUME Inv, NEW r \in Requests, tx[r].pc = "working",
         Good(db), NEW t, t = tx[r], Granted(db, r, t), NEW oks,
         NEW j, j = job[r], j.kind \in {"set", "update"},
         t.todo = <<>>, Changing(db, j, t, oks),
         db' = Overlay(db, t.wrote, t.gone)
  PROVE  db' = db \/ OneAtATime!Change(r)
<1>1. PICK new : new = db'
  OBVIOUS
<1>2. Covers(new, db, t.wrote, t.gone) /\ Resolved(new)
  <2>1. Covers(new, db, t.wrote, t.gone)
    BY <1>1, OverlayFacts
  <2> QED BY <1>1, <2>1 DEF Granted
<1>3. CASE DOMAIN t.wrote = {} /\ t.gone = {}
  <2>1. DOMAIN new = DOMAIN db /\ \A k \in DOMAIN db : new[k] = db[k]
    BY <1>2, <1>3 DEF Covers
  <2> QED BY <1>1, <1>2, <2>1 DEF Covers, Good
<1>4. CASE \E i, c :
             /\ Aimed(db, j, i) /\ c = Sent(j, t)
             /\ (i \in DOMAIN db => Fits(db[i], c)) /\ t.gone = {}
             /\ DOMAIN t.wrote = {i} /\ i \in DOMAIN db /\ t.wrote[i] = Set(db[i], c)
  <2>1. PICK i, c :
          /\ Aimed(db, j, i) /\ c = Sent(j, t)
          /\ (i \in DOMAIN db => Fits(db[i], c)) /\ t.gone = {}
          /\ DOMAIN t.wrote = {i} /\ i \in DOMAIN db /\ t.wrote[i] = Set(db[i], c)
    BY <1>4
  <2>2. PICK row : row = Set(db[i], c)
    OBVIOUS
  <2>3. DOMAIN new = DOMAIN db /\ new[i] = row /\ \A k \in DOMAIN db \ {i} : new[k] = db[k]
    BY <1>2, <2>1, <2>2 DEF Covers
  <2>4. IsRow(db[i]) /\ Fits(db[i], c)
    BY <2>1 DEF Good, Typed
  <2>5. row.table = db[i].table /\ IsRow(row)
    BY <2>2, <2>4, SetFits
  <2>6. \A table : Of(new, table) = Of(db, table)
    BY <2>3, <2>5 DEF Of
  <2>7. Resolves(db, row)
    BY <1>2, <2>1, <2>3, <2>6 DEF Resolved, Resolves
  <2>8. DOMAIN c \cap UniqueKey[db[i].table] = {}
    BY <2>4 DEF Fits, IsRow, Steady
  <2>9. new = [db EXCEPT ![i] = row]
    BY <1>2, <2>1, <2>3 DEF Covers, Good
  <2>10. OneAtATime!ChangesAsked(r) = c
    <3>1. Seen[r] = t.loaded
      BY DEF Seen, Busy
    <3>2. j.kind = "update" => OneAtATime!Moved(Seen[r], job[r].changes) = c
      BY <2>1, <3>1, SameJobs DEF Sent
    <3> QED BY <2>1, <3>2 DEF OneAtATime!ChangesAsked, Sent
  <2>11. \/ j.kind = "update" /\ i = j.id
         \/ j.kind = "set" /\ i \in Entry(db, j.id, j.unit)
    BY <2>1 DEF Aimed
  <2>12. OneAtATime!Ready(r)
    <3>1. j.id \in DOMAIN db
      BY <2>1, <2>11, EntryHasList
    <3> QED BY <3>1, MayAct
  <2>13. \/ job[r].kind = "update" /\ i = job[r].id
         \/ job[r].kind = "set" /\ i \in OneAtATime!Entry(db, job[r].id, job[r].unit)
    BY <2>11, SameJobs
  <2>14. /\ OneAtATime!Set(db[i], c) = row /\ OneAtATime!IsRow(row) /\ OneAtATime!Resolves(db, row)
         /\ DOMAIN c \cap OneAtATime!UniqueKey[db[i].table] = {}
    BY <2>2, <2>5, <2>7, <2>8, SameTables
  <2>15. db' = [db EXCEPT ![i] = row] /\ i \in DOMAIN db
    BY <1>1, <2>1, <2>9
  <2> QED BY <2>10, <2>12, <2>13, <2>14, <2>15 DEF OneAtATime!Change
<1> QED BY <1>3, <1>4 DEF Changing

(* A row goes with what cascades from it, and nothing else held on to it. *)
LEMMA RemoveIsOne ==
  ASSUME Inv, NEW r \in Requests, tx[r].pc = "working",
         Good(db), NEW t, Granted(db, r, t), NEW j, j = job[r], Asks(j), NEW i,
         DOMAIN t.wrote = {}, db' = Overlay(db, t.wrote, t.gone),
         i \in DOMAIN db => /\ t.gone = Swept(db, {i}) /\ Holders(db, {i}) = {}
                            /\ \/ j.kind = "delete" /\ i = j.id
                               \/ j.kind = "remove" /\ i \in Entry(db, j.id, j.unit)
                               \/ j.kind = "unlink" /\ SameKey(db[i], j.row),
         i \notin DOMAIN db => t.gone = {}
  PROVE  db' = db \/ OneAtATime!Remove(r)
<1>1. PICK new : new = db'
  OBVIOUS
<1>2. Covers(new, db, t.wrote, t.gone)
  BY <1>1, OverlayFacts
<1>3. DOMAIN new = DOMAIN db \ t.gone /\ \A k \in DOMAIN new : new[k] = db[k]
  BY <1>2 DEF Covers
<1>4. CASE i \notin DOMAIN db
  <2>1. DOMAIN new = DOMAIN db
    BY <1>3, <1>4
  <2> QED BY <1>1, <1>2, <1>3, <2>1 DEF Covers, Good
<1>5. CASE i \in DOMAIN db
  <2>1. new = Without(db, Swept(db, {i}))
    BY <1>2, <1>3, <1>5 DEF Without, Covers
  <2>2. j.id \in DOMAIN db
    <3>1. CASE j.kind = "delete" /\ i = j.id
      BY <1>5, <3>1
    <3>2. CASE j.kind = "remove" /\ i \in Entry(db, j.id, j.unit)
      BY <3>2, EntryHasList
    <3>3. CASE j.kind = "unlink" /\ SameKey(db[i], j.row)
      <4>1. j.row.table = "unit_weapons" /\ j.row.unit_id = j.id
        BY <3>3 DEF Asks
      <4> QED BY <1>5, <3>3, <4>1, LinkHasUnit
    <3> QED BY <1>5, <3>1, <3>2, <3>3
  <2>3. OneAtATime!Ready(r)
    BY <2>2, MayAct
  <2>4. \/ job[r].kind = "delete" /\ i = job[r].id
        \/ job[r].kind = "remove" /\ i \in OneAtATime!Entry(db, job[r].id, job[r].unit)
        \/ job[r].kind = "unlink" /\ OneAtATime!SameKey(db[i], job[r].row)
    BY <1>5, SameJobs, SameTables
  <2>5. /\ OneAtATime!Holders(db, {i}) = {}
        /\ db' = OneAtATime!Without(db, OneAtATime!Swept(db, {i}))
    BY <1>1, <1>5, <2>1, SameTables
  <2> QED BY <1>5, <2>3, <2>4, <2>5 DEF OneAtATime!Remove
<1> QED BY <1>4, <1>5

LEMMA CommitIsOne ==
  ASSUME Inv, NEW r \in Requests, Commit(r)
  PROVE  db' = db \/ OneAtATime!Add(r) \/ OneAtATime!Change(r) \/ OneAtATime!Remove(r)
<1>1. /\ tx[r].pc = "working" /\ tx[r].todo = <<>> /\ job[r].kind # "seed"
      /\ db' = Overlay(db, tx[r].wrote, tx[r].gone)
  BY DEF Commit, Complete, View
<1>2. PICK t : t = tx[r]
  OBVIOUS
<1>3. PICK j : j = job[r]
  OBVIOUS
<1>4. PICK oks : oks = Done
  OBVIOUS
<1>5. /\ Good(db) /\ (\A i \in DOMAIN db : Known(i, oks)) /\ Asks(j) /\ r \notin oks
      /\ Granted(db, r, t) /\ Line(db, j, r, t, oks)
  BY <1>1, <1>2, <1>3, <1>4, AtWork
<1>6. t.todo = <<>> /\ j.kind # "seed" /\ db' = Overlay(db, t.wrote, t.gone)
  BY <1>1, <1>2, <1>3
<1>7. CASE j.kind \in {"add", "create", "link"}
  <2>1. NewId(r, 1) \notin DOMAIN db
    BY <1>5 DEF Known, NewId
  <2>2. Adding(j, r, t)
    BY <1>5, <1>7 DEF Line
  <2> QED BY <1>1, <1>3, <1>5, <1>6, <1>7, <2>1, <2>2, AddIsOne
<1>8. CASE j.kind \in {"set", "update"}
  <2>1. Changing(db, j, t, oks)
    BY <1>5, <1>8 DEF Line
  <2> QED BY <1>1, <1>2, <1>3, <1>5, <1>6, <1>8, <2>1, ChangeIsOne
<1>9. CASE j.kind \in {"remove", "unlink"}
  <2>1. Removing(db, j, t, oks)
    BY <1>5, <1>9 DEF Line
  <2>2. CASE t.gone = {}
    <3>1. None \notin DOMAIN db /\ DOMAIN t.wrote = {}
      BY <1>5, <2>1 DEF Good, Removing
    <3> QED BY <1>1, <1>3, <1>5, <1>6, <2>2, <3>1, RemoveIsOne
  <2>3. CASE t.gone # {}
    <3>1. PICK i : Target(db, j, i) /\ t.gone = {i} /\ DOMAIN t.wrote = {}
      BY <2>1, <2>3 DEF Removing
    <3>2. i \in DOMAIN db
      BY <1>5, <3>1 DEF Granted
    <3>3. /\ db[i].table \in {"army_units", "user_unit", "unit_weapons"}
          /\ \/ j.kind = "remove" /\ i \in Entry(db, j.id, j.unit)
             \/ j.kind = "unlink" /\ SameKey(db[i], j.row)
      BY <1>9, <3>1, <3>2 DEF Target
    <3>4. Swept(db, {i}) = {i}
      <4>1. Resolved(db) /\ Typed(db) /\ None \notin DOMAIN db
        BY <1>5 DEF Good
      <4>2. Swept(db, {i} \cap DOMAIN db) = {i} \cap DOMAIN db
        BY <3>3, <4>1, LeafGoes
      <4>3. {i} \cap DOMAIN db = {i}
        BY <3>2
      <4> QED BY <4>2, <4>3
    <3>5. Holders(db, {i}) = {}
      BY <1>5, <3>2, <3>3, <3>4, NobodyNames DEF Good, Holders
    <3>6. t.gone = Swept(db, {i})
      BY <3>1, <3>4
    <3> QED BY <1>1, <1>3, <1>5, <1>6, <3>1, <3>2, <3>3, <3>5, <3>6, RemoveIsOne
  <2> QED BY <2>2, <2>3
<1>10. CASE j.kind = "delete"
  <2>1. Deleting(db, j, t, oks)
    BY <1>5, <1>10 DEF Line
  <2>2. /\ DOMAIN t.wrote = {}
        /\ j.id \in DOMAIN db => t.gone = Swept(db, {j.id}) /\ Holders(db, {j.id}) = {}
        /\ j.id \notin DOMAIN db => t.gone = {}
    BY <1>6, <2>1 DEF Deleting
  <2> QED BY <1>1, <1>3, <1>5, <1>6, <1>10, <2>2, RemoveIsOne
<1>11. j.kind \in {"add", "set", "remove", "create", "update", "delete", "link", "unlink", "seed"}
  BY <1>5 DEF Asks
<1> QED BY <1>6, <1>7, <1>8, <1>9, <1>10, <1>11

(* A request that ends, one that looks, and one that goes on.              *)
LEMMA EndsOnce ==
  ASSUME Inv, NEW r \in Requests, NEW outcome \in Outcomes, tx[r].pc \notin Outcomes,
         tx' = [tx EXCEPT ![r] = Ended(outcome)], job' = job
  PROVE  OneAtATime!End(r)
<1>1. PICK t : t = Ended(outcome)
  OBVIOUS
<1>2. t.pc = outcome
  BY <1>1 DEF Ended
<1>3. tx'[r].pc \in Outcomes /\ \A q \in Requests \ {r} : tx'[q] = tx[q]
  BY <1>1, <1>2 DEF Inv
<1>4. Finished' = Finished \cup {r} /\ r \notin Finished
  BY <1>3 DEF Finished
<1>5. Busy' = Busy \ {r}
  BY <1>3 DEF Busy, Outcomes
<1>6. Seen' = Without(Seen, {r})
  <2>1. Seen' = [q \in Busy \ {r} |-> tx[q].loaded]
    BY <1>3, <1>5 DEF Seen, Busy
  <2> QED BY <2>1 DEF Without, Seen
<1> QED BY <1>4, <1>6, SameTables DEF OneAtATime!End

LEMMA LooksOnce ==
  ASSUME Inv, NEW r \in Requests, Load(r)
  PROVE  OneAtATime!Look(r)
<1>1. /\ tx[r].pc = "start" /\ tx[r].loaded = None /\ DOMAIN tx[r] = Fields
  BY DEF Inv, Fine, Load
<1>2. PICK row : row = IF HasSubject(job[r]) THEN db[job[r].id] ELSE None
  OBVIOUS
<1>3. PICK t : Step(r, t) /\ t.pc = "loaded" /\ t.loaded = row
  <2>1. CASE ~HasSubject(job[r])
    <3>1. PICK u : u = [tx[r] EXCEPT !.pc = "loaded"]
      OBVIOUS
    <3>2. Step(r, u)
      BY <2>1, <3>1 DEF Load
    <3>3. u.pc = "loaded" /\ u.loaded = row
      BY <1>1, <1>2, <2>1, <3>1 DEF Fields
    <3> QED BY <3>2, <3>3
  <2>2. CASE HasSubject(job[r])
    <3>1. PICK u : u = [tx[r] EXCEPT !.pc = "loaded", !.loaded = db[job[r].id]]
      OBVIOUS
    <3>2. Step(r, u)
      BY <2>2, <3>1 DEF Load
    <3>3. u.pc = "loaded" /\ u.loaded = row
      BY <1>1, <1>2, <2>2, <3>1 DEF Fields
    <3> QED BY <3>2, <3>3
  <2> QED BY <2>1, <2>2
<1>4. /\ tx'[r].pc = "loaded" /\ tx'[r].loaded = row
      /\ \A q \in Requests \ {r} : tx'[q] = tx[q]
      /\ db' = db /\ job' = job
  BY <1>3 DEF Inv, Step
<1>5. Finished' = Finished /\ r \notin Finished
  BY <1>1, <1>4 DEF Finished, Outcomes
<1>6. Busy' = Busy \cup {r} /\ r \notin Busy
  BY <1>1, <1>4 DEF Busy
<1>7. Seen' = With(Seen, r, row)
  <2>1. Seen' = [q \in Busy \cup {r} |-> IF q = r THEN row ELSE tx[q].loaded]
    BY <1>4, <1>6 DEF Seen, Busy
  <2> QED BY <1>6, <2>1 DEF With, Seen
<1>8. HasSubject(job[r]) => Found(db, job[r])
  BY DEF Load
<1>9. r \notin DOMAIN Seen
  BY <1>6 DEF Seen
<1> QED BY <1>2, <1>4, <1>5, <1>7, <1>8, <1>9, SameTables, SameJobs
        DEF OneAtATime!Look, OneAtATime!Allowed

LEMMA GoesOn ==
  ASSUME Inv, NEW r \in Requests, NEW t, Step(r, t), tx[r].pc \in {"loaded", "working"},
         t.pc = "working", t.loaded = tx[r].loaded
  PROVE  UNCHANGED OneAtATime!vars
<1>1. /\ tx'[r].pc = "working" /\ tx'[r].loaded = tx[r].loaded
      /\ \A q \in Requests \ {r} : tx'[q] = tx[q]
      /\ db' = db /\ job' = job
  BY DEF Inv, Step
<1>2. Finished' = Finished
  BY <1>1 DEF Finished, Outcomes
<1>3. Busy' = Busy
  BY <1>1 DEF Busy
<1>4. Seen' = Seen
  BY <1>1, <1>3 DEF Seen, Busy
<1> QED BY <1>1, <1>2, <1>4 DEF OneAtATime!vars

(* Requests that overlap do to the tables what their own steps would, one  *)
(* at a time: each commit is the addition, the change or the removal its   *)
(* request asked for, allowed where the tables stood then, whatever they   *)
(* were when it was decided; and nothing else changes a row.               *)
THEOREM StepByStep == Spec => CommitsAreSteps
<1>1. Init => OneAtATime!Init
  <2> SUFFICES ASSUME Init PROVE OneAtATime!Init
    OBVIOUS
  <2>1. Busy = {} /\ Finished = {}
    BY DEF Init, Busy, Finished, Outcomes
  <2>2. Seen = <<>>
    BY <2>1 DEF Seen
  <2> QED BY <2>1, <2>2 DEF Init, OneAtATime!Init
<1>2. Inv /\ [Next]_vars => [OneAtATime!Next]_(OneAtATime!vars)
  <2> SUFFICES ASSUME Inv, [Next]_vars
               PROVE  OneAtATime!Next \/ UNCHANGED OneAtATime!vars
    OBVIOUS
  <2>1. CASE UNCHANGED vars
    BY <2>1 DEF vars, OneAtATime!vars, Seen, Busy, Finished
  <2>2. ASSUME NEW r \in Requests, Run(r) \/ Lost(r)
        PROVE  OneAtATime!Next \/ UNCHANGED OneAtATime!vars
    <3>1. DOMAIN tx[r] = Fields
      BY DEF Inv, Fine
    <3>2. ASSUME NEW outcome \in Outcomes, End(r, outcome), tx[r].pc \notin Outcomes
          PROVE  OneAtATime!Next
      BY <3>2, EndsOnce DEF End, Step, OneAtATime!Next
    <3>3. CASE Load(r)
      BY <3>3, LooksOnce DEF OneAtATime!Next
    <3>4. CASE Decide(r)
      <4>1. PICK t : t = [tx[r] EXCEPT !.pc = "working", !.refreshed = Refreshed(r), !.todo = Plan(r)]
        OBVIOUS
      <4>2. Step(r, t) /\ tx[r].pc = "loaded"
        BY <3>4, <4>1 DEF Decide
      <4>3. t.pc = "working" /\ t.loaded = tx[r].loaded
        BY <3>1, <4>1 DEF Fields
      <4> QED BY <4>2, <4>3, GoesOn
    <3>5. CASE Gather(r)
      <4>1. PICK todo : Step(r, [tx[r] EXCEPT !.todo = todo \o Tail(@)])
        BY <3>5 DEF Gather
      <4>2. PICK t : t = [tx[r] EXCEPT !.todo = todo \o Tail(@)]
        OBVIOUS
      <4>3. Step(r, t) /\ tx[r].pc = "working"
        BY <3>5, <4>1, <4>2 DEF Gather, Working
      <4>4. t.pc = "working" /\ t.loaded = tx[r].loaded
        BY <3>1, <4>2, <4>3 DEF Fields
      <4> QED BY <4>3, <4>4, GoesOn
    <3>6. CASE Seek(r)
      <4>1. PICK todo : Step(r, [tx[r] EXCEPT !.todo = todo \o Tail(@)])
        BY <3>6 DEF Seek
      <4>2. PICK t : t = [tx[r] EXCEPT !.todo = todo \o Tail(@)]
        OBVIOUS
      <4>3. Step(r, t) /\ tx[r].pc = "working"
        BY <3>6, <4>1, <4>2 DEF Seek, Working
      <4>4. t.pc = "working" /\ t.loaded = tx[r].loaded
        BY <3>1, <4>2, <4>3 DEF Fields
      <4> QED BY <4>3, <4>4, GoesOn
    <3>7. CASE Execute(r)
      <4>1. PICK s : s = Head(tx[r].todo)
        OBVIOUS
      <4>2. PICK t : t = [tx[r] EXCEPT
                !.todo = Tail(@),
                !.wrote = IF Leaves(s) THEN With(@, s.id, Left(View(r), s)) ELSE @,
                !.gone = @ \cup Gone(View(r), s),
                !.locks = @ \cup Needs(View(r), s), !.shares = @ \cup Shares(s)]
        OBVIOUS
      <4>3. Step(r, t) /\ tx[r].pc = "working"
        BY <3>7, <4>1, <4>2 DEF Execute, Working
      <4>4. t.pc = "working" /\ t.loaded = tx[r].loaded
        BY <3>1, <4>2, <4>3 DEF Fields
      <4> QED BY <4>3, <4>4, GoesOn
    <3>8. CASE Commit(r)
      <4>1. /\ db' = db \/ OneAtATime!Add(r) \/ OneAtATime!Change(r) \/ OneAtATime!Remove(r)
            /\ tx[r].pc = "working" /\ tx' = [tx EXCEPT ![r] = Ended("ok")] /\ job' = job
        BY <3>8, CommitIsOne DEF Commit, Complete
      <4>2. OneAtATime!End(r)
        BY <4>1, EndsOnce DEF Outcomes
      <4> QED BY <4>1, <4>2 DEF OneAtATime!Next
    <3>9. CASE Refuse(r) \/ Lose(r) \/ Fail(r) \/ Report(r) \/ Lost(r)
      <4>1. /\ tx[r].pc \in {"start", "loaded", "working"}
            /\ \E outcome \in Outcomes : End(r, outcome)
        BY <3>9 DEF Refuse, Lose, OrphansAnEntry, Working, Fail, Report, Complete, Lost, Outcomes
      <4>2. tx[r].pc \notin Outcomes /\ db' = db
        BY <4>1 DEF Outcomes, End, Step
      <4> QED BY <3>2, <4>1, <4>2
    <3> QED BY <2>2, <3>3, <3>4, <3>5, <3>6, <3>7, <3>8, <3>9 DEF Run
  <2> QED BY <2>1, <2>2 DEF Next
<1> QED BY <1>1, <1>2, Invariance, PTL DEF Spec, CommitsAreSteps, OneAtATime!Spec

-----------------------------------------------------------------------------
(* Deletions *)

(* What a deletion has still to do while nobody has touched its row: the   *)
(* entries are gone before it looks for what hangs on, and the links it    *)
(* found are there to be deleted.                                          *)
Cleared(d, x, t) == EntriesOf(d, x) \subseteq t.gone

LinksLeft(d, x, t) ==
  /\ \A k \in 1..Len(t.todo) : k # Len(t.todo) =>
       t.todo[k] = Take(x) \/ \E i \in DOMAIN d \ t.gone : t.todo[k] = Unlink(i)
  /\ \A k, l \in 1..Len(t.todo) : t.todo[k] = t.todo[l] => k = l

Begins(t, x) == t.todo = <<Clear(x), Collect(x), Take(x), Delete(x)>>
Collects(t, x) == t.todo = <<Collect(x), Take(x), Delete(x)>>

Clearing(d, x, t) ==
  \/ Begins(t, x)
  \/ Collects(t, x) /\ Cleared(d, x, t)
  \/ t.todo # <<>> /\ Cleared(d, x, t) /\ LinksLeft(d, x, t)
  \/ t.todo = <<>>

Yields(d, j, t) ==
  j.id \in DOMAIN d =>
    /\ t.pc = "working" => Clearing(d, j.id, t)
    /\ (t.pc \in {"refused", "conflict"} /\ Found(d, j)) => Holders(d, {j.id}) # {}

Excused(r) == \E q \in Requests \ {r} : tx[q].pc = "ok" /\ Disturbs(q, job[r].id)

Yielding == \A r \in Requests : job[r].kind = "delete" => Excused(r) \/ Yields(db, job[r], tx[r])

LEMMA OnlyListsHaveEntries ==
  ASSUME NEW d, Good(d), NEW x \in DOMAIN d, d[x].table \notin {"armies", "users"}
  PROVE  EntriesOf(d, x) = {}
<1> SUFFICES ASSUME NEW i \in EntriesOf(d, x) PROVE FALSE
  OBVIOUS
<1>1. i \in DOMAIN d /\ IsRow(d[i]) /\ Resolves(d, d[i])
  BY DEF EntriesOf, Of, Good, Typed, Resolved
<1>2. CASE d[i].table = "army_units" /\ d[i].army_id = x
  <2>1. "army_id" \in Columns(d[i]) /\ Refers["army_id"] = "armies"
    BY <1>1, <1>2 DEF IsRow, Schema, Columns, Refers
  <2>2. x \in Of(d, "armies")
    BY <1>1, <1>2, <2>1 DEF Resolves
  <2> QED BY <2>2 DEF Of
<1>3. CASE d[i].table = "user_unit" /\ d[i].owner_user_id = x
  <2>1. "owner_user_id" \in Columns(d[i]) /\ Refers["owner_user_id"] = "users"
    BY <1>1, <1>3 DEF IsRow, Schema, Columns, Refers
  <2>2. x \in Of(d, "users")
    BY <1>1, <1>3, <2>1 DEF Resolves
  <2> QED BY <2>2 DEF Of
<1> QED BY <1>2, <1>3 DEF EntriesOf, Of

LEMMA PlanClears ==
  ASSUME NEW d, Good(d), NEW j, Asks(j), j.kind = "delete", Found(d, j),
         NEW t, t.todo = DeletePlan(j.table, j.id)
  PROVE  Clearing(d, j.id, t)
<1>1. j.id \in DOMAIN d /\ d[j.id].table = j.table
  BY DEF Found, Of
<1>2. CASE j.table = "armies"
  BY <1>2 DEF DeletePlan, Clearing, Begins
<1>3. ASSUME j.table # "armies", j.table # "users" PROVE Cleared(d, j.id, t)
  <2>1. EntriesOf(d, j.id) = {}
    BY <1>1, <1>3, OnlyListsHaveEntries
  <2> QED BY <2>1 DEF Cleared
<1>4. CASE j.table \in {"units", "weapons"}
  BY <1>3, <1>4 DEF DeletePlan, Clearing, Collects
<1>5. CASE j.table = "subfactions"
  <2>1. t.todo = <<Take(j.id), Delete(j.id)>>
    BY <1>5 DEF DeletePlan
  <2>2. PICK a : a = Take(j.id)
    OBVIOUS
  <2>2a. PICK b : b = Delete(j.id)
    OBVIOUS
  <2>2b. a # b
    BY <2>2, <2>2a DEF Take, Delete, Statement
  <2>2c. Len(t.todo) = 2 /\ t.todo # <<>> /\ t.todo[1] = a /\ t.todo[2] = b
    BY <2>1, <2>2, <2>2a
  <2>2d. \A k \in 1..2 : k = 1 \/ k = 2
    OBVIOUS
  <2>3. LinksLeft(d, j.id, t)
    BY <2>2, <2>2b, <2>2c, <2>2d DEF LinksLeft
  <2> QED BY <1>3, <1>5, <2>2c, <2>3 DEF Clearing
<1> QED BY <1>2, <1>4, <1>5 DEF Asks

(* What is there to be cleared when a statement comes to its turn.         *)
LEMMA HeadOf ==
  ASSUME NEW d, NEW j, NEW t, NEW oks, Deleting(d, j, t, oks), t.todo # <<>>,
         Clearing(d, j.id, t), NEW s, s = Head(t.todo)
  PROVE  \/ Begins(t, j.id) /\ s = Clear(j.id)
         \/ Collects(t, j.id) /\ Cleared(d, j.id, t) /\ s = Collect(j.id)
         \/ s = Delete(j.id) /\ Len(t.todo) = 1
         \/ /\ Cleared(d, j.id, t) /\ LinksLeft(d, j.id, t) /\ Len(t.todo) # 1
            /\ \/ s = Take(j.id)
               \/ \E i \in DOMAIN d \ t.gone : s = Unlink(i) /\ HangsOn(d, i, j.id)
<1>1. CASE Begins(t, j.id)
  BY <1>1 DEF Begins
<1>2. CASE Collects(t, j.id) /\ Cleared(d, j.id, t)
  BY <1>2 DEF Collects
<1>3. CASE Cleared(d, j.id, t) /\ LinksLeft(d, j.id, t)
  <2>1. PICK S : t.todo \in Seq(S)
    BY DEF Deleting
  <2>2. PICK len \in Nat : len = Len(t.todo)
    BY <2>1, Tails
  <2>3. len > 0 /\ s = t.todo[1] /\ 1 \in 1..len
    BY <2>1, <2>2, Tails
  <2>4. CASE len = 1
    BY <2>2, <2>3, <2>4 DEF Deleting
  <2>5. CASE len # 1 /\ s # Take(j.id)
    <3>1. PICK i \in DOMAIN d \ t.gone : s = Unlink(i)
      BY <1>3, <2>2, <2>3, <2>5 DEF LinksLeft
    <3>2. s \in {Clear(j.id), Collect(j.id)} \/ \E k : s = Unlink(k) /\ HangsOn(d, k, j.id)
      BY <2>2, <2>3, <2>5 DEF Deleting
    <3>3. s.op = "unlink" /\ s.id = i
      BY <3>1 DEF Unlink, Statement
    <3>4. s \notin {Clear(j.id), Collect(j.id)}
      BY <3>3 DEF Clear, Collect, Statement
    <3>5. PICK k : s = Unlink(k) /\ HangsOn(d, k, j.id)
      BY <3>2, <3>4
    <3>6. k = i
      BY <3>1, <3>5 DEF Unlink, Statement
    <3> QED BY <1>3, <2>2, <2>5, <3>1, <3>5, <3>6
  <2>6. CASE len # 1 /\ s = Take(j.id)
    BY <1>3, <2>2, <2>6
  <2> QED BY <2>4, <2>5, <2>6
<1> QED BY <1>1, <1>2, <1>3 DEF Clearing

(* Its own statements take what it saw, and leave what it has still to     *)
(* take.                                                                   *)
LEMMA ClearingExecutes ==
  ASSUME NEW d, Good(d), NEW r, NEW t, Granted(d, r, t), NEW oks,
         NEW j, Deleting(d, j, t, oks), Clearing(d, j.id, t), t.todo # <<>>,
         NEW s, s = Head(t.todo), ~Reads(s),
         NEW new, Carried(d, t, s, new), new.todo = Tail(t.todo)
  PROVE  Clearing(d, j.id, new)
<1>1. PICK v : v = Overlay(d, t.wrote, t.gone)
  OBVIOUS
<1>2. Remains(d, t.gone, v)
  <2>1. WritesNone(t)
    BY DEF Deleting, WritesNone
  <2> QED BY <1>1, <2>1, ViewAfterGone
<1>3. new.gone = t.gone \cup Gone(v, s)
  BY <1>1 DEF Carried
<1>4. CASE Begins(t, j.id) /\ s = Clear(j.id)
  <2>1. Collects(new, j.id)
    <3>1. Tail(t.todo) = <<Collect(j.id), Take(j.id), Delete(j.id)>>
      BY <1>4 DEF Begins
    <3> QED BY <3>1 DEF Collects
  <2>2. Gone(v, s) = EntriesOf(v, j.id)
    BY <1>4 DEF Gone, Clear, Statement
  <2>3. ASSUME NEW i \in EntriesOf(d, j.id), i \notin t.gone PROVE i \in EntriesOf(v, j.id)
    <3>1. i \in DOMAIN d /\ i \in DOMAIN v /\ v[i] = d[i]
      BY <1>2, <2>3 DEF Remains, EntriesOf, Of
    <3> QED BY <2>3, <3>1 DEF EntriesOf, Of
  <2>4. Cleared(d, j.id, new)
    BY <1>3, <2>2, <2>3 DEF Cleared
  <2> QED BY <2>1, <2>4 DEF Clearing
<1>5. CASE s = Collect(j.id)
  BY <1>5 DEF Reads, Collect, Statement
<1>6. CASE Len(t.todo) = 1
  <2>1. \E S : t.todo \in Seq(S)
    BY DEF Deleting
  <2>2. new.todo = <<>>
    BY <1>6, <2>1, Tails
  <2> QED BY <2>2 DEF Clearing
<1>7. CASE /\ Cleared(d, j.id, t) /\ LinksLeft(d, j.id, t) /\ Len(t.todo) # 1
           /\ \/ s = Take(j.id)
              \/ \E i \in DOMAIN d \ t.gone : s = Unlink(i) /\ HangsOn(d, i, j.id)
  <2>1. ASSUME NEW i \in DOMAIN d \ t.gone, s = Unlink(i), HangsOn(d, i, j.id)
        PROVE  Gone(v, s) = {i}
    <3>1. s.op = "unlink" /\ s.id = i
      BY <2>1 DEF Unlink, Statement
    <3>2. i \in DOMAIN v /\ v[i].table = "unit_weapons"
      BY <1>2, <2>1 DEF Remains, HangsOn
    <3>3. Swept(v, {i} \cap DOMAIN v) = {i} \cap DOMAIN v
      BY <1>2, <3>2, LeafGoes DEF Remains
    <3> QED BY <3>1, <3>2, <3>3 DEF Gone
  <2>1a. ASSUME s = Take(j.id) PROVE Gone(v, s) = {}
    <3>1. s.op = "take"
      BY <2>1a DEF Take, Statement
    <3> QED BY <3>1 DEF Gone
  <2>2. \A i \in Gone(v, s) : s = Unlink(i)
    BY <1>7, <2>1, <2>1a
  <2>3. PICK S : t.todo \in Seq(S)
    BY DEF Deleting
  <2>4. PICK len \in Nat : len = Len(t.todo)
    BY <2>3, Tails
  <2>5. PICK w : w = new.todo
    OBVIOUS
  <2>6. /\ len > 1 /\ s = t.todo[1] /\ Len(w) = len - 1 /\ w # <<>>
        /\ \A k \in 1..(len - 1) : w[k] = t.todo[k + 1]
    <3>1. /\ len > 0 /\ s = t.todo[1] /\ Len(w) = len - 1
          /\ (w = <<>> <=> len = 1)
          /\ \A k \in 1..(len - 1) : w[k] = t.todo[k + 1]
      BY <2>3, <2>4, <2>5, Tails
    <3>2. len # 1
      BY <1>7, <2>4
    <3> QED BY <3>1, <3>2
  <2>7. /\ \A k \in 1..len : k # len =>
             t.todo[k] = Take(j.id) \/ \E l \in DOMAIN d \ t.gone : t.todo[k] = Unlink(l)
        /\ \A k, l \in 1..len : t.todo[k] = t.todo[l] => k = l
    BY <1>7, <2>4 DEF LinksLeft
  <2>8. ASSUME NEW k \in 1..(len - 1), k # len - 1
        PROVE  w[k] = Take(j.id) \/ \E l \in DOMAIN d \ new.gone : w[k] = Unlink(l)
    <3>1. k + 1 \in 1..len /\ k + 1 # len /\ 1 \in 1..len /\ k + 1 # 1
      BY <2>6, <2>8
    <3>2. ASSUME NEW l \in DOMAIN d \ t.gone, t.todo[k + 1] = Unlink(l)
          PROVE  l \notin Gone(v, s)
      BY <2>2, <2>6, <2>7, <3>1, <3>2
    <3> QED BY <1>3, <2>6, <2>7, <3>1, <3>2
  <2>9. ASSUME NEW k \in 1..(len - 1), NEW l \in 1..(len - 1), w[k] = w[l]
        PROVE  k = l
    <3>1. k + 1 \in 1..len /\ l + 1 \in 1..len /\ (k + 1 = l + 1 => k = l)
      OBVIOUS
    <3> QED BY <2>6, <2>7, <2>9, <3>1
  <2>10. LinksLeft(d, j.id, new)
    BY <2>5, <2>6, <2>8, <2>9 DEF LinksLeft
  <2>11. Cleared(d, j.id, new)
    BY <1>3, <1>7 DEF Cleared
  <2> QED BY <2>5, <2>6, <2>10, <2>11 DEF Clearing
<1> QED BY <1>4, <1>5, <1>6, <1>7, HeadOf

(* What it finds hanging on is there, and each of it once. *)
LEMMA ClearingGathers ==
  ASSUME NEW d, Good(d), NEW r, NEW t, Granted(d, r, t), NEW oks,
         NEW j, Deleting(d, j, t, oks), Clearing(d, j.id, t), t.todo # <<>>,
         Head(t.todo).op = "collect",
         NEW links, links = LinksOf(Overlay(d, t.wrote, t.gone), Head(t.todo).id),
         NEW u \in SetToSeqs({Unlink(i) : i \in links}),
         NEW new, new.gone = t.gone, new.todo = u \o Tail(t.todo)
  PROVE  Clearing(d, j.id, new)
<1>1. PICK v : v = Overlay(d, t.wrote, t.gone)
  OBVIOUS
<1>2. Remains(d, t.gone, v)
  <2>1. WritesNone(t)
    BY DEF Deleting, WritesNone
  <2> QED BY <1>1, <2>1, ViewAfterGone
<1>3. PICK s : s = Head(t.todo)
  OBVIOUS
<1>4. Collects(t, j.id) /\ Cleared(d, j.id, t)
  <2>1. s.op = "collect"
    BY <1>3
  <2>2. /\ s # Clear(j.id) /\ s # Delete(j.id) /\ s # Take(j.id) /\ \A i : s # Unlink(i)
    BY <2>1 DEF Clear, Delete, Take, Unlink, Statement
  <2> QED BY <1>3, <2>2, HeadOf
<1>5. Tail(t.todo) = <<Take(j.id), Delete(j.id)>>
  BY <1>4 DEF Collects
<1>6. \A i \in links : i \in DOMAIN d \ t.gone
  BY <1>1, <1>2 DEF Remains, LinksOf, Of
<1>7. IsFiniteSet(links)
  <2>1. links \subseteq DOMAIN d /\ IsFiniteSet(DOMAIN d)
    BY <1>6 DEF Good
  <2> QED BY <2>1, FS_Subset
<1>9. u \in Seq({Unlink(i) : i \in links}) /\ IsInjective(u)
  BY <1>7, Unlinks
<1>10. PICK m \in Nat : m = Len(u)
  BY <1>9
<1>11. \A k \in 1..m : \E i \in links : u[k] = Unlink(i)
  BY <1>9, <1>10, ElementOfSeq
<1>12. \A k, l \in 1..m : u[k] = u[l] => k = l
  <2>1. DOMAIN u = 1..m
    BY <1>9, <1>10
  <2> QED BY <1>9, <2>1 DEF IsInjective
<1>13. PICK take, last : take = Take(j.id) /\ last = Delete(j.id)
  OBVIOUS
<1>14. PICK w : w = new.todo
  OBVIOUS
<1>15. /\ Len(w) = m + 2 /\ w # <<>> /\ w[m + 1] = take /\ w[m + 2] = last
       /\ \A k \in 1..m : w[k] = u[k]
  <2>1. PICK S : S = {Unlink(i) : i \in links} \cup {take, last}
    OBVIOUS
  <2>2. u \in Seq(S)
    BY <1>9, <2>1
  <2>3. /\ <<take, last>> \in Seq(S) /\ Len(<<take, last>>) = 2
        /\ <<take, last>>[1] = take /\ <<take, last>>[2] = last
    BY <2>1
  <2>4. w = u \o <<take, last>>
    BY <1>5, <1>13, <1>14
  <2>5. /\ Len(w) = m + 2 /\ w \in Seq(S)
        /\ \A k \in 1..(m + 2) : w[k] = IF k <= m THEN u[k] ELSE <<take, last>>[k - m]
    BY <1>10, <2>2, <2>3, <2>4, ConcatProperties
  <2>6. /\ m + 1 \in 1..(m + 2) /\ ~(m + 1 <= m) /\ (m + 1) - m = 1
        /\ m + 2 \in 1..(m + 2) /\ ~(m + 2 <= m) /\ (m + 2) - m = 2 /\ m + 2 # 0
        /\ \A k \in 1..m : k \in 1..(m + 2) /\ k <= m
    OBVIOUS
  <2>7. w # <<>>
    BY <2>5, <2>6, EmptySeq
  <2> QED BY <2>3, <2>5, <2>6, <2>7
<1>16. take # last /\ \A i : Unlink(i) # last /\ Unlink(i) # take
  BY <1>13 DEF Unlink, Take, Delete, Statement
<1>16a. \A k \in 1..(m + 2) : k \in 1..m \/ k = m + 1 \/ k = m + 2
  OBVIOUS
<1>17. ASSUME NEW k \in 1..(m + 2), k # m + 2
       PROVE  w[k] = take \/ \E i \in DOMAIN d \ new.gone : w[k] = Unlink(i)
  BY <1>6, <1>11, <1>15, <1>16a, <1>17
<1>18. ASSUME NEW k \in 1..(m + 2), NEW l \in 1..(m + 2), w[k] = w[l]
       PROVE  k = l
  <2>1. \A n \in 1..m : w[n] # last /\ w[n] # take
    BY <1>11, <1>15, <1>16
  <2> QED BY <1>12, <1>15, <1>16, <1>16a, <1>18, <2>1
<1>19. LinksLeft(d, j.id, new)
  BY <1>13, <1>14, <1>15, <1>17, <1>18 DEF LinksLeft
<1>20. Cleared(d, j.id, new)
  BY <1>4 DEF Cleared
<1> QED BY <1>14, <1>15, <1>19, <1>20 DEF Clearing

(* It finds no entry, and loses to nothing but a row that names its own.   *)
LEMMA ClearingLoses ==
  ASSUME NEW d, Good(d), NEW r, NEW t, Granted(d, r, t), NEW oks,
         NEW j, Deleting(d, j, t, oks), Clearing(d, j.id, t), t.todo # <<>>,
         NEW s, s = Head(t.todo), NEW v, v = Overlay(d, t.wrote, t.gone)
  PROVE  /\ s.op = "collect" => EntriesOf(v, s.id) = {}
         /\ (~Reads(s) /\ ~Succeeds(v, s)) => Holders(d, {j.id}) # {}
<1>1. Remains(d, t.gone, v)
  <2>1. WritesNone(t)
    BY DEF Deleting, WritesNone
  <2> QED BY <2>1, ViewAfterGone
<1>2. CASE Begins(t, j.id) /\ s = Clear(j.id)
  BY <1>2 DEF Clear, Statement, Succeeds
<1>3. CASE Cleared(d, j.id, t) /\ s = Collect(j.id)
  <2>1. s.op = "collect" /\ s.id = j.id
    BY <1>3 DEF Collect, Statement
  <2>2. EntriesOf(v, j.id) \subseteq EntriesOf(d, j.id) /\ EntriesOf(v, j.id) \cap t.gone = {}
    BY <1>1 DEF Remains, EntriesOf, Of
  <2> QED BY <1>3, <2>1, <2>2 DEF Cleared, Reads
<1>4. CASE s = Delete(j.id)
  <2>1. s.op = "delete" /\ s.id = j.id
    BY <1>4 DEF Delete, Statement
  <2>2. ASSUME ~Succeeds(v, s) PROVE Holders(d, {j.id}) # {}
    <3>1. j.id \in DOMAIN v /\ Holders(v, {j.id}) # {}
      BY <2>1, <2>2 DEF Succeeds
    <3>2. PICK k \in DOMAIN v \ Swept(v, {j.id}) : Names(v[k]) \cap Swept(v, {j.id}) # {}
      BY <3>1 DEF Holders
    <3>3. k \in DOMAIN d /\ v[k] = d[k] /\ k \notin Swept(d, {j.id})
      BY <1>1, <3>2 DEF Remains, Swept
    <3>4. Swept(v, {j.id}) \subseteq Swept(d, {j.id})
      BY <1>1 DEF Remains, Swept
    <3> QED BY <3>2, <3>3, <3>4 DEF Holders
  <2> QED BY <2>1, <2>2
<1>5. CASE \E i \in DOMAIN d \ t.gone : s = Unlink(i)
  <2>1. PICK i \in DOMAIN d \ t.gone : s = Unlink(i)
    BY <1>5
  <2>2. s.op = "unlink" /\ s.id = i
    BY <2>1 DEF Unlink, Statement
  <2>3. Succeeds(v, s)
    BY <1>1, <2>1, <2>2 DEF Remains, Succeeds
  <2> QED BY <2>2, <2>3
<1>5a. CASE s = Take(j.id)
  BY <1>5a DEF Take, Statement, Succeeds
<1>6. \/ Begins(t, j.id) /\ s = Clear(j.id)
      \/ Cleared(d, j.id, t) /\ s = Collect(j.id)
      \/ s = Delete(j.id) \/ s = Take(j.id)
      \/ \E i \in DOMAIN d \ t.gone : s = Unlink(i)
  BY HeadOf
<1> QED BY <1>2, <1>3, <1>4, <1>5, <1>5a, <1>6

(* What a commit of a request that does not touch x leaves as it was.      *)
Quiet(d, new, x) ==
  /\ x \in DOMAIN new => x \in DOMAIN d
  /\ EntriesOf(new, x) \subseteq EntriesOf(d, x)
  /\ \A i \in DOMAIN d \cap DOMAIN new : x \in Names(d[i]) => x \in Names(new[i])
  /\ \A i \in DOMAIN d \ DOMAIN new :
       x \in Names(d[i]) => x \in NamesByCascade(d[i]) /\ d[i].table # "unit_weapons"

Untouched(q, j, x) ==
  /\ j.kind # "delete" /\ Columns(j.changes) = {}
  /\ x # j.id /\ x # j.unit /\ x # NewId(q, 1) /\ x \notin Names(j.row)

(* Changes that name nothing change no name. *)
LEMMA NamesKept ==
  ASSUME NEW row, NEW c, DOMAIN c \cap DOMAIN Refers = {}
  PROVE  Names(Set(row, c)) = Names(row)
<1>1. PICK new : new = Set(row, c)
  OBVIOUS
<1>2. DOMAIN new = DOMAIN row /\ \A k \in DOMAIN row \ DOMAIN c : new[k] = row[k]
  BY <1>1 DEF Set
<1>3. Columns(new) = Columns(row) /\ \A k \in Columns(row) : new[k] = row[k]
  BY <1>2 DEF Columns
<1> QED BY <1>1, <1>3 DEF Names

LEMMA QuietCommit ==
  ASSUME NEW d, Good(d), NEW q \in Requests, NEW s, Granted(d, q, s),
         NEW oks, q \notin oks, \A i \in DOMAIN d : Known(i, oks),
         NEW j, Asks(j), j.kind # "seed", Line(d, j, q, s, oks), s.todo = <<>>,
         NEW x, Untouched(q, j, x),
         NEW new, new = Overlay(d, s.wrote, s.gone), Good(new)
  PROVE  Quiet(d, new, x)
<1>1. Becomes(d, q, s, new)
  BY CommitBecomes
<1>2. Covers(new, d, s.wrote, s.gone)
  BY OverlayFacts
<1>3. CASE j.kind \in {"add", "create", "link"}
  <2>1. /\ s.gone = {} /\ IsRow(AddedRow(j))
        /\ \A i \in DOMAIN s.wrote : i = NewId(q, 1) /\ s.wrote[i] = AddedRow(j)
    BY <1>3 DEF Line, Adding
  <2>2. NewId(q, 1) \notin DOMAIN d
    BY DEF Known, NewId
  <2>3. DOMAIN d \subseteq DOMAIN new /\ \A i \in DOMAIN d : new[i] = d[i]
    BY <1>2, <2>1, <2>2 DEF Covers
  <2>4. \A i \in DOMAIN new \ DOMAIN d : i = NewId(q, 1) /\ new[i] = AddedRow(j)
    BY <1>2, <2>1 DEF Covers
  <2>5. ASSUME NEW row, row = AddedRow(j)
        PROVE  /\ row.table = "army_units" => row.army_id # x
               /\ row.table = "user_unit" => row.owner_user_id # x
    <3>1. CASE j.kind = "add"
      BY <2>5, <3>1 DEF AddedRow, EntryRow, Untouched
    <3>2. CASE j.kind \in {"create", "link"}
      BY <2>5, <3>2 DEF AddedRow, Asks
    <3> QED BY <1>3, <3>1, <3>2
  <2>6. EntriesOf(new, x) \subseteq EntriesOf(d, x)
    BY <2>3, <2>4, <2>5 DEF EntriesOf, Of
  <2>7. x \in DOMAIN new => x \in DOMAIN d
    BY <2>4 DEF Untouched
  <2> QED BY <2>3, <2>6, <2>7 DEF Quiet
<1>4. CASE j.kind \in {"set", "update"}
  <2>1. /\ s.gone = {}
        /\ \A i \in DOMAIN s.wrote : i \in DOMAIN d /\ \E c \in ChangesOf(j) : s.wrote[i] = Set(d[i], c)
    BY <1>4 DEF Line, Changing
  <2>2. DOMAIN new = DOMAIN d
    BY <1>2, <2>1 DEF Covers
  <2>3. \A c \in ChangesOf(j) : DOMAIN c \cap DOMAIN Refers = {}
    <3>1. CASE j.kind = "set"
      <4>1. \A c \in ChangesOf(j) : DOMAIN c = {"amount"}
        BY <3>1 DEF ChangesOf
      <4> QED BY <4>1 DEF Refers
    <3>2. CASE j.kind = "update"
      <4>1. \A c \in ChangesOf(j) : DOMAIN c \subseteq DOMAIN j.changes
        BY <3>2 DEF ChangesOf
      <4> QED BY <4>1 DEF Untouched, Columns
    <3> QED BY <1>4, <3>1, <3>2
  <2>4. ASSUME NEW i \in DOMAIN d PROVE Names(new[i]) = Names(d[i])
    <3>1. CASE i \in DOMAIN s.wrote
      <4>1. PICK c \in ChangesOf(j) : s.wrote[i] = Set(d[i], c)
        BY <2>1, <3>1
      <4>2. new[i] = Set(d[i], c)
        BY <1>2, <2>2, <3>1, <4>1 DEF Covers
      <4>3. DOMAIN c \cap DOMAIN Refers = {}
        BY <2>3
      <4> QED BY <4>2, <4>3, NamesKept
    <3>2. CASE i \notin DOMAIN s.wrote
      BY <1>2, <2>2, <3>2 DEF Covers
    <3> QED BY <3>1, <3>2
  <2>5. EntriesOf(new, x) \subseteq EntriesOf(d, x)
    <3>1. "army_id" \in Steady("army_units") /\ "owner_user_id" \in Steady("user_unit")
      BY DEF Steady, UniqueKey
    <3>2. \A i \in DOMAIN d : /\ new[i].table = d[i].table
                              /\ \A c \in Steady(d[i].table) : new[i][c] = d[i][c]
      BY <1>1, <2>2 DEF Becomes
    <3> QED BY <2>2, <3>1, <3>2 DEF EntriesOf, Of
  <2> QED BY <2>2, <2>4, <2>5 DEF Quiet
<1>5. CASE j.kind \in {"remove", "unlink"}
  <2>1. WritesNone(s) /\ \A i \in s.gone : Target(d, j, i)
    BY <1>5 DEF Line, Removing, WritesNone
  <2>2. Remains(d, s.gone, new)
    BY <2>1, ViewAfterGone
  <2>3. EntriesOf(new, x) \subseteq EntriesOf(d, x)
    BY <2>2 DEF Remains, EntriesOf, Of
  <2>4. ASSUME NEW i \in DOMAIN d \ DOMAIN new, x \in Names(d[i])
        PROVE  x \in NamesByCascade(d[i]) /\ d[i].table # "unit_weapons"
    <3>1. Target(d, j, i)
      BY <2>1, <2>2, <2>4 DEF Remains
    <3>2. d[i].table \in {"army_units", "user_unit"} /\ d[i].unit_id # x
      BY <2>4, <3>1 DEF Target, Untouched
    <3>3. PICK c \in Columns(d[i]) : d[i][c] = x
      BY <2>4 DEF Names
    <3>4. IsRow(d[i]) /\ c # "unit_id"
      BY <3>2, <3>3 DEF Good, Typed
    <3>5. <<d[i].table, c>> \in Cascades
      BY <3>2, <3>3, <3>4 DEF IsRow, Schema, Columns, Refers, Cascades
    <3> QED BY <3>2, <3>3, <3>5 DEF NamesByCascade
  <2> QED BY <2>2, <2>3, <2>4 DEF Quiet, Remains
<1> QED BY <1>3, <1>4, <1>5 DEF Asks, Untouched

(* What is deleted is named by rows that nothing names, and by holders.    *)
LEMMA HoldersName ==
  ASSUME NEW d, Good(d), NEW x \in DOMAIN d,
         d[x].table \in {"armies", "units", "weapons", "subfactions"}
  PROVE  Holders(d, {x}) = {k \in DOMAIN d \ Swept(d, {x}) : x \in Names(d[k])}
<1>1. ASSUME NEW g \in Swept(d, {x}), g # x, NEW k \in DOMAIN d PROVE g \notin Names(d[k])
  <2>1. g \in DOMAIN d /\ x \in NamesByCascade(d[g])
    BY <1>1 DEF Swept
  <2>2. PICK c \in Columns(d[g]) : <<d[g].table, c>> \in Cascades /\ d[g][c] = x
    BY <2>1 DEF NamesByCascade
  <2>3. IsRow(d[g]) /\ c # "subfaction_id"
    BY <2>1, <2>2, SchemaFacts DEF Good, Typed, IsRow, Columns
  <2>4. Refers[c] = d[x].table
    BY <2>1, <2>2, <2>3 DEF Good, Resolved, Resolves, Of
  <2>5. d[g].table \in {"army_units", "user_unit", "unit_weapons"}
    BY <2>2, <2>4 DEF Cascades, Refers
  <2> QED BY <2>1, <2>5, NobodyNames DEF Good
<1>2. x \in Swept(d, {x})
  BY DEF Swept
<1> QED BY <1>1, <1>2 DEF Holders

LEMMA YieldsStays ==
  ASSUME NEW d, Good(d), NEW j, Asks(j), j.kind = "delete", NEW t, Yields(d, j, t),
         NEW oks, t.pc = "working" => Deleting(d, j, t, oks),
         NEW q, NEW s, NEW new, Good(new), Becomes(d, q, s, new), Quiet(d, new, j.id)
  PROVE  Yields(new, j, t)
<1> SUFFICES ASSUME j.id \in DOMAIN new
             PROVE  /\ t.pc = "working" => Clearing(new, j.id, t)
                    /\ (t.pc \in {"refused", "conflict"} /\ Found(new, j)) => Holders(new, {j.id}) # {}
  BY DEF Yields
<1>1. j.id \in DOMAIN d
  BY DEF Quiet
<1>2. ASSUME t.pc = "working" PROVE Clearing(new, j.id, t)
  <2>1. Clearing(d, j.id, t)
    BY <1>1, <1>2 DEF Yields
  <2>2. Cleared(d, j.id, t) => Cleared(new, j.id, t)
    BY DEF Cleared, Quiet
  <2>3. ASSUME t.todo # <<>>, LinksLeft(d, j.id, t) PROVE LinksLeft(new, j.id, t)
    <3>1. ASSUME NEW k \in 1..Len(t.todo), k # Len(t.todo), t.todo[k] # Take(j.id)
          PROVE  \E i \in DOMAIN new \ t.gone : t.todo[k] = Unlink(i)
      <4>1. PICK i \in DOMAIN d \ t.gone : t.todo[k] = Unlink(i)
        BY <2>3, <3>1 DEF LinksLeft
      <4>2. \/ t.todo[k] \in {Clear(j.id), Collect(j.id)}
            \/ \E l : t.todo[k] = Unlink(l) /\ HangsOn(d, l, j.id)
        BY <1>2, <2>3, <3>1 DEF Deleting
      <4>3. PICK h : h = t.todo[k]
        OBVIOUS
      <4>4. h.op = "unlink" /\ h.id = i
        BY <4>1, <4>3 DEF Unlink, Statement
      <4>5. h \notin {Clear(j.id), Collect(j.id)}
        BY <4>4 DEF Clear, Collect, Statement
      <4>6. PICK l : h = Unlink(l) /\ HangsOn(d, l, j.id)
        BY <4>2, <4>3, <4>5
      <4>7. l = i
        BY <4>4, <4>6 DEF Unlink, Statement
      <4>8. i \in DOMAIN new
        BY <4>1, <4>6, <4>7 DEF HangsOn, Quiet
      <4> QED BY <4>1, <4>8
    <3> QED BY <2>3, <3>1 DEF LinksLeft
  <2> QED BY <2>1, <2>2, <2>3 DEF Clearing
<1>3. ASSUME t.pc \in {"refused", "conflict"}, Found(new, j) PROVE Holders(new, {j.id}) # {}
  <2>1. /\ new[j.id].table = d[j.id].table
        /\ \A c \in Steady(d[j.id].table) : new[j.id][c] = d[j.id][c]
    BY <1>1 DEF Becomes
  <2>2. new[j.id].table = j.table /\ j.table \in {"armies", "units", "weapons", "subfactions"}
    BY <1>3 DEF Found, Of, Asks
  <2>3. Found(d, j)
    <3>1. j.table = "armies" => "owner_user_id" \in Steady(j.table)
      BY DEF Steady, Schema
    <3> QED BY <1>1, <1>3, <2>1, <2>2, <3>1 DEF Found, Of
  <2>4. PICK k \in DOMAIN d \ Swept(d, {j.id}) : j.id \in Names(d[k])
    <3>1. Holders(d, {j.id}) # {}
      BY <1>1, <1>3, <2>3 DEF Yields
    <3> QED BY <1>1, <2>1, <2>2, <3>1, HoldersName
  <2>5. k # j.id /\ j.id \notin NamesByCascade(d[k])
    BY <2>4 DEF Swept
  <2>6. k \in DOMAIN new /\ j.id \in Names(new[k])
    BY <2>4, <2>5 DEF Quiet
  <2>7. NamesByCascade(new[k]) = NamesByCascade(d[k])
    <3>1. /\ IsRow(d[k]) /\ IsRow(new[k]) /\ new[k].table = d[k].table
          /\ \A c \in Steady(new[k].table) : new[k][c] = d[k][c]
      BY <2>4, <2>6 DEF Becomes, Good, Typed
    <3> QED BY <3>1, SteadyNames
  <2>8. k \notin Swept(new, {j.id})
    BY <2>5, <2>7 DEF Swept
  <2>9. Holders(new, {j.id}) = {l \in DOMAIN new \ Swept(new, {j.id}) : j.id \in Names(new[l])}
    BY <2>2, HoldersName
  <2> QED BY <2>6, <2>8, <2>9
<1> QED BY <1>2, <1>3

(* A step of one request leaves the others, and the tables unless it       *)
(* commits.                                                                *)
LEMMA Acts ==
  ASSUME Inv, NEW q \in Requests, Run(q) \/ Lost(q)
  PROVE  /\ tx[q].pc # "ok" /\ job' = job
         /\ \A p \in Requests \ {q} : tx'[p] = tx[p]
         /\ Commit(q) \/ (db' = db /\ \E t : Step(q, t))
<1>1. tx = [p \in Requests |-> tx[p]]
  BY DEF Inv
<1>2. ASSUME NEW t, Step(q, t)
      PROVE  job' = job /\ (\A p \in Requests \ {q} : tx'[p] = tx[p]) /\ db' = db
  BY <1>1, <1>2 DEF Step
<1>3. tx[q].pc # "ok"
  BY DEF Run, Lost, Load, Decide, Refuse, Gather, Seek, Execute, Lose, OrphansAnEntry, Fail, Commit,
         Report, Working, Complete
<1>4. CASE Commit(q)
  BY <1>1, <1>3, <1>4 DEF Commit
<1>5. CASE ~Commit(q)
  <2>1. \E t : Step(q, t)
    BY <1>5 DEF Run, Lost, Load, Decide, Refuse, Gather, Seek, Execute, Lose, Fail, Report, End
  <2> QED BY <1>2, <1>3, <2>1
<1> QED BY <1>4, <1>5

(* What an outcome other than a refusal or a conflict says nothing of.     *)
LEMMA YieldsOtherwise ==
  ASSUME NEW d, NEW j, NEW t, t.pc \notin {"working", "refused", "conflict"}
  PROVE  Yields(d, j, t)
BY DEF Yields

LEMMA EndsAs ==
  ASSUME Inv, NEW r \in Requests, NEW outcome, End(r, outcome)
  PROVE  tx'[r].pc = outcome /\ db' = db /\ job' = job
<1>1. tx = [p \in Requests |-> tx[p]] /\ DOMAIN tx[r] = Fields
  BY DEF Inv, Fine
<1>2. tx' = [tx EXCEPT ![r] = Ended(outcome)] /\ db' = db /\ job' = job
  BY DEF End, Step
<1>3. PICK t : t = Ended(outcome)
  OBVIOUS
<1>4. t.pc = outcome
  BY <1>1, <1>3 DEF Ended, Fields
<1> QED BY <1>1, <1>2, <1>3, <1>4

LEMMA OwnStep ==
  ASSUME Inv, NEW r \in Requests, Run(r) \/ Lost(r), job[r].kind = "delete",
         Yields(db, job[r], tx[r])
  PROVE  Yields(db', job'[r], tx'[r])
<1>1. /\ tx = [p \in Requests |-> tx[p]] /\ DOMAIN tx[r] = Fields /\ Good(db)
      /\ Asks(job[r]) /\ HasSubject(job[r])
  BY JobsAssumption DEF Inv, Fine, HasSubject
<1>2. ASSUME NEW t, Step(r, t) PROVE tx'[r] = t /\ db' = db /\ job' = job
  BY <1>1, <1>2 DEF Step
<1>3. ASSUME tx[r].pc = "working"
      PROVE  /\ Granted(db, r, tx[r]) /\ Deleting(db, job[r], tx[r], Done)
             /\ job[r].id \in DOMAIN db => Clearing(db, job[r].id, tx[r])
  BY <1>3, AtWork DEF Line, Yields
<1>4. CASE Load(r)
  <2>1. PICK t : Step(r, t) /\ t.pc = "loaded"
    <3>1. PICK u : u = [tx[r] EXCEPT !.pc = "loaded", !.loaded = db[job[r].id]]
      OBVIOUS
    <3>2. u.pc = "loaded"
      BY <1>1, <3>1 DEF Fields
    <3> QED BY <1>1, <1>4, <3>1, <3>2 DEF Load
  <2> QED BY <1>2, <2>1, YieldsOtherwise
<1>5. CASE Decide(r)
  <2>1. PICK t : t = [tx[r] EXCEPT !.pc = "working", !.refreshed = Refreshed(r), !.todo = Plan(r)]
    OBVIOUS
  <2>2. t.pc = "working" /\ t.todo = DeletePlan(job[r].table, job[r].id)
    BY <1>1, <2>1 DEF Fields, Plan
  <2>3. Step(r, t)
    BY <1>5, <2>1 DEF Decide
  <2>4. job[r].id \in DOMAIN db => Found(db, job[r])
    BY <1>1, <1>5 DEF Inv, Fine, Subject, Decide
  <2>5. Yields(db, job[r], t)
    BY <1>1, <2>2, <2>4, PlanClears DEF Yields
  <2> QED BY <1>2, <2>3, <2>5
<1>6. CASE Refuse(r)
  <2>1. End(r, "refused")
    BY <1>6 DEF Refuse
  <2>2. tx'[r].pc = "refused" /\ db' = db /\ job' = job
    BY <2>1, EndsAs
  <2>3. Found(db, job[r]) => Holders(db, {job[r].id}) # {}
    BY <1>6 DEF Refuse, Accepts
  <2> QED BY <2>2, <2>3 DEF Yields
<1>7. CASE Gather(r)
  <2>1. tx[r].pc = "working" /\ tx[r].todo # <<>> /\ Head(tx[r].todo).op = "collect"
    BY <1>7 DEF Gather, Working
  <2>2. PICK links : links = LinksOf(View(r), Head(tx[r].todo).id)
    OBVIOUS
  <2>2a. PICK u \in SetToSeqs({Unlink(i) : i \in links}) : Step(r, [tx[r] EXCEPT !.todo = u \o Tail(@)])
    BY <1>7, <2>2 DEF Gather
  <2>3. PICK t : t = [tx[r] EXCEPT !.todo = u \o Tail(@)]
    OBVIOUS
  <2>4. t.pc = "working" /\ t.gone = tx[r].gone /\ t.todo = u \o Tail(tx[r].todo)
    BY <1>1, <2>1, <2>3 DEF Fields
  <2>5. Step(r, t)
    BY <2>2a, <2>3
  <2>6. links = LinksOf(Overlay(db, tx[r].wrote, tx[r].gone), Head(tx[r].todo).id)
    BY <2>2 DEF View
  <2>7. job[r].id \in DOMAIN db => Clearing(db, job[r].id, t)
    BY <1>1, <1>3, <2>1, <2>4, <2>6, ClearingGathers
  <2>8. Yields(db, job[r], t)
    BY <2>4, <2>7 DEF Yields
  <2> QED BY <1>2, <2>5, <2>8
<1>8. CASE Seek(r)
  <2>1. tx[r].pc = "working" /\ tx[r].todo # <<>> /\ Head(tx[r].todo).op = "ensure"
    BY <1>8 DEF Seek, Working
  <2> QED BY <1>1, <2>1, AtWork, WhoReads
<1>9. CASE Execute(r)
  <2>1. tx[r].pc = "working" /\ tx[r].todo # <<>> /\ ~Reads(Head(tx[r].todo))
    BY <1>9 DEF Execute, Working
  <2>2. PICK s : s = Head(tx[r].todo)
    OBVIOUS
  <2>3. PICK t : t = [tx[r] EXCEPT
                !.todo = Tail(@),
                !.wrote = IF Leaves(s) THEN With(@, s.id, Left(View(r), s)) ELSE @,
                !.gone = @ \cup Gone(View(r), s),
                !.locks = @ \cup Needs(View(r), s), !.shares = @ \cup Shares(s)]
    OBVIOUS
  <2>4. Step(r, t)
    BY <1>9, <2>2, <2>3 DEF Execute
  <2>5. /\ t.pc = "working" /\ t.todo = Tail(tx[r].todo)
        /\ t.wrote = IF Leaves(s) THEN With(tx[r].wrote, s.id, Left(View(r), s)) ELSE tx[r].wrote
        /\ t.gone = tx[r].gone \cup Gone(View(r), s)
        /\ t.locks = tx[r].locks \cup Needs(View(r), s) /\ t.shares = tx[r].shares \cup Shares(s)
    BY <1>1, <2>1, <2>3 DEF Fields
  <2>6. Carried(db, tx[r], s, t)
    BY <2>5 DEF Carried, View
  <2>7. job[r].id \in DOMAIN db => Clearing(db, job[r].id, t)
    BY <1>1, <1>3, <2>1, <2>2, <2>5, <2>6, ClearingExecutes
  <2>8. Yields(db, job[r], t)
    BY <2>5, <2>7 DEF Yields
  <2> QED BY <1>2, <2>4, <2>8
<1>10. CASE Lose(r)
  <2>1. /\ tx[r].pc = "working" /\ tx[r].todo # <<>> /\ End(r, "conflict")
    BY <1>10 DEF Lose, OrphansAnEntry, Working
  <2>2. tx'[r].pc = "conflict" /\ db' = db /\ job' = job
    BY <2>1, EndsAs
  <2>3. PICK s : s = Head(tx[r].todo)
    OBVIOUS
  <2>4. PICK v : v = Overlay(db, tx[r].wrote, tx[r].gone)
    OBVIOUS
  <2>5. \/ s.op = "collect" /\ EntriesOf(v, s.id) # {}
        \/ ~Reads(s) /\ ~Succeeds(v, s)
    BY <1>10, <2>3, <2>4 DEF Lose, OrphansAnEntry, View
  <2>6. job[r].id \in DOMAIN db => Holders(db, {job[r].id}) # {}
    BY <1>1, <1>3, <2>1, <2>3, <2>4, <2>5, ClearingLoses
  <2> QED BY <2>2, <2>6 DEF Yields
<1>11. ASSUME NEW outcome \in {"failed", "ok", "lost"}, End(r, outcome)
       PROVE  Yields(db', job'[r], tx'[r])
  <2>1. tx'[r].pc = outcome
    BY <1>11, EndsAs
  <2> QED BY <2>1, YieldsOtherwise
<1>12. CASE Commit(r)
  <2>1. PICK t : t = Ended("ok")
    OBVIOUS
  <2>2. t.pc = "ok"
    BY <1>1, <2>1 DEF Ended, Fields
  <2>3. tx'[r] = t
    BY <1>1, <1>12, <2>1 DEF Commit
  <2> QED BY <2>2, <2>3, YieldsOtherwise
<1> QED BY <1>4, <1>5, <1>6, <1>7, <1>8, <1>9, <1>10, <1>11, <1>12 DEF Run, Lost, Fail, Report

LEMMA OtherStep ==
  ASSUME Inv, Inv', NEW r \in Requests, NEW q \in Requests \ {r}, Run(q) \/ Lost(q),
         job[r].kind = "delete", Yields(db, job[r], tx[r]), ~Excused(r)'
  PROVE  Yields(db', job'[r], tx'[r])
<1>1. /\ tx[q].pc # "ok" /\ job' = job /\ tx'[r] = tx[r]
      /\ Commit(q) \/ db' = db
  BY Acts
<1>2. CASE Commit(q)
  <2>1. /\ tx[q].pc = "working" /\ tx[q].todo = <<>> /\ job[q].kind # "seed"
        /\ db' = Overlay(db, tx[q].wrote, tx[q].gone)
        /\ tx' = [tx EXCEPT ![q] = Ended("ok")]
    BY <1>2 DEF Commit, Complete, View
  <2>2. /\ Good(db) /\ (\A i \in DOMAIN db : Known(i, Done)) /\ Asks(job[q]) /\ q \notin Done
        /\ Granted(db, q, tx[q]) /\ Line(db, job[q], q, tx[q], Done) /\ DOMAIN tx[q] = Fields
    BY <2>1, AtWork
  <2>3. tx'[q].pc = "ok"
    <3>1. tx = [p \in Requests |-> tx[p]]
      BY DEF Inv
    <3>2. PICK t : t = Ended("ok")
      OBVIOUS
    <3>3. t.pc = "ok"
      BY <2>2, <3>2 DEF Ended, Fields
    <3> QED BY <2>1, <3>1, <3>2, <3>3
  <2>4. ~Disturbs(q, job[r].id)
    <3>1. Disturbs(q, job[r].id)' <=> Disturbs(q, job[r].id)
      BY <1>1 DEF Disturbs
    <3> QED BY <1>1, <2>3, <3>1 DEF Excused, Disturbs
  <2>5. Untouched(q, job[q], job[r].id)
    BY <2>4 DEF Disturbs, Untouched
  <2>6. PICK new : new = db'
    OBVIOUS
  <2>7. Good(new) /\ new = Overlay(db, tx[q].wrote, tx[q].gone)
    BY <2>1, <2>6 DEF Inv
  <2>8. Quiet(db, new, job[r].id)
    BY <2>1, <2>2, <2>5, <2>7, QuietCommit
  <2>9. Becomes(db, q, tx[q], new)
    BY <2>2, <2>7, CommitBecomes
  <2>10. tx[r].pc = "working" => Deleting(db, job[r], tx[r], Done)
    BY AtWork DEF Line
  <2>11. Asks(job[r])
    BY JobsAssumption DEF Inv
  <2>12. Yields(new, job[r], tx[r])
    BY <2>2, <2>7, <2>8, <2>9, <2>10, <2>11, YieldsStays
  <2> QED BY <1>1, <2>6, <2>12
<1>3. CASE db' = db
  BY <1>1, <1>3
<1> QED BY <1>1, <1>2, <1>3

(* A deletion that finds its row is turned away for a row that names it,   *)
(* or because another request touched it: its entries are gone before it   *)
(* looks for what hangs on to it, and no link it found goes unless another *)
(* takes it.                                                               *)
THEOREM DeletionsYield == Spec => []DeletionsYieldToOthers
<1>1. Init => Yielding
  BY YieldsOtherwise DEF Init, Yielding
<1>2. Inv /\ Inv' /\ Yielding /\ [Next]_vars => Yielding'
  <2> SUFFICES ASSUME Inv, Inv', Yielding, [Next]_vars, NEW r \in Requests, job'[r].kind = "delete",
                      ~Excused(r)'
               PROVE  Yields(db', job'[r], tx'[r])
    BY DEF Yielding
  <2>1. CASE UNCHANGED vars
    BY <2>1 DEF vars, Yielding, Excused, Disturbs
  <2>2. ASSUME NEW q \in Requests, Run(q) \/ Lost(q) PROVE Yields(db', job'[r], tx'[r])
    <3>1. /\ tx[q].pc # "ok" /\ job' = job /\ \A p \in Requests \ {q} : tx'[p] = tx[p]
      BY <2>2, Acts
    <3>2. ~Excused(r)
      BY <3>1 DEF Excused, Disturbs
    <3>3. job[r].kind = "delete" /\ Yields(db, job[r], tx[r])
      BY <3>1, <3>2 DEF Yielding
    <3>4. CASE q = r
      BY <2>2, <3>3, <3>4, OwnStep
    <3>5. CASE q # r
      BY <2>2, <3>3, <3>5, OtherStep
    <3> QED BY <3>4, <3>5
  <2> QED BY <2>1, <2>2 DEF Next
<1>3. Yielding => DeletionsYieldToOthers
  <2> SUFFICES ASSUME Yielding, NEW r \in Requests, job[r].kind = "delete",
                      tx[r].pc \in {"refused", "conflict"}, Found(db, job[r])
               PROVE  \/ Holders(db, {job[r].id}) # {}
                      \/ \E q \in Requests \ {r} : tx[q].pc = "ok" /\ Disturbs(q, job[r].id)
    BY DEF DeletionsYieldToOthers
  <2>1. job[r].id \in DOMAIN db
    BY DEF Found, Of
  <2>2. Excused(r) \/ Yields(db, job[r], tx[r])
    BY DEF Yielding
  <2> QED BY <2>1, <2>2 DEF Yields, Excused
<1> QED BY <1>1, <1>2, <1>3, Invariance, PTL DEF Spec
-----------------------------------------------------------------------------
(* Rings of waits *)

(* The rows a deletion takes: its own, and what hangs on to it.            *)
Owns(d, x, i) == i \in DOMAIN d /\ (i = x \/ x \in NamesByCascade(d[i]))

LocksOf(d, i) == {<<"row", i>>, <<"id", i>>} \cup KeyLocks(d[i])

HoldsItsOwn(d, x, t) ==
  /\ t.shares = {}
  /\ \A l \in t.locks : \E i :
       Owns(d, x, i) /\ {<<"row", i>>, <<"id", i>>} \subseteq t.locks /\ l \in LocksOf(d, i)

(* What may be held while there is still something to do.                  *)
Holding(d, j, t) ==
  t.pc = "working" =>
    /\ j.kind = "delete" => HoldsItsOwn(d, j.id, t)
    /\ (j.kind \notin {"delete", "seed"} /\ t.todo # <<>>) => t.locks = {} /\ t.shares = {}

Holdings == \A r \in Requests : Holding(db, job[r], tx[r])

(* The locks of two rows are not the same. *)
LEMMA LocksDiffer ==
  ASSUME NEW d, KeysDiffer(d), NEW i \in DOMAIN d, NEW k \in DOMAIN d,
         NEW l \in LocksOf(d, i), l \in LocksOf(d, k)
  PROVE  i = k
<1>1. \A a, b, c, e : <<a, b>> # <<"key", c, e>>
  OBVIOUS
<1>2. CASE l \in KeyLocks(d[i]) /\ l \in KeyLocks(d[k])
  <2>1. /\ Keyed(d[i]) /\ Keyed(d[k])
        /\ l = <<"key", d[i].table, Key(d[i])>> /\ l = <<"key", d[k].table, Key(d[k])>>
    BY <1>2 DEF KeyLocks
  <2>2. SameKey(d[i], d[k])
    BY <2>1 DEF SameKey
  <2> QED BY <2>2 DEF KeysDiffer
<1>3. CASE l \in {<<"row", i>>, <<"id", i>>} /\ l \in {<<"row", k>>, <<"id", k>>}
  BY <1>3
<1>4. CASE l \in {<<"row", i>>, <<"id", i>>} /\ l \in KeyLocks(d[k])
  BY <1>1, <1>4 DEF KeyLocks
<1>5. CASE l \in KeyLocks(d[i]) /\ l \in {<<"row", k>>, <<"id", k>>}
  BY <1>1, <1>5 DEF KeyLocks
<1> QED BY <1>2, <1>3, <1>4, <1>5 DEF LocksOf

(* What a statement of a deletion locks is its own, and it names nothing.  *)
TakesItsOwn(d, x, v, s) ==
  /\ Needs(v, s) = UNION {LocksOf(v, i) : i \in Locked(v, s)} /\ Shares(s) = {}
  /\ \A i \in Locked(v, s) : i \in DOMAIN v /\ v[i] = d[i] /\ Owns(d, x, i)
  /\ s.op = "delete" => s.id = x

LEMMA LocksItsOwn ==
  ASSUME NEW d, Good(d), NEW r, NEW t, Granted(d, r, t), NEW oks,
         NEW j, Deleting(d, j, t, oks), t.todo # <<>>, NEW s, s = Head(t.todo), ~Reads(s),
         NEW v, v = Overlay(d, t.wrote, t.gone)
  PROVE  TakesItsOwn(d, j.id, v, s)
<1> DEFINE x == j.id
<1>1. Remains(d, t.gone, v)
  BY ViewAfterGone DEF Deleting, WritesNone
<1>2. /\ DOMAIN v = DOMAIN d \ t.gone /\ \A k \in DOMAIN v : v[k] = d[k]
      /\ Typed(v) /\ Resolved(v) /\ None \notin DOMAIN v
  BY <1>1 DEF Remains
<1>3. s \in {Clear(x), Take(x), Delete(x)} \/ \E i : s = Unlink(i) /\ HangsOn(d, i, x)
  <2>1. PICK S : t.todo \in Seq(S)
    BY DEF Deleting
  <2>2. PICK len \in Nat : len = Len(t.todo)
    BY <2>1, Tails
  <2>3. 1 \in 1..len /\ s = t.todo[1]
    BY <2>1, <2>2, Tails
  <2>4. s \in {Delete(x), Clear(x), Collect(x), Take(x)} \/ \E i : s = Unlink(i) /\ HangsOn(d, i, x)
    BY <2>2, <2>3 DEF Deleting
  <2> QED BY <2>4 DEF Reads, Collect, Statement
<1>4. ASSUME s.op \in {"clear", "take", "delete", "unlink"}, s.row = <<>>
      PROVE  Needs(v, s) = UNION {LocksOf(v, i) : i \in Locked(v, s)} /\ Shares(s) = {}
  <2>1. Names(<<>>) = {}
    BY DEF Names, Columns, Refers
  <2> QED BY <1>4, <2>1 DEF Needs, LocksOf, Shares
<1>5. ASSUME s = Clear(x)
      PROVE  \A i \in Locked(v, s) : i \in DOMAIN v /\ v[i] = d[i] /\ Owns(d, x, i)
  <2>1. s.op = "clear" /\ s.id = x
    BY <1>5 DEF Clear, Statement
  <2>2. ASSUME NEW g \in EntriesOf(v, x) PROVE g \in DOMAIN v /\ x \in NamesByCascade(d[g])
    <3>1. g \in DOMAIN v /\ g \in DOMAIN d /\ v[g] = d[g] /\ IsRow(d[g])
      BY <1>2, <2>2 DEF EntriesOf, Of, Good, Typed
    <3>2. \/ /\ d[g].table = "army_units" /\ d[g].army_id = x
             /\ "army_id" \in Columns(d[g]) /\ <<d[g].table, "army_id">> \in Cascades
          \/ /\ d[g].table = "user_unit" /\ d[g].owner_user_id = x
             /\ "owner_user_id" \in Columns(d[g]) /\ <<d[g].table, "owner_user_id">> \in Cascades
      BY <2>2, <3>1 DEF EntriesOf, Of, IsRow, Schema, Columns, Refers, Cascades
    <3> QED BY <3>1, <3>2 DEF NamesByCascade
  <2>3. Locked(v, s) = EntriesOf(v, x)
    BY <2>1 DEF Locked, Gone
  <2> QED BY <1>2, <2>1, <2>2, <2>3 DEF Owns
<1>6. ASSUME s = Take(x)
      PROVE  \A i \in Locked(v, s) : i \in DOMAIN v /\ v[i] = d[i] /\ Owns(d, x, i)
  <2>1. s.op = "take" /\ s.id = x
    BY <1>6 DEF Take, Statement
  <2> QED BY <1>2, <2>1 DEF Locked, Owns
<1>7. ASSUME s = Delete(x)
      PROVE  \A i \in Locked(v, s) : i \in DOMAIN v /\ v[i] = d[i] /\ Owns(d, x, i)
  <2>1. s.op = "delete" /\ s.id = x
    BY <1>7 DEF Delete, Statement
  <2>2. Locked(v, s) = Swept(v, {x} \cap DOMAIN v)
    BY <2>1 DEF Locked, Gone
  <2> QED BY <1>2, <2>1, <2>2 DEF Swept, Owns
<1>8. ASSUME NEW i, s = Unlink(i), HangsOn(d, i, x)
      PROVE  \A k \in Locked(v, s) : k \in DOMAIN v /\ v[k] = d[k] /\ Owns(d, x, k)
  <2>1. s.op = "unlink" /\ s.id = i
    BY <1>8 DEF Unlink, Statement
  <2>2. i \in DOMAIN v => v[i].table = "unit_weapons" /\ x \in Names(d[i]) /\ i \in DOMAIN d /\ v[i] = d[i]
    BY <1>2, <1>8 DEF HangsOn
  <2>3. Locked(v, s) = {i} \cap DOMAIN v
    BY <1>2, <2>1, <2>2, LeafGoes DEF Locked, Gone
  <2>4. i \in DOMAIN v => x \in NamesByCascade(d[i])
    <3>1. i \in DOMAIN v => \A c \in Columns(d[i]) : <<d[i].table, c>> \in Cascades
      BY <2>2 DEF Good, Typed, IsRow, Schema, Columns, Refers, Cascades
    <3> QED BY <2>2, <3>1 DEF Names, NamesByCascade
  <2> QED BY <2>1, <2>2, <2>3, <2>4 DEF Owns
<1>9. /\ s.op \in {"clear", "take", "delete", "unlink"} /\ s.row = <<>>
      /\ s.op = "delete" => s.id = x
  <2>1. PICK h : h = s
    OBVIOUS
  <2>2. h \in {Clear(x), Take(x), Delete(x)} \/ \E i : h = Unlink(i)
    BY <1>3, <2>1
  <2>3. h.op \in {"clear", "take", "delete", "unlink"} /\ h.row = <<>> /\ (h.op = "delete" => h.id = x)
    BY <2>2 DEF Clear, Take, Delete, Unlink, Statement
  <2> QED BY <2>1, <2>3
<1>10. \A i \in Locked(v, s) : i \in DOMAIN v /\ v[i] = d[i] /\ Owns(d, x, i)
  BY <1>3, <1>5, <1>6, <1>7, <1>8
<1> QED BY <1>4, <1>9, <1>10 DEF TakesItsOwn

LEMMA HoldingExecutes ==
  ASSUME NEW d, Good(d), NEW r, NEW t, Granted(d, r, t), NEW oks,
         NEW j, j.kind = "delete", Deleting(d, j, t, oks), t.todo # <<>>,
         NEW s, s = Head(t.todo), ~Reads(s), HoldsItsOwn(d, j.id, t),
         NEW new, Carried(d, t, s, new)
  PROVE  HoldsItsOwn(d, j.id, new)
<1>1. PICK v : v = Overlay(d, t.wrote, t.gone)
  OBVIOUS
<1>2. /\ Needs(v, s) = UNION {LocksOf(v, i) : i \in Locked(v, s)} /\ Shares(s) = {}
      /\ \A i \in Locked(v, s) : i \in DOMAIN v /\ v[i] = d[i] /\ Owns(d, j.id, i)
  <2>1. TakesItsOwn(d, j.id, v, s)
    BY <1>1, LocksItsOwn
  <2> QED BY <2>1 DEF TakesItsOwn
<1>3. /\ new.shares = {} /\ new.locks = t.locks \cup Needs(v, s)
  BY <1>1, <1>2 DEF Carried, HoldsItsOwn
<1>4. ASSUME NEW l \in new.locks
      PROVE  \E i : Owns(d, j.id, i) /\ {<<"row", i>>, <<"id", i>>} \subseteq new.locks /\ l \in LocksOf(d, i)
  <2>1. CASE l \in t.locks
    BY <1>3, <2>1 DEF HoldsItsOwn
  <2>2. CASE l \in Needs(v, s)
    <3>1. PICK i \in Locked(v, s) : l \in LocksOf(v, i)
      BY <1>2, <2>2
    <3>2. LocksOf(v, i) = LocksOf(d, i) /\ LocksOf(v, i) \subseteq new.locks
      BY <1>2, <1>3 DEF LocksOf
    <3>3. {<<"row", i>>, <<"id", i>>} \subseteq new.locks
      BY <3>2 DEF LocksOf
    <3> QED BY <1>2, <3>1, <3>2, <3>3
  <2> QED BY <1>3, <2>1, <2>2
<1> QED BY <1>3, <1>4 DEF HoldsItsOwn

LEMMA HoldingStays ==
  ASSUME NEW d, Good(d), NEW q, NEW s, Granted(d, q, s), NEW t, Apart(s, t),
         NEW new, new = Overlay(d, s.wrote, s.gone), NEW j, Holding(d, j, t)
  PROVE  Holding(new, j, t)
<1>1. \A i \in DOMAIN d : <<"row", i>> \in t.locks => i \in DOMAIN new /\ new[i] = d[i]
  BY HeldStays
<1>2. ASSUME HoldsItsOwn(d, j.id, t) PROVE HoldsItsOwn(new, j.id, t)
  <2> SUFFICES ASSUME NEW l \in t.locks
               PROVE  \E i : Owns(new, j.id, i) /\ {<<"row", i>>, <<"id", i>>} \subseteq t.locks
                             /\ l \in LocksOf(new, i)
    BY <1>2 DEF HoldsItsOwn
  <2>1. PICK i : Owns(d, j.id, i) /\ {<<"row", i>>, <<"id", i>>} \subseteq t.locks /\ l \in LocksOf(d, i)
    BY <1>2 DEF HoldsItsOwn
  <2>2. i \in DOMAIN new /\ new[i] = d[i]
    BY <1>1, <2>1 DEF Owns
  <2> QED BY <2>1, <2>2 DEF Owns, LocksOf
<1> QED BY <1>2 DEF Holding

(* Requests of one statement have nothing left to do once it is done.      *)
LEMMA OneStatement ==
  ASSUME NEW d, NEW j, Asks(j), j.kind \notin {"delete", "seed"}, NEW r, NEW t, NEW oks,
         Line(d, j, r, t, oks), t.todo # <<>>
  PROVE  Tail(t.todo) = <<>>
<1>1. \E s : t.todo = <<s>>
  BY DEF Asks, Line, Adding, Changing, Removing
<1> QED BY <1>1

LEMMA HoldingOfOwnStep ==
  ASSUME Inv, NEW r \in Requests, Run(r) \/ Lost(r), Holding(db, job[r], tx[r])
  PROVE  Holding(db', job'[r], tx'[r])
<1>1. /\ tx = [p \in Requests |-> tx[p]] /\ DOMAIN tx[r] = Fields /\ Good(db)
      /\ Asks(job[r]) /\ Fine(db, job[r], r, tx[r], Done)
  BY JobsAssumption DEF Inv, Fine
<1>2. ASSUME NEW t, Step(r, t) PROVE tx'[r] = t /\ db' = db /\ job' = job
  BY <1>1, <1>2 DEF Step
<1>3. ASSUME tx[r].pc = "working"
      PROVE  Granted(db, r, tx[r]) /\ Line(db, job[r], r, tx[r], Done)
  BY <1>3, AtWork
<1>4. ASSUME NEW outcome \in Outcomes, End(r, outcome) PROVE Holding(db', job'[r], tx'[r])
  BY <1>4, EndsAs DEF Holding, Outcomes
<1>5. CASE Load(r)
  <2>1. PICK t : Step(r, t) /\ t.pc = "loaded"
    <3>1. PICK u : u = [tx[r] EXCEPT !.pc = "loaded", !.loaded = db[job[r].id]]
      OBVIOUS
    <3>2. PICK w : w = [tx[r] EXCEPT !.pc = "loaded"]
      OBVIOUS
    <3>3. u.pc = "loaded" /\ w.pc = "loaded"
      BY <1>1, <3>1, <3>2 DEF Fields
    <3> QED BY <1>5, <3>1, <3>2, <3>3 DEF Load
  <2> QED BY <1>2, <2>1 DEF Holding
<1>6. CASE Decide(r)
  <2>1. PICK t : t = [tx[r] EXCEPT !.pc = "working", !.refreshed = Refreshed(r), !.todo = Plan(r)]
    OBVIOUS
  <2>2. tx[r].locks = {} /\ tx[r].shares = {}
    BY <1>1, <1>6 DEF Decide, Fine
  <2>3. t.locks = {} /\ t.shares = {}
    BY <1>1, <2>1, <2>2 DEF Fields
  <2>4. Step(r, t)
    BY <1>6, <2>1 DEF Decide
  <2> QED BY <1>2, <2>3, <2>4 DEF Holding, HoldsItsOwn
<1>7. CASE Refuse(r)
  BY <1>4, <1>7 DEF Refuse, Outcomes
<1>8. ASSUME NEW todo, tx[r].pc = "working", job[r].kind \in {"delete", "seed"},
             NEW t, t = [tx[r] EXCEPT !.todo = todo], Step(r, t)
      PROVE  Holding(db', job'[r], tx'[r])
  <2>1. t.pc = tx[r].pc /\ t.locks = tx[r].locks /\ t.shares = tx[r].shares
    BY <1>1, <1>8 DEF Fields
  <2> QED BY <1>2, <1>8, <2>1 DEF Holding, HoldsItsOwn
<1>9. CASE Gather(r)
  <2>1. tx[r].pc = "working" /\ tx[r].todo # <<>> /\ Head(tx[r].todo).op = "collect"
    BY <1>9 DEF Gather, Working
  <2>2. job[r].kind = "delete"
    BY <1>1, <1>3, <2>1, WhoReads
  <2>3. PICK u : Step(r, [tx[r] EXCEPT !.todo = u \o Tail(@)])
    BY <1>9 DEF Gather
  <2>4. [tx[r] EXCEPT !.todo = u \o Tail(@)] = [tx[r] EXCEPT !.todo = u \o Tail(tx[r].todo)]
    BY <1>1 DEF Fields
  <2> QED BY <1>8, <2>1, <2>2, <2>3, <2>4
<1>10. CASE Seek(r)
  <2>1. tx[r].pc = "working" /\ tx[r].todo # <<>> /\ Head(tx[r].todo).op = "ensure"
    BY <1>10 DEF Seek, Working
  <2>2. job[r].kind = "seed"
    BY <1>1, <1>3, <2>1, WhoReads
  <2>3. PICK u : Step(r, [tx[r] EXCEPT !.todo = u \o Tail(@)])
    BY <1>10 DEF Seek
  <2>4. [tx[r] EXCEPT !.todo = u \o Tail(@)] = [tx[r] EXCEPT !.todo = u \o Tail(tx[r].todo)]
    BY <1>1 DEF Fields
  <2> QED BY <1>8, <2>1, <2>2, <2>3, <2>4
<1>11. CASE Execute(r)
  <2>1. tx[r].pc = "working" /\ tx[r].todo # <<>> /\ ~Reads(Head(tx[r].todo))
    BY <1>11 DEF Execute, Working
  <2>2. PICK s : s = Head(tx[r].todo)
    OBVIOUS
  <2>3. PICK t : t = [tx[r] EXCEPT
                !.todo = Tail(@),
                !.wrote = IF Leaves(s) THEN With(@, s.id, Left(View(r), s)) ELSE @,
                !.gone = @ \cup Gone(View(r), s),
                !.locks = @ \cup Needs(View(r), s), !.shares = @ \cup Shares(s)]
    OBVIOUS
  <2>4. Step(r, t)
    BY <1>11, <2>2, <2>3 DEF Execute
  <2>5. /\ t.pc = "working" /\ t.todo = Tail(tx[r].todo)
        /\ t.wrote = IF Leaves(s) THEN With(tx[r].wrote, s.id, Left(View(r), s)) ELSE tx[r].wrote
        /\ t.gone = tx[r].gone \cup Gone(View(r), s)
        /\ t.locks = tx[r].locks \cup Needs(View(r), s) /\ t.shares = tx[r].shares \cup Shares(s)
    BY <1>1, <2>1, <2>3 DEF Fields
  <2>6. Carried(db, tx[r], s, t)
    BY <2>5 DEF Carried, View
  <2>7. CASE job[r].kind = "delete"
    <3>1. HoldsItsOwn(db, job[r].id, t)
      <4>1. Deleting(db, job[r], tx[r], Done) /\ Granted(db, r, tx[r]) /\ HoldsItsOwn(db, job[r].id, tx[r])
        BY <1>3, <2>1, <2>7 DEF Line, Holding
      <4> QED BY <1>1, <2>1, <2>2, <2>6, <2>7, <4>1, HoldingExecutes
    <3> QED BY <1>2, <2>4, <2>7, <3>1 DEF Holding
  <2>8. CASE job[r].kind \notin {"delete", "seed"}
    <3>1. t.todo = <<>>
      BY <1>1, <1>3, <2>1, <2>5, <2>8, OneStatement
    <3> QED BY <1>2, <2>4, <2>8, <3>1 DEF Holding
  <2>9. CASE job[r].kind = "seed"
    BY <1>2, <2>4, <2>9 DEF Holding
  <2> QED BY <2>7, <2>8, <2>9
<1>12. CASE Lose(r) \/ Fail(r) \/ Report(r) \/ Lost(r)
  BY <1>4, <1>12 DEF Lose, Fail, Report, Lost, Outcomes
<1>13. CASE Commit(r)
  <2>1. PICK t : t = Ended("ok")
    OBVIOUS
  <2>2. t.pc = "ok"
    BY <1>1, <2>1 DEF Ended, Fields
  <2>3. tx'[r] = t
    BY <1>1, <1>13, <2>1 DEF Commit
  <2> QED BY <2>2, <2>3 DEF Holding
<1> QED BY <1>5, <1>6, <1>7, <1>9, <1>10, <1>11, <1>12, <1>13 DEF Run

LEMMA HoldingsStay == Inv /\ Holdings /\ [Next]_vars => Holdings'
<1> SUFFICES ASSUME Inv, Holdings, [Next]_vars, NEW r \in Requests
             PROVE  Holding(db', job'[r], tx'[r])
  BY DEF Holdings
<1>1. Holding(db, job[r], tx[r])
  BY DEF Holdings
<1>2. CASE UNCHANGED vars
  BY <1>1, <1>2 DEF vars
<1>3. ASSUME NEW q \in Requests, Run(q) \/ Lost(q) PROVE Holding(db', job'[r], tx'[r])
  <2>1. CASE q = r
    BY <1>1, <1>3, <2>1, HoldingOfOwnStep
  <2>2. CASE q # r
    <3>1. job' = job /\ tx'[r] = tx[r] /\ (Commit(q) \/ db' = db)
      BY <1>3, <2>2, Acts
    <3>2. CASE db' = db
      BY <1>1, <3>1, <3>2
    <3>3. CASE Commit(q)
      <4>1. tx[q].pc = "working" /\ db' = Overlay(db, tx[q].wrote, tx[q].gone)
        BY <3>3 DEF Commit, Complete, View
      <4>2. Good(db) /\ Granted(db, q, tx[q]) /\ Apart(tx[q], tx[r])
        BY <2>2, <4>1, AtWork
      <4>3. PICK new : new = db'
        OBVIOUS
      <4>4. Holding(new, job[r], tx[r])
        BY <1>1, <4>1, <4>2, <4>3, HoldingStays
      <4> QED BY <3>1, <4>3, <4>4
    <3> QED BY <3>1, <3>2, <3>3
  <2> QED BY <2>1, <2>2
<1> QED BY <1>2, <1>3 DEF Next

(* What a deletion may be of. *)
Deletable == {"armies", "units", "weapons", "subfactions"}

LEMMA RowsNamed ==
  ASSUME NEW d, Good(d), NEW i \in DOMAIN d, NEW x \in Names(d[i]), d[x].table \in Deletable
  PROVE  \/ d[i].table = "army_units" /\ x = d[i].army_id /\ d[x].table = "armies"
         \/ d[i].table = "unit_weapons" /\ x = d[i].unit_id /\ d[x].table = "units"
         \/ d[i].table = "unit_weapons" /\ x = d[i].weapon_id /\ d[x].table = "weapons"
         \/ /\ d[i].table \in {"army_units", "user_unit"} /\ d[x].table = "units"
            /\ x \notin NamesByCascade(d[i])
         \/ /\ d[i].table \in {"armies", "units"} /\ d[x].table = "subfactions"
            /\ x \notin NamesByCascade(d[i])
<1>1. PICK c \in Columns(d[i]) : x = d[i][c] /\ x # None
  BY DEF Names
<1>2. IsRow(d[i]) /\ Resolves(d, d[i])
  BY DEF Good, Typed, Resolved
<1>3. x \in DOMAIN d /\ d[x].table = Refers[c]
  BY <1>1, <1>2 DEF Resolves, Of
<1>4. \A k \in Columns(d[i]) : d[i][k] = x => Refers[k] = Refers[c]
  BY <1>1, <1>2, <1>3 DEF Resolves, Of
<1>5. c \in Schema[d[i].table] /\ Columns(d[i]) \subseteq Schema[d[i].table]
  BY <1>2 DEF IsRow, Columns
<1>6. c \in {"subfaction_id", "army_id", "unit_id", "weapon_id"}
  BY <1>1, <1>3 DEF Columns, Refers, Deletable
<1>7. d[i].table \in DOMAIN Schema
  BY <1>2 DEF IsRow
<1>8. ASSUME \A k \in Columns(d[i]) : d[i][k] = x => <<d[i].table, k>> \notin Cascades
      PROVE  x \notin NamesByCascade(d[i])
  BY <1>8 DEF NamesByCascade
<1>9. CASE c = "army_id"
  BY <1>1, <1>3, <1>5, <1>7, <1>9 DEF Schema, Refers
<1>10. CASE c = "weapon_id"
  BY <1>1, <1>3, <1>5, <1>7, <1>10 DEF Schema, Refers
<1>11. CASE c = "unit_id"
  <2>1. d[x].table = "units" /\ d[i].table \in {"unit_weapons", "army_units", "user_unit"}
    BY <1>3, <1>5, <1>7, <1>11 DEF Schema, Refers
  <2>2. \A k \in Columns(d[i]) : d[i][k] = x => k = "unit_id"
    BY <1>4, <1>11 DEF Columns, Refers
  <2>3. <<"army_units", "unit_id">> \notin Cascades /\ <<"user_unit", "unit_id">> \notin Cascades
    BY DEF Cascades
  <2> QED BY <1>1, <1>8, <1>11, <2>1, <2>2, <2>3
<1>12. CASE c = "subfaction_id"
  <2>1. d[x].table = "subfactions" /\ d[i].table \in {"armies", "units"}
    BY <1>3, <1>5, <1>7, <1>12 DEF Schema, Refers
  <2>2. \A k \in Columns(d[i]) : d[i][k] = x => k = "subfaction_id"
    BY <1>4, <1>12 DEF Columns, Refers
  <2>3. \A table : <<table, "subfaction_id">> \notin Cascades
    BY DEF Cascades
  <2> QED BY <1>8, <2>1, <2>2, <2>3
<1> QED BY <1>6, <1>9, <1>10, <1>11, <1>12

(* The two rows are at the ends of the link. *)
Joins(d, i, x, y) ==
  /\ d[i].table = "unit_weapons"
  /\ \/ /\ d[x].table = "units" /\ d[y].table = "weapons"
        /\ d[i].unit_id = x /\ d[i].weapon_id = y
     \/ /\ d[x].table = "weapons" /\ d[y].table = "units"
        /\ d[i].weapon_id = x /\ d[i].unit_id = y

LEMMA OwnedNames ==
  ASSUME NEW d, Good(d), NEW i, NEW x, Owns(d, x, i)
  PROVE  x \in DOMAIN d /\ (i # x => x \in Names(d[i]))
<1>1. CASE i = x
  BY <1>1 DEF Owns
<1>2. CASE i # x
  <2>1. x \in Names(d[i])
    BY <1>2, CascadesAreNames DEF Owns, Good
  <2> QED BY <2>1, NamedRows DEF Owns, Good, Resolved
<1> QED BY <1>1, <1>2

(* Only a link goes with two rows. *)
LEMMA TwoOwners ==
  ASSUME NEW d, Good(d), NEW i, NEW x, NEW y, x # y, Owns(d, x, i), Owns(d, y, i),
         d[x].table \in Deletable, d[y].table \in Deletable
  PROVE  Joins(d, i, x, y)
<1>1. i \in DOMAIN d /\ (i # x => x \in Names(d[i])) /\ (i # y => y \in Names(d[i]))
  BY OwnedNames DEF Owns
<1>2. i # x /\ i # y
  <2>1. ASSUME NEW a, NEW b, Owns(d, a, b), a # b, d[a].table \in Deletable, d[b].table \in Deletable
        PROVE  FALSE
    <3>1. b \in DOMAIN d /\ a \in NamesByCascade(d[b]) /\ a \in Names(d[b])
      BY <2>1, OwnedNames DEF Owns
    <3> QED BY <2>1, <3>1, RowsNamed DEF Deletable
  <2> QED BY <2>1
<1>3. x \in NamesByCascade(d[i]) /\ y \in NamesByCascade(d[i])
  BY <1>2 DEF Owns
<1>4. \/ d[i].table = "army_units" /\ x = d[i].army_id
      \/ d[i].table = "unit_weapons" /\ x = d[i].unit_id /\ d[x].table = "units"
      \/ d[i].table = "unit_weapons" /\ x = d[i].weapon_id /\ d[x].table = "weapons"
  BY <1>1, <1>2, <1>3, RowsNamed
<1>5. \/ d[i].table = "army_units" /\ y = d[i].army_id
      \/ d[i].table = "unit_weapons" /\ y = d[i].unit_id /\ d[y].table = "units"
      \/ d[i].table = "unit_weapons" /\ y = d[i].weapon_id /\ d[y].table = "weapons"
  BY <1>1, <1>2, <1>3, RowsNamed
<1> QED BY <1>4, <1>5 DEF Joins

(* A deletion that checks what names its row meets a deletion of the       *)
(* army, or of the army or unit of the subfaction.                         *)
LEMMA CheckMeets ==
  ASSUME NEW d, Good(d), NEW gone, NEW v, Remains(d, gone, v),
         NEW i, NEW x, NEW y, x # y, i \in Holders(v, {x} \cap DOMAIN v), Owns(d, y, i),
         x \in DOMAIN d => d[x].table \in Deletable, d[y].table \in Deletable
  PROVE  \/ d[y].table = "armies" /\ d[x].table \in {"units", "subfactions"}
         \/ d[y].table = "units" /\ d[x].table = "subfactions"
<1>1. /\ DOMAIN v = DOMAIN d \ gone /\ \A k \in DOMAIN v : v[k] = d[k]
      /\ Typed(v) /\ Resolved(v) /\ None \notin DOMAIN v
  BY DEF Remains
<1>2. x \in DOMAIN v /\ i \in DOMAIN v /\ v[i] = d[i] /\ x \in DOMAIN d /\ i \in DOMAIN d
  BY <1>1 DEF Holders, Swept
<1>3. PICK g \in Names(d[i]) : g \in Swept(v, {x}) /\ i # x /\ x \notin NamesByCascade(d[i])
  BY <1>2 DEF Holders, Swept
<1>4. g = x
  <2> SUFFICES ASSUME g # x PROVE FALSE
    OBVIOUS
  <2>1. g \in DOMAIN v /\ x \in NamesByCascade(d[g]) /\ g \in DOMAIN d
    BY <1>1, <1>3 DEF Swept
  <2>2. x \in Names(d[g])
    BY <2>1, CascadesAreNames DEF Good
  <2>3. d[g].table \in {"army_units", "unit_weapons"}
    BY <1>2, <2>1, <2>2, RowsNamed
  <2> QED BY <1>2, <1>3, <2>1, <2>3, NobodyNames DEF Good
<1>5. \/ d[i].table \in {"army_units", "user_unit"} /\ d[x].table = "units"
      \/ d[i].table \in {"armies", "units"} /\ d[x].table = "subfactions"
      \/ d[i].table = "army_units" /\ x = d[i].army_id
      \/ d[i].table = "unit_weapons"
  BY <1>2, <1>3, <1>4, RowsNamed
<1>6. \A a \in DOMAIN d : d[a].table = "army_units" => d[a].army_id \in NamesByCascade(d[a])
  <2> SUFFICES ASSUME NEW a \in DOMAIN d, d[a].table = "army_units"
               PROVE  d[a].army_id \in NamesByCascade(d[a])
    OBVIOUS
  <2>1. "army_id" \in Columns(d[a]) /\ <<"army_units", "army_id">> \in Cascades
    BY DEF Good, Typed, IsRow, Schema, Columns, Refers, Cascades
  <2> QED BY <2>1 DEF NamesByCascade
<1>7. ASSUME d[i].table = "unit_weapons" PROVE FALSE
  <2>1. \A c \in Columns(d[i]) : <<d[i].table, c>> \in Cascades
    BY <1>2, <1>7 DEF Good, Typed, IsRow, Schema, Columns, Refers, Cascades
  <2> QED BY <1>3, <1>4, <2>1 DEF Names, NamesByCascade
<1>8. CASE i = y
  BY <1>2, <1>3, <1>5, <1>6, <1>7, <1>8 DEF Deletable
<1>9. CASE i # y
  <2>1. y \in NamesByCascade(d[i]) /\ y \in Names(d[i])
    BY <1>9, OwnedNames DEF Owns
  <2>2. d[i].table = "army_units" /\ d[y].table = "armies"
    BY <1>2, <1>7, <2>1, RowsNamed
  <2> QED BY <1>2, <1>3, <1>4, <1>5, <1>6, <2>2
<1> QED BY <1>8, <1>9

(* One deletion waits for another that took a link both want. *)
Across(r, q) ==
  \E i \in DOMAIN db : <<"row", i>> \in tx[q].locks /\ Joins(db, i, job[r].id, job[q].id)

(* Which deletions wait for which. *)
Follows(r, q) ==
  \/ job[r].id = job[q].id
  \/ Across(r, q)
  \/ /\ job[r].id # job[q].id
     /\ \/ job[q].table = "armies" /\ job[r].table \in {"units", "subfactions"}
        \/ job[q].table = "units" /\ job[r].table = "subfactions"

LEMMA DeletionAtWork ==
  ASSUME Inv, Holdings, NEW r \in Requests, job[r].kind = "delete", Working(r)
  PROVE  /\ Good(db) /\ Granted(db, r, tx[r]) /\ Deleting(db, job[r], tx[r], Done)
         /\ HoldsItsOwn(db, job[r].id, tx[r]) /\ job[r].table \in Deletable
         /\ job[r].id \in DOMAIN db => db[job[r].id].table = job[r].table
<1>1. tx[r].pc = "working" /\ tx[r].todo # <<>>
  BY DEF Working
<1>2. /\ Good(db) /\ Granted(db, r, tx[r]) /\ Line(db, job[r], r, tx[r], Done)
      /\ Subject(db, job[r], Done) /\ Asks(job[r])
  BY <1>1, AtWork DEF HasSubject
<1>3. HoldsItsOwn(db, job[r].id, tx[r])
  BY <1>1 DEF Holdings, Holding
<1> QED BY <1>2, <1>3 DEF Line, Subject, Found, Of, Asks, Deletable

(* Two deletions in a wait: what the one wants, the other holds.           *)
LEMMA DeletionsFollow ==
  ASSUME Inv, Holdings, NEW r \in Requests, NEW q \in Requests, job[r].kind = "delete",
         job[q].kind = "delete", Working(q), WaitsFor(r, q)
  PROVE  Follows(r, q) /\ (job[r].id = job[q].id => job[r].table = job[q].table)
<1> DEFINE x == job[r].id
           y == job[q].id
<1>1. PICK s : s = Head(tx[r].todo)
  OBVIOUS
<1>2. Working(r) /\ ~Reads(s) /\ Blocks(q, r, s)
  BY <1>1 DEF WaitsFor
<1>3. /\ Good(db) /\ Granted(db, r, tx[r]) /\ Deleting(db, job[r], tx[r], Done)
      /\ job[r].table \in Deletable /\ (x \in DOMAIN db => db[x].table = job[r].table)
  BY <1>2, DeletionAtWork
<1>4. /\ HoldsItsOwn(db, y, tx[q])
      /\ job[q].table \in Deletable /\ (y \in DOMAIN db => db[y].table = job[q].table)
  BY DeletionAtWork
<1>5. PICK v : v = Overlay(db, tx[r].wrote, tx[r].gone)
  OBVIOUS
<1>6. Remains(db, tx[r].gone, v)
  <2>1. WritesNone(tx[r])
    BY <1>3 DEF Deleting, WritesNone
  <2> QED BY <1>3, <1>5, <2>1, ViewAfterGone
<1>7. TakesItsOwn(db, x, v, s)
  <2>1. tx[r].todo # <<>>
    BY <1>2 DEF Working
  <2> QED BY <1>1, <1>2, <1>3, <1>5, <2>1, LocksItsOwn
<1>8. PICK l \in tx[q].locks : l \in Needs(v, s) \/ l \in Checks(v, s)
  <2>1. tx[q].shares = {} /\ Shares(s) = {} /\ v = View(r)
    BY <1>4, <1>5, <1>7 DEF HoldsItsOwn, TakesItsOwn, View
  <2> QED BY <1>2, <2>1 DEF Blocks
<1>9. PICK k : Owns(db, y, k) /\ {<<"row", k>>, <<"id", k>>} \subseteq tx[q].locks /\ l \in LocksOf(db, k)
  BY <1>4 DEF HoldsItsOwn
<1>10. y \in DOMAIN db /\ k \in DOMAIN db
  BY <1>3, <1>9, OwnedNames DEF Owns
<1>11. CASE l \in Needs(v, s)
  <2>1. PICK i \in Locked(v, s) : l \in LocksOf(v, i)
    BY <1>7, <1>11 DEF TakesItsOwn
  <2>2. Owns(db, x, i) /\ l \in LocksOf(db, i)
    BY <1>7, <2>1 DEF TakesItsOwn, LocksOf
  <2>3. i = k
    BY <1>3, <1>9, <1>10, <2>2, LocksDiffer DEF Owns, Good
  <2>4. x \in DOMAIN db
    BY <1>3, <2>2, OwnedNames
  <2>5. CASE x = y
    BY <1>3, <1>4, <1>10, <2>5 DEF Follows
  <2>6. CASE x # y
    <3>1. Joins(db, k, x, y)
      BY <1>3, <1>4, <1>9, <1>10, <2>2, <2>3, <2>4, <2>6, TwoOwners
    <3> QED BY <1>9, <1>10, <2>6, <3>1 DEF Follows, Across
  <2> QED BY <2>5, <2>6
<1>12. CASE l \in Checks(v, s)
  <2>1. PICK i \in Holders(v, {x} \cap DOMAIN v) : l = <<"id", i>>
    BY <1>7, <1>12 DEF Checks, TakesItsOwn
  <2>2. i \in DOMAIN v /\ i \in DOMAIN db
    BY <1>6, <2>1 DEF Holders, Remains
  <2>3. i = k
    BY <1>3, <1>9, <1>10, <2>1, <2>2, LocksDiffer DEF LocksOf, Good
  <2>4. x \in DOMAIN db
    BY <1>6, <2>1 DEF Holders, Swept, Remains
  <2>5. CASE x = y
    BY <1>3, <1>4, <1>10, <2>5 DEF Follows
  <2>6. CASE x # y
    <3>1. \/ db[y].table = "armies" /\ db[x].table \in {"units", "subfactions"}
          \/ db[y].table = "units" /\ db[x].table = "subfactions"
      <4>1. Owns(db, y, i) /\ Good(db)
        BY <1>3, <1>9, <2>3
      <4>2. (x \in DOMAIN db => db[x].table \in Deletable) /\ db[y].table \in Deletable
        BY <1>3, <1>4, <1>10
      <4>3. i \in Holders(v, {x} \cap DOMAIN v)
        BY <2>1
      <4> HIDE DEF x, y
      <4> QED BY <1>6, <2>6, <4>1, <4>2, <4>3, CheckMeets
    <3> QED BY <1>3, <1>4, <1>10, <2>4, <2>6, <3>1 DEF Follows
  <2> QED BY <2>5, <2>6
<1> QED BY <1>8, <1>11, <1>12

(* Who is waited for while it waits itself is a deletion, or the seed.     *)
LEMMA HoldersDelete ==
  ASSUME Inv, Holdings, NEW r \in Requests, NEW q \in Requests, WaitsFor(r, q), Working(q)
  PROVE  job[q].kind \in {"delete", "seed"}
<1> SUFFICES ASSUME job[q].kind \notin {"delete", "seed"} PROVE FALSE
  OBVIOUS
<1>1. tx[q].locks = {} /\ tx[q].shares = {}
  BY DEF Holdings, Holding, Working
<1> QED BY <1>1 DEF WaitsFor, Blocks

(* Of one unit and one weapon no two deletions each hold the link.         *)
LEMMA OneHoldsTheLink ==
  ASSUME Inv, NEW r \in Requests, NEW q \in Requests, r # q, Across(r, q), Across(q, r)
  PROVE  FALSE
<1>1. PICK i \in DOMAIN db : <<"row", i>> \in tx[q].locks /\ Joins(db, i, job[r].id, job[q].id)
  BY DEF Across
<1>2. PICK k \in DOMAIN db : <<"row", k>> \in tx[r].locks /\ Joins(db, k, job[q].id, job[r].id)
  BY DEF Across
<1>3. SameKey(db[i], db[k])
  <2>1. db[i].unit_id = db[k].unit_id /\ db[i].weapon_id = db[k].weapon_id
    BY <1>1, <1>2 DEF Joins
  <2>2. UniqueKey["unit_weapons"] = {"unit_id", "weapon_id"}
    BY DEF UniqueKey
  <2> QED BY <1>1, <1>2, <2>1, <2>2 DEF Joins, SameKey, Keyed, Key
<1>4. i = k
  BY <1>3 DEF Inv, Good, KeysDiffer
<1> QED BY <1>1, <1>2, <1>4 DEF Inv, Apart

(* Follow a ring: an army waits only for its own deletion, a subfaction    *)
(* only for an army's or a unit's, and units and weapons for each other;   *)
(* going back over the same link is out, so there are two of each.         *)
THEOREM OnlyDeletionsRing == Spec => []RingsAreOfDeletions
<1>1. Init => Holdings
  BY DEF Init, Holdings, Holding
<1>2. Inv /\ Holdings => RingsAreOfDeletions
  <2> SUFFICES ASSUME Inv, Holdings, NEW S \in SUBSET Requests, Ring(S),
                      \A r \in S : job[r].kind # "seed", ~DeleteTheSame(S)
               PROVE  DeleteTwo(S, "units") /\ DeleteTwo(S, "weapons")
    BY DEF RingsAreOfDeletions
  <2>1. \A r \in S : Working(r) /\ \E q \in S : q # r /\ WaitsFor(r, q)
    BY DEF Ring, WaitsFor
  <2>2. ASSUME NEW r \in S, NEW q \in S, WaitsFor(r, q) PROVE job[q].kind = "delete"
    BY <2>1, <2>2, HoldersDelete
  <2>3. ASSUME NEW r \in S, job[r].kind = "delete"
        PROVE  \E q \in S : q # r /\ job[q].kind = "delete" /\ job[r].id # job[q].id /\ Follows(r, q)
    <3>1. PICK q \in S : q # r /\ WaitsFor(r, q)
      BY <2>1
    <3>2. job[q].kind = "delete" /\ Working(q)
      BY <2>1, <2>2, <3>1
    <3>3. Follows(r, q) /\ (job[r].id = job[q].id => job[r].table = job[q].table)
      BY <2>3, <3>1, <3>2, DeletionsFollow
    <3>4. job[r].id # job[q].id
      BY <2>3, <3>1, <3>2, <3>3 DEF DeleteTheSame, Deletes
    <3> QED BY <3>1, <3>2, <3>3, <3>4
  <2>4. ASSUME NEW r \in S, job[r].kind = "delete"
        PROVE  /\ job[r].table \in Deletable /\ (job[r].id \in DOMAIN db => db[job[r].id].table = job[r].table)
    BY <2>1, <2>4, DeletionAtWork
  <2>5. ASSUME NEW r \in S, job[r].kind = "delete", NEW q \in S, job[q].kind = "delete", Across(r, q)
        PROVE  \/ job[r].table = "units" /\ job[q].table = "weapons"
               \/ job[r].table = "weapons" /\ job[q].table = "units"
    <3>1. PICK i \in DOMAIN db : Joins(db, i, job[r].id, job[q].id)
      BY <2>5 DEF Across
    <3>2. job[r].id \in DOMAIN db /\ job[q].id \in DOMAIN db
      <4>1. db[i].table = "unit_weapons" /\ {job[r].id, job[q].id} = {db[i].unit_id, db[i].weapon_id}
        BY <3>1 DEF Joins
      <4>2. IsRow(db[i]) /\ Resolves(db, db[i])
        BY DEF Inv, Good, Typed, Resolved
      <4>3. {"unit_id", "weapon_id"} \subseteq Columns(db[i])
        BY <4>1, <4>2 DEF IsRow, Schema, Columns, Refers
      <4>4. db[i].unit_id \in DOMAIN db /\ db[i].weapon_id \in DOMAIN db
        BY <4>2, <4>3 DEF Resolves, Of
      <4> QED BY <4>1, <4>4
    <3> QED BY <2>4, <2>5, <3>1, <3>2 DEF Joins
  <2>6. ASSUME NEW r \in S, job[r].kind = "delete"
        PROVE  job[r].table # "armies"
    <3>1. PICK q \in S : job[q].kind = "delete" /\ job[r].id # job[q].id /\ Follows(r, q)
      BY <2>3, <2>6
    <3> QED BY <2>5, <2>6, <3>1 DEF Follows
  <2>7. ASSUME NEW r \in S, job[r].kind = "delete", job[r].table # "subfactions"
        PROVE  /\ job[r].table \in {"units", "weapons"}
               /\ \E q \in S : q # r /\ job[q].kind = "delete" /\ Across(r, q)
    <3>1. job[r].table \in {"units", "weapons"}
      BY <2>4, <2>6, <2>7 DEF Deletable
    <3>2. PICK q \in S : q # r /\ job[q].kind = "delete" /\ job[r].id # job[q].id /\ Follows(r, q)
      BY <2>3, <2>7
    <3>3. Across(r, q)
      BY <2>6, <2>7, <3>2 DEF Follows
    <3> QED BY <3>1, <3>2, <3>3
  <2>8. PICK r1 \in S : job[r1].kind = "delete" /\ job[r1].table \in {"units", "weapons"}
    <3>1. PICK r0 \in S : job[r0].kind = "delete"
      BY <2>1, <2>2 DEF Ring
    <3>2. PICK q \in S : job[q].kind = "delete" /\ job[r0].id # job[q].id /\ Follows(r0, q)
      BY <2>3, <3>1
    <3>3. job[q].table \in {"units", "weapons"}
      BY <2>5, <2>6, <3>1, <3>2 DEF Follows
    <3> QED BY <3>2, <3>3
  <2>9. PICK r2 \in S : r2 # r1 /\ job[r2].kind = "delete" /\ Across(r1, r2)
    BY <2>7, <2>8
  <2>10. PICK r3 \in S : r3 # r2 /\ job[r3].kind = "delete" /\ Across(r2, r3)
    BY <2>5, <2>7, <2>8, <2>9
  <2>11. PICK r4 \in S : r4 # r3 /\ job[r4].kind = "delete" /\ Across(r3, r4)
    BY <2>5, <2>7, <2>8, <2>9, <2>10
  <2>12. r1 # r3 /\ r2 # r4
    BY <2>9, <2>10, <2>11, OneHoldsTheLink
  <2>13. \/ /\ job[r1].table = "units" /\ job[r3].table = "units"
            /\ job[r2].table = "weapons" /\ job[r4].table = "weapons"
         \/ /\ job[r1].table = "weapons" /\ job[r3].table = "weapons"
            /\ job[r2].table = "units" /\ job[r4].table = "units"
    BY <2>5, <2>8, <2>9, <2>10, <2>11
  <2>14. job[r1].id # job[r3].id /\ job[r2].id # job[r4].id
    BY <2>8, <2>9, <2>10, <2>11, <2>12, <2>13 DEF DeleteTheSame, Deletes
  <2> QED BY <2>8, <2>9, <2>10, <2>11, <2>13, <2>14 DEF DeleteTwo, Deletes
<1> QED BY <1>1, <1>2, HoldingsStay, Invariance, PTL DEF Spec
=============================================================================
