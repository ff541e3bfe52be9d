--------------------------- MODULE CatalogProofs ---------------------------
(***************************************************************************)
(* The rules of the catalogue are well formed, and their queries are       *)
(* complete, so the theorems about guided writes hold of it, for any       *)
(* number of records and calls.                                            *)
(***************************************************************************)
EXTENDS Catalog, TLAPS

G == INSTANCE GuidedWriteProofs

----------------------------------------------------------------------------
(* The rows an input writes are rows.                                      *)

LEMMA OverlayKeepsLinks ==
  ASSUME NEW links \in [Links -> Records \cup {None}], NEW change \in Changes
  PROVE Overlay(links, change) \in [Links -> Records \cup {None}]
<1>1. \A l \in DOMAIN change : change[l] \in Records \cup {None}
  BY CatalogAssumption
<1> QED BY <1>1 DEF Overlay

LEMMA NoLinksAreLinks == NoLinks \in [Links -> Records \cup {None}]
BY DEF NoLinks

LEMMA AbsentIsRow == Absent \in Rows
BY NoLinksAreLinks DEF Absent, Rows

LEMMA EditMakesRows ==
  ASSUME NEW i \in Questions \cup OtherInputs, NEW row \in Rows PROVE Edit(i, row) \in Rows
<1>1. CASE i \in Creations
  <2>1. Overlay(NoLinks, i.links) \in [Links -> Records \cup {None}]
    BY <1>1, NoLinksAreLinks, OverlayKeepsLinks DEF Creations
  <2> QED BY <1>1, <2>1 DEF Creations, Rows, Edit
<1>2. CASE i \in Updates
  <2>1. Overlay(row.links, i.links) \in [Links -> Records \cup {None}]
    BY <1>2, OverlayKeepsLinks DEF Updates, Rows
  <2>2. (IF i.name = None THEN row.name ELSE i.name) \in Names \cup {None}
    BY <1>2 DEF Updates, Rows
  <2> QED BY <1>2, <2>1, <2>2 DEF Updates, Rows, Edit
<1>3. CASE i \in Deletions
  BY <1>3, AbsentIsRow DEF Deletions, Edit
<1>4. CASE i \in Lifecycle({"product"}) \cup OtherInputs
  BY <1>4 DEF Lifecycle, OtherInputs, Rows, Edit
<1> QED BY <1>1, <1>2, <1>3, <1>4 DEF Questions

LEMMA TargetIsRecord == ASSUME NEW i \in Inputs PROVE Target(i) \in Records \cup {None}
BY DEF Inputs, Questions, Creations, Updates, Deletions, Lifecycle, Target

LEMMA QueriesCounted == ASSUME NEW i \in Inputs PROVE Queries(i) \in Nat
BY DEF Inputs, Questions, Creations, Updates, Deletions, Lifecycle, Queries

LEMMA CreatedAnew ==
  ASSUME NEW i \in Inputs, NEW row, Target(i) = None, Applies(i, row) PROVE row = Absent
BY CatalogAssumption DEF Inputs, Questions, Creations, Updates, Deletions, Lifecycle, Target, Applies, Exists

LEMMA RulesWellFormed == G!WellFormed
BY CatalogAssumption, EditMakesRows, TargetIsRecord, CreatedAnew, QueriesCounted, AbsentIsRow
   DEF G!WellFormed, G!Creates, Inputs

----------------------------------------------------------------------------
(* What the rules of the Core say of one row, in the table t.              *)

Tables == [Records -> Rows]

\* Links are those of the kind, lead to records of theirs, and none is missing.
Linking(t, kind, links) ==
  \A l \in Links :
    /\ links[l] # None => l \in LinksOf(kind) /\ t[links[l]].kind = l
    /\ l \in Mandatory(kind) => links[l] # None

\* All that is linked to is active.
Living(t, links) == \A l \in Links : links[l] # None => Active(t[links[l]])

\* What a product links to belongs together.
Fitting(t, links) ==
  /\ links["brand"] # None =>
       t[links["brand"]].links["manufacturer"] \in {None, links["manufacturer"]}
  /\ links["subcategory"] # None /\ links["category"] # None =>
       t[links["subcategory"]].links["category"] = links["category"]
  /\ links["third_category"] # None /\ links["subcategory"] # None =>
       t[links["third_category"]].links["subcategory"] = links["subcategory"]

LEMMA RowOfTable ==
  ASSUME NEW t \in Tables, NEW z \in Records
  PROVE  /\ t[z] \in Rows
         /\ \A l \in Links : t[z].links[l] \in Records \cup {None}
BY DEF Tables, Rows

LEMMA LinkFacts ==
  ASSUME NEW kind
  PROVE  /\ LinksOf(kind) \subseteq Links /\ kind \notin LinksOf(kind)
         /\ Mandatory(kind) \subseteq LinksOf(kind)
         /\ kind = "product" => LinksOf(kind) = Links /\ Mandatory(kind) = {}
         /\ LinksOf("brand") = {"manufacturer"} /\ LinksOf("subcategory") = {"category"}
         /\ LinksOf("third_category") = {"subcategory"}
         /\ "none" \notin Links /\ "product" \notin Links
BY DEF LinksOf, Mandatory, Links, Masters, Levels

LEMMA LinksSoundParts ==
  ASSUME NEW t, NEW z
  PROVE  LinksSound(t, z) <=>
           Linking(t, t[z].kind, t[z].links) /\ (Active(t[z]) => Living(t, t[z].links))
BY DEF LinksSound, Linking, Living

LEMMA ProductSoundParts ==
  ASSUME NEW t, NEW z PROVE ProductSound(t, z) <=> Fitting(t, t[z].links)
BY DEF ProductSound, Fitting, BrandFits, LevelFits, Parent

LEMMA SoundRow ==
  ASSUME NEW t \in Tables, NEW s, Sound(t, s), NEW z \in Records, Exists(t[z])
  PROVE  /\ t[z].kind \in Kinds
         /\ Linking(t, t[z].kind, t[z].links)
         /\ Active(t[z]) => Living(t, t[z].links)
         /\ t[z].kind = "product" => Fitting(t, t[z].links)
BY LinksSoundParts, ProductSoundParts DEF Sound

----------------------------------------------------------------------------
(* The rules when one row is replaced.                                     *)

Put(t, r, row) == [t EXCEPT ![r] = row]

LEMMA PutIsTable ==
  ASSUME NEW t \in Tables, NEW r \in Records, NEW row \in Rows
  PROVE  /\ Put(t, r, row) \in Tables
         /\ \A z \in Records : Put(t, r, row)[z] = IF z = r THEN row ELSE t[z]
BY DEF Tables, Put

\* Only a record of the kind of a link is linked to; what is absent is not.
LEMMA LinkedIsOfKind ==
  ASSUME NEW t \in Tables, NEW s, Sound(t, s), NEW z \in Records, NEW l \in Links,
         t[z].links[l] # None
  PROVE  t[z].links[l] \in Records /\ t[t[z].links[l]].kind = l /\ Exists(t[z])
<1>1. Exists(t[z])
  BY DEF Exists, Absent, NoLinks
<1> QED BY <1>1, RowOfTable, SoundRow DEF Linking

\* Products stay consistent when a record they link to moves, if they do not
\* contradict the move.
LEMMA ProductsFit ==
  ASSUME NEW t \in Tables, NEW s, Sound(t, s), NEW r \in Records, NEW row \in Rows,
         row.kind = t[r].kind,
         \/ row.links = t[r].links
         \/ row.kind = "product"
         \/ row.kind \in Links /\ Contradicted([rows |-> t, side |-> s], r, row) = {},
         NEW p \in Records, p # r, t[p].kind = "product", Exists(t[p])
  PROVE  Fitting(Put(t, r, row), t[p].links)
<1> DEFINE u == Put(t, r, row)
           links == t[p].links
<1>1. \A z \in Records : u[z] = IF z = r THEN row ELSE t[z]
  BY PutIsTable
<1>2. \A l \in Links : links[l] # None => links[l] \in Records /\ t[links[l]].kind = l
  BY LinkedIsOfKind
<1>3. Fitting(t, links)
  BY SoundRow
<1>4. {"brand", "manufacturer", "category", "subcategory", "third_category"} = Links
  BY DEF Links, Masters, Levels
<1>5. row.links = t[r].links \/ row.kind = "product" => \A l \in Links : links[l] # None =>
        u[links[l]].links = t[links[l]].links
  <2>1. row.kind = "product" => \A l \in Links : links[l] # None => links[l] # r
    BY <1>2, LinkFacts
  <2> HIDE DEF u
  <2> QED BY <1>1, <1>2, <2>1
<1>6. CASE row.links = t[r].links \/ row.kind = "product"
  <2> HIDE DEF u
  <2> QED BY <1>3, <1>4, <1>5, <1>6 DEF Fitting, u
<1>7. CASE row.kind \in Links /\ Contradicted([rows |-> t, side |-> s], r, row) = {}
  <2> HIDE DEF u, links
  <2>1. ASSUME links["brand"] # None
        PROVE  u[links["brand"]].links["manufacturer"] \in {None, links["manufacturer"]}
    <3>1. CASE links["brand"] = r
      <4>1. row.kind = "brand"
        BY <1>2, <1>4, <2>1, <3>1
      <4>2. links["manufacturer"] = row.links["manufacturer"]
        BY <1>7, <3>1, <4>1 DEF Contradicted, links
      <4> QED BY <1>1, <3>1, <4>2
    <3>2. CASE links["brand"] # r
      BY <1>1, <1>2, <1>3, <1>4, <2>1, <3>2 DEF Fitting
    <3> QED BY <3>1, <3>2
  <2>2. ASSUME links["subcategory"] # None, links["category"] # None
        PROVE  u[links["subcategory"]].links["category"] = links["category"]
    <3>1. CASE links["subcategory"] = r
      <4>1. row.kind = "subcategory"
        BY <1>2, <1>4, <2>2, <3>1
      <4>2. links["category"] = row.links["category"]
        BY <1>7, <3>1, <4>1 DEF Contradicted, links
      <4> QED BY <1>1, <3>1, <4>2
    <3>2. CASE links["subcategory"] # r
      BY <1>1, <1>2, <1>3, <1>4, <2>2, <3>2 DEF Fitting
    <3> QED BY <3>1, <3>2
  <2>3. ASSUME links["third_category"] # None, links["subcategory"] # None
        PROVE  u[links["third_category"]].links["subcategory"] = links["subcategory"]
    <3>1. CASE links["third_category"] = r
      <4>1. row.kind = "third_category"
        BY <1>2, <1>4, <2>3, <3>1
      <4>2. links["subcategory"] = row.links["subcategory"]
        BY <1>7, <3>1, <4>1 DEF Contradicted, links
      <4> QED BY <1>1, <3>1, <4>2
    <3>2. CASE links["third_category"] # r
      BY <1>1, <1>2, <1>3, <1>4, <2>3, <3>2 DEF Fitting
    <3> QED BY <3>1, <3>2
  <2>4. Fitting(u, links)
    BY <2>1, <2>2, <2>3 DEF Fitting
  <2> QED BY <2>4 DEF u, links
<1> QED BY <1>6, <1>7

\* An existing record has all it links to in the table without it.
LEMMA LinksElsewhere ==
  ASSUME NEW t \in Tables, NEW r \in Records, NEW row \in Rows,
         t[r] = Absent \/ t[r].kind = row.kind, Linking(t, row.kind, row.links)
  PROVE  \A l \in Links : row.links[l] # None => row.links[l] \in Records \ {r}
<1> SUFFICES ASSUME NEW l \in Links, row.links[l] # None PROVE row.links[l] \in Records \ {r}
  OBVIOUS
<1>1. row.links[l] \in Records
  BY DEF Rows
<1>2. l \in LinksOf(row.kind) /\ t[row.links[l]].kind = l
  BY DEF Linking
<1>3. t[r].kind # l
  BY <1>2, LinkFacts DEF Absent
<1> QED BY <1>1, <1>2, <1>3

\* The table with a new row for r keeps the rules, if the row does, nothing else
\* has its name, and a record that others link to stays active and of its kind.
LEMMA SoundAfter ==
  ASSUME NEW t \in Tables, NEW s \in [Records -> 0..1], Sound(t, s), NEW r \in Records,
         NEW row \in Rows, Exists(row), row.kind \in Kinds,
         t[r] = Absent \/ t[r].kind = row.kind,
         Active(row) \/ row.kind = "product",
         \/ t[r] = Absent \/ row.links = t[r].links \/ row.kind = "product"
         \/ Contradicted([rows |-> t, side |-> s], r, row) = {},
         Linking(t, row.kind, row.links), Active(row) => Living(t, row.links),
         row.kind = "product" => Fitting(t, row.links),
         row.kind # "product" => Unused([rows |-> t, side |-> s], {r}, row),
         s[r] > 0 => row.kind = "product" /\ Active(row)
  PROVE  Sound(Put(t, r, row), s)
<1> DEFINE u == Put(t, r, row)
<1>1. u \in Tables /\ \A z \in Records : u[z] = IF z = r THEN row ELSE t[z]
  BY PutIsTable
<1>2. \A z \in Records : s[z] > 0 => t[z].kind = "product" /\ Active(t[z])
  BY DEF Sound
<1>3. \A l \in Links : row.links[l] # None => u[row.links[l]] = t[row.links[l]]
  BY <1>1, LinksElsewhere
<1>4. ASSUME NEW z \in Records, z # r, t[z].kind = "product", Exists(t[z])
      PROVE  Fitting(u, t[z].links)
  <2>1. CASE t[r] = Absent
    <3>1. \A l \in Links : t[z].links[l] # None => u[t[z].links[l]] = t[t[z].links[l]]
      <4>1. t[r].kind \notin Links
        BY <2>1, LinkFacts DEF Absent
      <4> QED BY <1>1, <4>1, LinkedIsOfKind
    <3>2. Fitting(t, t[z].links)
      BY <1>4, SoundRow
    <3>3. {"brand", "manufacturer", "category", "subcategory", "third_category"} = Links
      BY DEF Links, Masters, Levels
    <3> HIDE DEF u
    <3> QED BY <3>1, <3>2, <3>3 DEF Fitting
  <2>2. CASE t[r] # Absent
    <3>1. row.kind # "product" => row.kind \in Links
      BY DEF Kinds
    <3> QED BY <1>4, <2>2, <3>1, ProductsFit
  <2> QED BY <2>1, <2>2
<1> HIDE DEF u
<1>5. ASSUME NEW z \in Records, z # r, Exists(t[z]), NEW l \in Links, t[z].links[l] # None
      PROVE  /\ t[z].links[l] \in Records /\ u[t[z].links[l]].kind = l
             /\ Active(t[t[z].links[l]]) => Active(u[t[z].links[l]])
  <2>1. t[z].links[l] \in Records /\ t[t[z].links[l]].kind = l
    BY <1>5, LinkedIsOfKind
  <2>2. ASSUME t[z].links[l] = r PROVE row.kind = l /\ Active(row)
    BY <2>1, <2>2, LinkFacts DEF Absent
  <2> QED BY <1>1, <2>1, <2>2
<1>6. ASSUME NEW z \in Records, Exists(u[z])
      PROVE  /\ u[z].kind \in Kinds
             /\ Linking(u, u[z].kind, u[z].links)
             /\ Active(u[z]) => Living(u, u[z].links)
             /\ u[z].kind = "product" => Fitting(u, u[z].links)
  <2>1. CASE z = r
    <3>1. {"brand", "manufacturer", "category", "subcategory", "third_category"} = Links
      BY DEF Links, Masters, Levels
    <3>2. u[z] = row
      BY <1>1, <2>1
    <3>3. Linking(u, row.kind, row.links)
      BY <1>3 DEF Linking
    <3>4. Active(row) => Living(u, row.links)
      BY <1>3 DEF Living
    <3>5. row.kind = "product" => Fitting(u, row.links)
      BY <1>3, <3>1 DEF Fitting
    <3> QED BY <3>2, <3>3, <3>4, <3>5
  <2>2. CASE z # r
    <3>1. u[z] = t[z] /\ Exists(t[z])
      BY <1>1, <1>6, <2>2
    <3>2. /\ t[z].kind \in Kinds
          /\ Linking(t, t[z].kind, t[z].links)
          /\ Active(t[z]) => Living(t, t[z].links)
      BY <3>1, SoundRow
    <3>3. Linking(u, t[z].kind, t[z].links)
      BY <1>5, <2>2, <3>1, <3>2 DEF Linking
    <3>4. Active(t[z]) => Living(u, t[z].links)
      BY <1>5, <2>2, <3>1, <3>2 DEF Living
    <3>5. t[z].kind = "product" => Fitting(u, t[z].links)
      BY <1>4, <2>2, <3>1
    <3> QED BY <3>1, <3>2, <3>3, <3>4, <3>5
  <2> QED BY <2>1, <2>2
<1>7. ASSUME NEW z \in Records, Exists(u[z]), u[z].kind # "product"
      PROVE  Unused([rows |-> u], {z}, u[z])
  <2> SUFFICES ASSUME NEW y \in Records, y # z, u[y].kind = u[z].kind, u[y].name = u[z].name,
                      u[y].links = u[z].links
               PROVE  FALSE
    BY DEF Unused
  <2>1. CASE z = r
    BY <1>1, <1>7, <2>1 DEF Unused
  <2>2. CASE y = r
    BY <1>1, <1>7, <2>2 DEF Unused
  <2>3. CASE y # r /\ z # r
    BY <1>1, <1>7, <2>3 DEF Sound, Unused
  <2> QED BY <2>1, <2>2, <2>3
<1>8. \A z \in Records : s[z] > 0 => u[z].kind = "product" /\ Active(u[z])
  BY <1>1, <1>2
<1>9. Sound(u, s)
  BY <1>6, <1>7, <1>8, LinksSoundParts, ProductSoundParts DEF Sound
<1> QED BY <1>9 DEF u

\* A record that nothing links to may go.
LEMMA SoundWithout ==
  ASSUME NEW t \in Tables, NEW s \in [Records -> 0..1], Sound(t, s), NEW r \in Records,
         ~(s[r] > 0), \A z \in Records, l \in Links : t[z].links[l] # r
  PROVE  Sound(Put(t, r, Absent), s)
<1> DEFINE u == Put(t, r, Absent)
<1>1. \A z \in Records : u[z] = IF z = r THEN Absent ELSE t[z]
  BY PutIsTable, AbsentIsRow
<1> HIDE DEF u
<1>2. \A z \in Records : Exists(u[z]) => z # r /\ u[z] = t[z] /\ Exists(t[z])
  BY <1>1 DEF Exists
<1>3. \A z \in Records, l \in Links : t[z].links[l] # None =>
        t[z].links[l] \in Records \ {r} /\ u[t[z].links[l]] = t[t[z].links[l]]
  BY <1>1, RowOfTable
<1>4. ASSUME NEW z \in Records, Exists(u[z])
      PROVE  /\ u[z].kind \in Kinds
             /\ Linking(u, u[z].kind, u[z].links)
             /\ Active(u[z]) => Living(u, u[z].links)
             /\ u[z].kind = "product" => Fitting(u, u[z].links)
  <2>1. /\ t[z].kind \in Kinds
        /\ Linking(t, t[z].kind, t[z].links)
        /\ Active(t[z]) => Living(t, t[z].links)
        /\ t[z].kind = "product" => Fitting(t, t[z].links)
    BY <1>2, <1>4, SoundRow
  <2>2. {"brand", "manufacturer", "category", "subcategory", "third_category"} = Links
    BY DEF Links, Masters, Levels
  <2>3. Linking(u, t[z].kind, t[z].links)
    BY <1>3, <2>1 DEF Linking
  <2>4. Active(t[z]) => Living(u, t[z].links)
    BY <1>3, <2>1 DEF Living
  <2>5. t[z].kind = "product" => Fitting(u, t[z].links)
    BY <1>3, <2>1, <2>2 DEF Fitting
  <2> QED BY <1>2, <1>4, <2>1, <2>3, <2>4, <2>5
<1>5. ASSUME NEW z \in Records, Exists(u[z]), u[z].kind # "product"
      PROVE  Unused([rows |-> u], {z}, u[z])
  <2>1. u[z] = t[z] /\ t[z].kind \in Kinds /\ Unused([rows |-> t], {z}, t[z])
    BY <1>2, <1>5 DEF Sound
  <2>2. t[z].kind # Absent.kind
    BY <2>1 DEF Absent, Kinds, Links, Masters, Levels
  <2> QED BY <1>1, <2>1, <2>2 DEF Unused
<1>6. \A z \in Records : s[z] > 0 => u[z].kind = "product" /\ Active(u[z])
  <2>1. \A z \in Records : s[z] > 0 => t[z].kind = "product" /\ Active(t[z])
    BY DEF Sound
  <2> QED BY <1>1, <2>1
<1>7. Sound(u, s)
  BY <1>4, <1>5, <1>6, LinksSoundParts, ProductSoundParts DEF Sound
<1> QED BY <1>7 DEF u

----------------------------------------------------------------------------
(* The queries of each tool ask what the Core asks.                        *)

\* What the edits leave alone.
LEMMA OverlayParts ==
  ASSUME NEW links, NEW change
  PROVE  \A l \in Links : Overlay(links, change)[l] =
                            IF l \in DOMAIN change THEN change[l] ELSE links[l]
BY DEF Overlay

LEMMA CreatedRow ==
  ASSUME NEW i \in Creations, NEW row, row = Edit(i, Absent)
  PROVE  /\ row.kind = i.kind /\ row.name = i.name /\ row.status = "active"
         /\ row.links = Overlay(NoLinks, i.links)
         /\ Active(row) /\ Exists(row) /\ row.kind \in Kinds
         /\ \A l \in Links : l \notin LinksOf(row.kind) => row.links[l] = None
<1>1. i.op = "create" /\ i.kind \in Kinds /\ DOMAIN i.links \subseteq LinksOf(i.kind)
  BY DEF Creations
<1>2. row = [kind |-> i.kind, status |-> "active", name |-> i.name,
             links |-> Overlay(NoLinks, i.links)]
  BY <1>1 DEF Edit
<1>3. \A l \in Links : NoLinks[l] = None
  BY DEF NoLinks
<1> QED BY <1>1, <1>2, <1>3, OverlayParts DEF Active, Exists, Absent

LEMMA UpdatedRow ==
  ASSUME NEW i \in Updates, NEW old \in Rows, NEW row, row = Edit(i, old)
  PROVE  /\ row.kind = old.kind /\ row.status = old.status
         /\ row.links = Overlay(old.links, i.links)
<1>1. i.op = "update"
  BY DEF Updates
<1>2. row = [old EXCEPT !.name = IF i.name = None THEN @ ELSE i.name,
                        !.links = Overlay(@, i.links)]
  BY <1>1 DEF Edit
<1> QED BY <1>2 DEF Rows

\* Below active records only.
LEMMA AncestryLinks ==
  ASSUME NEW t, NEW s, NEW row,
         AncestryActive([rows |-> t, side |-> s], row), Given(row, Mandatory(row.kind)),
         \A l \in Links : l \notin LinksOf(row.kind) => row.links[l] = None
  PROVE  Linking(t, row.kind, row.links) /\ Living(t, row.links)
BY DEF AncestryActive, IsActive, Given, Linking, Living

LEMMA MasterCreationComplete ==
  ASSUME NEW t \in Tables, NEW s \in [Records -> 0..1], Sound(t, s), NEW r \in Records,
         NEW i \in Creations, i.kind # "product", t[r] = Absent,
         \A n \in 0..2 : MasterCreatePasses(n, i, [rows |-> t, side |-> s])
  PROVE  Sound(Put(t, r, Edit(i, Absent)), s)
<1> DEFINE row == Edit(i, Absent)
           w == [rows |-> t, side |-> s]
<1>1. row \in Rows
  BY AbsentIsRow, EditMakesRows DEF Questions
<1>2. AncestryActive(w, row) /\ Unused(w, {}, row) /\ Given(row, RequiredToCreate(i.kind))
  <2>1. MasterCreatePasses(0, i, w) /\ MasterCreatePasses(1, i, w) /\ MasterCreatePasses(2, i, w)
    OBVIOUS
  <2> QED BY <2>1 DEF MasterCreatePasses
<1> HIDE DEF row
<1>3. /\ row.kind = i.kind /\ Active(row) /\ Exists(row) /\ row.kind \in Kinds
      /\ \A l \in Links : l \notin LinksOf(row.kind) => row.links[l] = None
  BY CreatedRow DEF row
<1>4. Mandatory(i.kind) \subseteq RequiredToCreate(i.kind)
  BY DEF Mandatory, RequiredToCreate, Levels, LinksOf
<1>5. Linking(t, row.kind, row.links) /\ Living(t, row.links)
  BY <1>2, <1>3, <1>4, AncestryLinks DEF Given
<1>6. Unused(w, {r}, row)
  BY <1>2 DEF Unused
<1>7. ~Active(t[r])
  BY DEF Active, Absent
<1>8. ~(s[r] > 0)
  BY <1>7 DEF Sound
<1>9. Sound(Put(t, r, row), s)
  BY <1>1, <1>3, <1>5, <1>6, <1>8, SoundAfter
<1> QED BY <1>9 DEF row

LEMMA MasterUpdateComplete ==
  ASSUME NEW t \in Tables, NEW s \in [Records -> 0..1], Sound(t, s), NEW i \in Updates,
         i.kind # "product",
         \A n \in 0..3 : MasterUpdatePasses(n, i, t[i.record], [rows |-> t, side |-> s])
  PROVE  Applies(i, t[i.record]) /\ Sound(Put(t, i.record, Edit(i, t[i.record])), s)
<1> DEFINE r == i.record
           row == Edit(i, t[r])
           w == [rows |-> t, side |-> s]
<1>1. /\ r \in Records /\ t[r] \in Rows /\ i.op = "update" /\ i.kind \in Kinds
      /\ DOMAIN i.links \subseteq LinksOf(i.kind)
  BY DEF Updates, Tables
<1>2. row \in Rows
  BY <1>1, EditMakesRows DEF Questions
<1>3. /\ Applies(i, t[r]) /\ Given(row, Mandatory(i.kind)) /\ AncestryActive(w, row)
      /\ MoveAllowed(w, r, t[r], row) /\ Unused(w, {r}, row)
  <2>1. /\ MasterUpdatePasses(0, i, t[r], w) /\ MasterUpdatePasses(1, i, t[r], w)
        /\ MasterUpdatePasses(2, i, t[r], w) /\ MasterUpdatePasses(3, i, t[r], w)
    OBVIOUS
  <2> QED BY <2>1 DEF MasterUpdatePasses
<1>4. t[r].kind = i.kind /\ Active(t[r]) /\ Exists(t[r])
  <2>1. t[r].kind = i.kind /\ Active(t[r])
    BY <1>1, <1>3 DEF Applies
  <2> QED BY <2>1 DEF Active, Exists, Absent
<1>5. /\ row.kind = i.kind /\ row.status = t[r].status
      /\ row.links = Overlay(t[r].links, i.links)
  BY <1>1, <1>4, UpdatedRow
<1> HIDE DEF row
<1>6. Active(row) /\ Exists(row)
  BY <1>4, <1>5 DEF Active, Exists, Absent
<1>7. \A l \in Links : l \notin LinksOf(row.kind) => row.links[l] = None
  <2>1. Linking(t, i.kind, t[r].links)
    BY <1>1, <1>4, SoundRow
  <2> QED BY <1>1, <1>5, <2>1, OverlayParts DEF Linking
<1>8. Linking(t, row.kind, row.links) /\ Living(t, row.links)
  BY <1>3, <1>5, <1>7, AncestryLinks
<1>9. ~(s[r] > 0)
  BY <1>1, <1>4 DEF Sound
<1>10. Sound(Put(t, r, row), s)
  BY <1>1, <1>2, <1>3, <1>4, <1>5, <1>6, <1>8, <1>9, SoundAfter DEF MoveAllowed
<1> QED BY <1>3, <1>10 DEF row

LEMMA DeletionComplete ==
  ASSUME NEW t \in Tables, NEW s \in [Records -> 0..1], Sound(t, s), NEW i \in Deletions,
         \A n \in 0..1 : DeletePasses(n, i, t[i.record], [rows |-> t, side |-> s])
  PROVE  Applies(i, t[i.record]) /\ Sound(Put(t, i.record, Edit(i, t[i.record])), s)
<1> DEFINE r == i.record
<1>1. r \in Records /\ i.op = "delete" /\ i.kind \in Levels
  BY DEF Deletions
<1>2. Applies(i, t[r]) /\ \A z \in Records : t[z].links[i.kind] # r
  <2>1. /\ DeletePasses(0, i, t[r], [rows |-> t, side |-> s])
        /\ DeletePasses(1, i, t[r], [rows |-> t, side |-> s])
    OBVIOUS
  <2> QED BY <2>1 DEF DeletePasses
<1>3. t[r].kind = i.kind
  BY <1>1, <1>2 DEF Applies
<1>4. \A z \in Records, l \in Links : t[z].links[l] # r
  BY <1>1, <1>2, <1>3, LinkedIsOfKind, CatalogAssumption
<1>5. ~(s[r] > 0)
  BY <1>1, <1>3 DEF Sound, Levels
<1>6. Edit(i, t[r]) = Absent
  BY <1>1 DEF Edit
<1> QED BY <1>1, <1>2, <1>4, <1>5, <1>6, SoundWithout

LEMMA ProductCreationComplete ==
  ASSUME NEW t \in Tables, NEW s \in [Records -> 0..1], Sound(t, s), NEW r \in Records,
         NEW i \in Creations, i.kind = "product", t[r] = Absent,
         \A n \in 0..6 : ProductCreatePasses(n, i, [rows |-> t, side |-> s])
  PROVE  Sound(Put(t, r, Edit(i, Absent)), s)
<1> DEFINE row == Edit(i, Absent)
           links == row.links
           w == [rows |-> t, side |-> s]
<1>1. row \in Rows
  BY AbsentIsRow, EditMakesRows DEF Questions
<1>2. Links = {"manufacturer", "brand", "category", "subcategory", "third_category"}
  BY DEF Links, Masters, Levels
<1>3. /\ Given(row, RequiredToCreate("product"))
      /\ IsActive(w, "manufacturer", links["manufacturer"])
      /\ links["brand"] # None => IsActive(w, "brand", links["brand"]) /\ BrandFits(w, links)
      /\ IsActive(w, "category", links["category"])
  <2>1. /\ ProductCreatePasses(0, i, w) /\ ProductCreatePasses(1, i, w)
        /\ ProductCreatePasses(2, i, w) /\ ProductCreatePasses(3, i, w)
    OBVIOUS
  <2> QED BY <2>1 DEF ProductCreatePasses
<1>4. \A l \in {"subcategory", "third_category"} :
        links[l] # None => /\ IsActive(w, l, links[l])
                           /\ links[Parent[l]] # None => LevelFits(w, links, l)
  <2>1. ProductCreatePasses(4, i, w) /\ ProductCreatePasses(5, i, w)
    OBVIOUS
  <2> QED BY <2>1 DEF ProductCreatePasses
<1>5. row.kind = "product" /\ Active(row) /\ Exists(row) /\ row.kind \in Kinds
  BY CreatedRow
<1> HIDE DEF row
<1>6. Linking(t, "product", links) /\ Living(t, links)
  <2>1. \A l \in Links : links[l] # None => IsActive(w, l, links[l])
    BY <1>2, <1>3, <1>4
  <2> QED BY <2>1, LinkFacts DEF IsActive, Linking, Living
<1>7. Fitting(t, links)
  <2>1. Parent["subcategory"] = "category" /\ Parent["third_category"] = "subcategory"
    BY DEF Parent
  <2> QED BY <1>3, <1>4, <2>1 DEF Fitting, BrandFits, LevelFits
<1>8. ~(s[r] > 0)
  <2>1. ~Active(t[r])
    BY DEF Active, Absent
  <2> QED BY <2>1 DEF Sound
<1>9. Sound(Put(t, r, row), s)
  BY <1>1, <1>5, <1>6, <1>7, <1>8, SoundAfter
<1> QED BY <1>9 DEF row

LEMMA ProductUpdateComplete ==
  ASSUME NEW t \in Tables, NEW s \in [Records -> 0..1], Sound(t, s), NEW i \in Updates,
         i.kind = "product",
         \A n \in 0..6 : ProductUpdatePasses(n, i, t[i.record], [rows |-> t, side |-> s])
  PROVE  Applies(i, t[i.record]) /\ Sound(Put(t, i.record, Edit(i, t[i.record])), s)
<1> DEFINE r == i.record
           row == Edit(i, t[r])
           links == row.links
           w == [rows |-> t, side |-> s]
<1>1. /\ r \in Records /\ t[r] \in Rows /\ i.op = "update"
  BY DEF Updates, Tables
<1>2. row \in Rows
  BY <1>1, EditMakesRows DEF Questions
<1>3. Links = {"manufacturer", "brand", "category", "subcategory", "third_category"}
  BY DEF Links, Masters, Levels
<1>4. /\ Applies(i, t[r])
      /\ Sets(i, "category") => IsActive(w, "category", links["category"])
      /\ Sets(i, "manufacturer") => IsActive(w, "manufacturer", links["manufacturer"])
      /\ BrandAsked(i) /\ links["brand"] # None =>
           IsActive(w, "brand", links["brand"]) /\ BrandFits(w, links)
  <2>1. /\ ProductUpdatePasses(0, i, t[r], w) /\ ProductUpdatePasses(1, i, t[r], w)
        /\ ProductUpdatePasses(2, i, t[r], w) /\ ProductUpdatePasses(3, i, t[r], w)
    OBVIOUS
  <2> QED BY <2>1 DEF ProductUpdatePasses
<1>5. \A l \in {"subcategory", "third_category"} :
        (Sets(i, l) \/ Sets(i, Parent[l])) /\ links[l] # None =>
          IsActive(w, l, links[l]) /\ LevelFits(w, links, l)
  <2>1. ProductUpdatePasses(4, i, t[r], w) /\ ProductUpdatePasses(5, i, t[r], w)
    OBVIOUS
  <2> QED BY <2>1 DEF ProductUpdatePasses
<1>6. t[r].kind = "product" /\ Active(t[r]) /\ Exists(t[r])
  <2>1. t[r].kind = "product" /\ Active(t[r])
    BY <1>1, <1>4 DEF Applies
  <2> QED BY <2>1 DEF Active, Exists, Absent
<1>7. /\ row.kind = "product" /\ row.status = t[r].status
      /\ links = Overlay(t[r].links, i.links)
  BY <1>1, <1>6, UpdatedRow
<1>8. /\ Linking(t, "product", t[r].links) /\ Living(t, t[r].links) /\ Fitting(t, t[r].links)
  BY <1>1, <1>6, SoundRow
<1> HIDE DEF row, links
<1>9. Active(row) /\ Exists(row) /\ row.kind \in Kinds
  BY <1>6, <1>7 DEF Active, Exists, Absent, Kinds
<1>10. \A l \in Links : ~Sets(i, l) /\ links[l] # None => links[l] = t[r].links[l]
  BY <1>7, OverlayParts DEF Sets
<1>11. \A l \in Links : links[l] # None => t[links[l]].kind = l /\ Active(t[links[l]])
  <2>1. \A l \in Links : links[l] # None /\ ~Sets(i, l) =>
          t[links[l]].kind = l /\ Active(t[links[l]])
    BY <1>8, <1>10 DEF Linking, Living
  <2>2. \A l \in Links : links[l] # None /\ Sets(i, l) => IsActive(w, l, links[l])
    BY <1>3, <1>4, <1>5 DEF BrandAsked
  <2> QED BY <2>1, <2>2 DEF IsActive
<1>12. Linking(t, "product", links) /\ Living(t, links)
  BY <1>11, LinkFacts DEF Linking, Living
<1>13. Fitting(t, links)
  <2>1. ASSUME links["brand"] # None
        PROVE  t[links["brand"]].links["manufacturer"] \in {None, links["manufacturer"]}
    <3>1. CASE BrandAsked(i)
      BY <1>4, <2>1, <3>1 DEF BrandFits
    <3>2. CASE ~BrandAsked(i)
      <4>1. "manufacturer" \notin DOMAIN i.links /\ ~Sets(i, "brand")
        BY <3>2 DEF BrandAsked, Sets, Clears
      <4>2. links["manufacturer"] = t[r].links["manufacturer"] /\ links["brand"] = t[r].links["brand"]
        BY <1>3, <1>7, <1>10, <2>1, <4>1, OverlayParts
      <4> QED BY <1>8, <2>1, <4>2 DEF Fitting
    <3> QED BY <3>1, <3>2
  <2>2. ASSUME NEW l \in {"subcategory", "third_category"}, links[l] # None,
               links[Parent[l]] # None
        PROVE  t[links[l]].links[Parent[l]] = links[Parent[l]]
    <3>1. CASE Sets(i, l) \/ Sets(i, Parent[l])
      BY <1>5, <2>2, <3>1 DEF LevelFits
    <3>2. CASE ~Sets(i, l) /\ ~Sets(i, Parent[l])
      <4>1. l \in Links /\ Parent[l] \in Links
        BY <1>3 DEF Parent
      <4>2. links[l] = t[r].links[l] /\ links[Parent[l]] = t[r].links[Parent[l]]
        BY <1>10, <2>2, <3>2, <4>1
      <4> QED BY <1>8, <2>2, <4>2 DEF Fitting, Parent
    <3> QED BY <3>1, <3>2
  <2>3. Parent["subcategory"] = "category" /\ Parent["third_category"] = "subcategory"
    BY DEF Parent
  <2> QED BY <2>1, <2>2, <2>3 DEF Fitting
<1>14. Sound(Put(t, r, row), s)
  BY <1>1, <1>2, <1>6, <1>7, <1>9, <1>12, <1>13, SoundAfter DEF links
<1> QED BY <1>4, <1>14 DEF row

LEMMA ProductLifecycleComplete ==
  ASSUME NEW t \in Tables, NEW s \in [Records -> 0..1], Sound(t, s),
         NEW i \in Lifecycle({"product"}),
         \A n \in 0..Queries(i) : LifecyclePasses(n, i, t[i.record], [rows |-> t, side |-> s])
  PROVE  Applies(i, t[i.record]) /\ Sound(Put(t, i.record, Edit(i, t[i.record])), s)
<1> DEFINE r == i.record
           row == Edit(i, t[r])
           w == [rows |-> t, side |-> s]
<1>1. r \in Records /\ t[r] \in Rows /\ i.kind = "product" /\ i.op \in {"archive", "restore"}
  BY DEF Lifecycle, Tables
<1>2. row \in Rows
  BY <1>1, EditMakesRows DEF Questions
<1>3. Links = {"manufacturer", "brand", "category", "subcategory", "third_category"}
  BY DEF Links, Masters, Levels
<1>4. LifecyclePasses(0, i, t[r], w) /\ LifecyclePasses(1, i, t[r], w)
  <2>1. 0 \in 0..Queries(i) /\ 1 \in 0..Queries(i)
    BY <1>1 DEF Queries
  <2> QED BY <2>1
<1>5. Applies(i, t[r])
  BY <1>4 DEF LifecyclePasses
<1>6. t[r].kind = "product" /\ t[r].status # "absent" /\ Exists(t[r])
  BY <1>1, <1>5 DEF Applies, Active, Exists, Absent
<1>7. Linking(t, "product", t[r].links) /\ Fitting(t, t[r].links)
  BY <1>1, <1>6, SoundRow
<1>8. row = [t[r] EXCEPT !.status = IF i.op = "archive" THEN "archived" ELSE "active"]
  BY <1>1 DEF Edit
<1> HIDE DEF row
<1>9. /\ row.kind = "product" /\ row.links = t[r].links /\ row.kind \in Kinds /\ Exists(row)
      /\ row.status = IF i.op = "archive" THEN "archived" ELSE "active"
  BY <1>1, <1>6, <1>8 DEF Rows, Exists, Absent, Kinds
<1>10. CASE i.op = "archive"
  <2>1. ~Active(row)
    BY <1>9, <1>10 DEF Active
  <2>2. ~(s[r] > 0)
    BY <1>4, <1>10 DEF LifecyclePasses
  <2>3. Sound(Put(t, r, row), s)
    BY <1>1, <1>2, <1>6, <1>7, <1>9, <2>1, <2>2, SoundAfter
  <2> QED BY <1>5, <2>3 DEF row
<1>11. CASE i.op = "restore"
  <2>1. Active(row)
    BY <1>9, <1>11 DEF Active
  <2>2. \A l \in Masters : t[r].links[l] # None => Active(t[t[r].links[l]])
    BY <1>4, <1>11 DEF LifecyclePasses, IsActive
  <2>3. PathActive(w, t[r].links)
    <3>1. 2 \in 0..Queries(i)
      BY <1>1, <1>11 DEF Queries
    <3>2. LifecyclePasses(2, i, t[r], w)
      BY <3>1
    <3> QED BY <1>11, <3>2 DEF LifecyclePasses
  <2>4. Living(t, t[r].links)
    BY <1>3, <2>2, <2>3 DEF PathActive, IsActive, Living, Masters
  <2>5. Sound(Put(t, r, row), s)
    BY <1>1, <1>2, <1>6, <1>7, <1>9, <2>1, <2>4, SoundAfter
  <2> QED BY <1>5, <2>5 DEF row
<1> QED BY <1>1, <1>10, <1>11

\* Queries that one state of the catalogue answers cover the Core's rules.
LEMMA RulesComplete == G!Complete
<1> SUFFICES ASSUME NEW t \in Tables, NEW s \in [Records -> 0..1], Sound(t, s),
                    NEW i \in Inputs, NEW r \in Records,
                    IF Target(i) = None THEN t[r] = Absent ELSE r = Target(i),
                    \A n \in 0..Queries(i) : Passes(n, i, t[r], [rows |-> t, side |-> s])
             PROVE  Applies(i, t[r]) /\ Sound(Put(t, r, Edit(i, t[r])), s)
  BY DEF G!Complete, G!CompleteAt, G!Creates, G!Held, Tables, Put
<1> DEFINE w == [rows |-> t, side |-> s]
<1>1. CASE i \in Creations
  <2>1. i.op = "create" /\ t[r] = Absent
    BY <1>1 DEF Creations, Target
  <2>2. Applies(i, t[r])
    BY <2>1 DEF Applies, Exists
  <2>3. CASE i.kind = "product"
    <3>1. \A n \in 0..6 : ProductCreatePasses(n, i, w)
      BY <2>1, <2>3 DEF Queries, Passes
    <3> QED BY <1>1, <2>1, <2>2, <2>3, <3>1, ProductCreationComplete
  <2>4. CASE i.kind # "product"
    <3>1. \A n \in 0..2 : MasterCreatePasses(n, i, w)
      BY <2>1, <2>4 DEF Queries, Passes
    <3> QED BY <1>1, <2>1, <2>2, <2>4, <3>1, MasterCreationComplete
  <2> QED BY <2>3, <2>4
<1>2. CASE i \in Updates
  <2>1. i.op = "update" /\ i.record = r
    BY <1>2, CatalogAssumption DEF Updates, Target
  <2>2. CASE i.kind = "product"
    <3>1. \A n \in 0..6 : ProductUpdatePasses(n, i, t[r], w)
      BY <2>1, <2>2 DEF Queries, Passes
    <3> QED BY <1>2, <2>1, <2>2, <3>1, ProductUpdateComplete
  <2>3. CASE i.kind # "product"
    <3>1. \A n \in 0..3 : MasterUpdatePasses(n, i, t[r], w)
      BY <2>1, <2>3 DEF Queries, Passes
    <3> QED BY <1>2, <2>1, <2>3, <3>1, MasterUpdateComplete
  <2> QED BY <2>2, <2>3
<1>3. CASE i \in Deletions
  <2>1. i.op = "delete" /\ i.record = r /\ i.kind # "product"
    BY <1>3, CatalogAssumption DEF Deletions, Target, Levels
  <2>2. \A n \in 0..1 : DeletePasses(n, i, t[r], w)
    BY <2>1 DEF Queries, Passes
  <2> QED BY <1>3, <2>1, <2>2, DeletionComplete
<1>4. CASE i \in Lifecycle({"product"})
  <2>1. i.op \in {"archive", "restore"} /\ i.record = r
    BY <1>4, CatalogAssumption DEF Lifecycle, Target
  <2>2. \A n \in 0..Queries(i) : LifecyclePasses(n, i, t[r], w)
    BY <2>1 DEF Passes
  <2> QED BY <1>4, <2>1, <2>2, ProductLifecycleComplete
<1> QED BY <1>1, <1>2, <1>3, <1>4 DEF Inputs, Questions

----------------------------------------------------------------------------
(* The specification of Catalog is the instance the theorems speak of.     *)

LEMMA SameInit == Init <=> G!Init
BY DEF Init, G!Init

LEMMA SameNext == Next <=> G!Next
BY DEF Next, G!Next, Review, G!Review, ReadRecord, G!ReadRecord, ReadStale, G!ReadStale,
       Check, G!Check, CoreWrites, G!CoreWrites, CoreRefuses, G!CoreRefuses,
       OtherWrites, G!OtherWrites, Acceptable, G!Acceptable, Write, G!Write, Changed, G!Changed,
       VersionConfirmed, G!VersionConfirmed, RowOf, G!RowOf, VersionOf, G!VersionOf,
       Creates, G!Creates, Held, G!Held, core, G!core, read, G!read

LEMMA SameStep == [Next]_vars <=> [G!Next]_G!vars
BY SameNext DEF vars, G!vars, core, G!core, read, G!read

LEMMA SameSpec == Spec => G!Spec
BY SameInit, SameStep, PTL DEF Spec, G!Spec

LEMMA SameOutcome == \A at : Outcome(at) = G!Outcome(at)
BY DEF Outcome, G!Outcome

LEMMA SamePromise ==
  /\ G!Promise!Init => Promise!Init
  /\ [G!Promise!Next]_(G!Promise!vars) => [Promise!Next]_(Promise!vars)
<1>1. G!Promise!Init => Promise!Init
  BY SameOutcome DEF G!Promise!Init, Promise!Init
<1>2. G!Promise!Next => Promise!Next
  BY SameOutcome
     DEF G!Promise!Next, Promise!Next, G!Promise!Review, Promise!Review, G!Promise!Write,
         Promise!Write, G!Promise!Decline, Promise!Decline, G!Promise!OtherWrites,
         Promise!OtherWrites, G!Promise!Replaces, Promise!Replaces
<1>3. UNCHANGED G!Promise!vars => UNCHANGED Promise!vars
  BY SameOutcome DEF G!Promise!vars, Promise!vars
<1> QED BY <1>1, <1>2, <1>3

\* A version that the user of a call reviewed stands for the row that was shown,
\* as long as it is current, and nothing else is sent for the catalogue.
THEOREM CatalogInvariant == Spec => []GuidedInv
<1>1. Spec => []G!GuidedInv
  BY SameSpec, RulesWellFormed, G!GuidedInvariant, PTL
<1>2. G!GuidedInv => GuidedInv
  <2>1. G!TypeOK => TypeOK
    BY DEF G!TypeOK, TypeOK, Steps, G!Steps, Answers, G!Answers
  <2>2. (G!Asked => Asked) /\ (G!Reviewed => Reviewed)
    BY DEF G!Asked, Asked, G!Reviewed, Reviewed, G!Under, Under, G!Creates, Creates
  <2>3. (G!Confirmed => Confirmed) /\ (G!Spent => Spent)
    BY DEF G!Confirmed, Confirmed, G!Spent, Spent, G!Creates, Creates
  <2> QED BY <2>1, <2>2, <2>3 DEF G!GuidedInv, GuidedInv
<1> QED BY <1>1, <1>2, PTL

\* No write of a record of the catalogue undoes what somebody else wrote after
\* the preview.
THEOREM CatalogReviewedOnly == Spec => ReviewedOnly
<1>1. Spec => G!ReviewedOnly
  BY SameSpec, RulesWellFormed, G!GuidedReviewedOnly, PTL
<1>2. G!ReviewedOnly => ReviewedOnly
  BY DEF G!ReviewedOnly, ReviewedOnly, Creates, G!Creates, vars, G!vars, core, G!core, read, G!read
<1> QED BY <1>1, <1>2, PTL

\* Of the calls that change one version of a record of the catalogue, at most one writes.
THEOREM CatalogOneWrite == Spec => []OneWritePerVersion
<1>1. Spec => []G!OneWritePerVersion
  BY SameSpec, RulesWellFormed, G!GuidedOneWrite, PTL
<1>2. G!OneWritePerVersion => OneWritePerVersion
  BY DEF G!OneWritePerVersion, OneWritePerVersion, Creates, G!Creates
<1> QED BY <1>1, <1>2, PTL
\* A change of the catalogue that its queries let pass is refused only when
\* something changed since: what the tools ask one by one is all the Core asks.
THEOREM CatalogReady == Spec => []ReadyIsAccepted
<1>1. Spec => []G!ReadyIsAccepted
  BY SameSpec, RulesWellFormed, RulesComplete, G!GuidedReady, PTL
<1>2. G!ReadyIsAccepted => ReadyIsAccepted
  BY DEF G!ReadyIsAccepted, ReadyIsAccepted
<1> QED BY <1>1, <1>2, PTL

\* In a catalogue that keeps the rules, a product whose records are active again
\* passes every query of the restoration.
LEMMA SoundIsRestorable ==
  ASSUME rows \in Tables, Sound(rows, side) PROVE ArchivedRestorable
<1> SUFFICES ASSUME NEW z \in Records, rows[z].kind = "product", rows[z].status = "archived",
                    Whole(rows[z].links),
                    \A l \in Links : rows[z].links[l] # None => Active(rows[rows[z].links[l]]),
                    NEW n \in 0..2
             PROVE  Passes(n, [op |-> "restore", kind |-> "product", record |-> z], rows[z],
                           Held(rows, side))
  BY DEF ArchivedRestorable
<1> DEFINE i == [op |-> "restore", kind |-> "product", record |-> z]
           w == Held(rows, side)
           links == rows[z].links
<1>1. i.op = "restore" /\ i.kind = "product" /\ i.record = z
  OBVIOUS
<1>2. w.rows = rows
  BY DEF Held
<1>3. Links = {"manufacturer", "brand", "category", "subcategory", "third_category"}
      /\ Parent["subcategory"] = "category" /\ Parent["third_category"] = "subcategory"
  BY DEF Links, Masters, Levels, Parent
<1>4. Linking(rows, "product", links) /\ Fitting(rows, links)
  <2>1. Exists(rows[z])
    BY DEF Exists, Absent
  <2> QED BY <2>1, SoundRow
<1> HIDE DEF i, w
<1>5. \A l \in Links : links[l] # None => IsActive(w, l, links[l])
  BY <1>2, <1>4 DEF Linking, IsActive
<1>6. Applies(i, rows[z])
  BY <1>1 DEF Applies
<1>7. PathActive(w, links)
  <2>1. \A l \in {"subcategory", "third_category"} :
          links[l] # None => links[Parent[l]] # None /\ LevelFits(w, links, l)
    BY <1>2, <1>3, <1>4 DEF Whole, Fitting, LevelFits
  <2> QED BY <1>3, <1>5, <2>1 DEF PathActive
<1>8. LifecyclePasses(n, i, rows[z], w)
  <2>1. CASE n = 0
    BY <1>6, <2>1 DEF LifecyclePasses
  <2>2. CASE n = 1
    BY <1>1, <1>2, <1>3, <1>5, <2>2 DEF LifecyclePasses, Masters
  <2>3. CASE n = 2
    BY <1>1, <1>2, <1>7, <2>3 DEF LifecyclePasses
  <2> QED BY <2>1, <2>2, <2>3
<1>9. Passes(n, i, rows[z], w)
  BY <1>1, <1>8 DEF Passes
<1> QED BY <1>9 DEF i, w

\* An archived product can be restored as soon as what it belongs to is active,
\* however the catalogue was rearranged while it was archived.
THEOREM CatalogRestorable == Spec => []ArchivedRestorable
<1>1. Spec => [](G!TypeOK /\ Sound(rows, side))
  BY SameSpec, RulesWellFormed, G!GuidedTypes, G!GuidedSound, PTL
<1>2. G!TypeOK /\ Sound(rows, side) => ArchivedRestorable
  BY SoundIsRestorable DEF G!TypeOK, Tables
<1> QED BY <1>1, <1>2, PTL

\* A change of a record of the catalogue acts at once on the row that was reviewed, or not
\* at all, although it is made of many transactions.
THEOREM CatalogActAtOnce == Spec => ActsAtOnce
<1>1. Spec => G!ActsAtOnce
  BY SameSpec, RulesWellFormed, G!GuidedActsAtOnce, PTL
<1>2. G!ActsAtOnce => ActsAtOnce
  BY SamePromise, PTL DEF G!ActsAtOnce, ActsAtOnce, G!Promise!Spec, Promise!Spec
<1> QED BY <1>1, <1>2, PTL
=============================================================================
