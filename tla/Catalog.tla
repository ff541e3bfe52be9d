------------------------------ MODULE Catalog ------------------------------
(***************************************************************************)
(* The product catalogue: manufacturers, brands, three levels of           *)
(* categories and products, created, updated, deleted, archived and        *)
(* restored as guided writes (tools_warehouse_master_create.go,            *)
(* _master_update.go, _category_create.go, _category_update.go,            *)
(* _category_delete.go, _product_create.go, _product_update.go and         *)
(* _product_lifecycle.go).                                                 *)
(*                                                                         *)
(* A record links to records of other kinds, and a link has the name of    *)
(* the kind it points to: a brand links to its manufacturer, a product to  *)
(* all five.  Name, barcode and other identifiers are one name.  Open jobs *)
(* and packed devices of a product, which do not change its version, are   *)
(* side.  Details (texts, prices, units, tracking) and similar names are   *)
(* left out.  A new product names existing records, its manufacturer too;  *)
(* taking the manufacturer of the brand, and master data created with the  *)
(* product in the Core's transaction, are left out.                        *)
(***************************************************************************)
EXTENDS Naturals

CONSTANTS
  Calls, Records, None, MaxOthers,  \* see GuidedWrite
  Names,
  Changes,   \* links that one call may set, or clear with None: link -> record
  Tried,     \* the inputs of a run
  Worlds     \* the catalogue at the start, within the Core's rules

VARIABLES rows, side, version, pc, input, expected, shown, seen, seenVersion,
          step, disturbed, others

Masters == {"manufacturer", "brand"}
Levels == {"category", "subcategory", "third_category"}
Links == Masters \cup Levels
Kinds == Links \cup {"product"}

\* The links a kind has, and those of them that cannot be empty.
LinksOf(kind) ==
  CASE kind = "brand" -> {"manufacturer"}
    [] kind = "subcategory" -> {"category"}
    [] kind = "third_category" -> {"subcategory"}
    [] kind = "product" -> Links
    [] OTHER -> {}

Mandatory(kind) == IF kind \in Levels THEN LinksOf(kind) ELSE {}

\* What the creation tool insists on besides.
RequiredToCreate(kind) ==
  CASE kind = "brand" -> {"manufacturer"}
    [] kind = "product" -> {"manufacturer", "category"}
    [] OTHER -> Mandatory(kind)

NoLinks == [l \in Links |-> None]
Absent == [kind |-> "none", status |-> "absent", name |-> None, links |-> NoLinks]

Rows == [kind : Kinds \cup {"none"}, status : {"absent", "active", "archived"},
         name : Names \cup {None}, links : [Links -> Records \cup {None}]]

Exists(row) == row # Absent
Active(row) == row.status = "active"

----------------------------------------------------------------------------
(* What can be asked.                                                      *)

\* Linking is by id, of the table of the link.
Creations ==
  {i \in [op : {"create"}, kind : Kinds, name : Names, links : Changes] :
     DOMAIN i.links \subseteq LinksOf(i.kind)}

Updates ==
  {i \in [op : {"update"}, kind : Kinds, record : Records, name : Names \cup {None},
          links : Changes] : DOMAIN i.links \subseteq LinksOf(i.kind)}

Deletions == [op : {"delete"}, kind : Levels, record : Records]

Lifecycle(kinds) == [op : {"archive", "restore"}, kind : kinds, record : Records]

Questions == Creations \cup Updates \cup Deletions \cup Lifecycle({"product"})

Inputs == {i \in Tried : i \in Questions}

\* The Core prepares the archiving of the other kinds itself (OwnerTools).
OtherInputs == Lifecycle(Links)

Target(i) == IF i.op = "create" THEN None ELSE i.record

\* The table of the tool holds the row, with the status the tool is for.
Applies(i, row) ==
  /\ i.op # "create" => row.kind = i.kind
  /\ CASE i.op = "create" -> ~Exists(row)
       [] i.op = "restore" -> row.status = "archived"
       [] i.op = "delete" -> Exists(row)
       [] OTHER -> Active(row)

Overlay(links, change) ==
  [l \in Links |-> IF l \in DOMAIN change THEN change[l] ELSE links[l]]

\* The draft is the whole row that was read, with the fields that were named.
Edit(i, row) ==
  CASE i.op = "create" -> [kind |-> i.kind, status |-> "active", name |-> i.name,
                           links |-> Overlay(NoLinks, i.links)]
    [] i.op = "update" -> [row EXCEPT !.name = IF i.name = None THEN @ ELSE i.name,
                                      !.links = Overlay(@, i.links)]
    [] i.op = "delete" -> Absent
    [] i.op = "archive" -> [row EXCEPT !.status = "archived"]
    [] i.op = "restore" -> [row EXCEPT !.status = "active"]

Sets(i, l) == l \in DOMAIN i.links /\ i.links[l] # None
Clears(i, l) == l \in DOMAIN i.links /\ i.links[l] = None

----------------------------------------------------------------------------
(* The queries.  w is the catalogue of the moment.                         *)

IsActive(w, kind, z) == w.rows[z].kind = kind /\ Active(w.rows[z])

\* Everything above a record of a category level or a brand is active.
AncestryActive(w, row) ==
  \A l \in LinksOf(row.kind) :
    row.links[l] # None =>
      /\ IsActive(w, l, row.links[l])
      /\ \A m \in LinksOf(l) : IsActive(w, m, w.rows[row.links[l]].links[m])

\* Products that a record under another parent would contradict, whatever their
\* status.
Contradicted(w, z, draft) ==
  {p \in Records :
     LET links == w.rows[p].links IN
     /\ w.rows[p].kind = "product"
     /\ CASE draft.kind = "brand" ->
               links["brand"] = z /\ links["manufacturer"] # draft.links["manufacturer"]
          [] draft.kind = "subcategory" ->
               /\ \/ links["subcategory"] = z
                  \/ /\ links["third_category"] # None
                     /\ w.rows[links["third_category"]].links["subcategory"] = z
               /\ links["subcategory"] # z \/ links["category"] # draft.links["category"]
          [] draft.kind = "third_category" ->
               LET above == draft.links["subcategory"] IN
               /\ links["third_category"] = z
               /\ \/ links["subcategory"] # above
                  \/ links["category"] # w.rows[above].links["category"]
          [] OTHER -> FALSE}

\* Another parent is refused while products rely on the present one.
MoveAllowed(w, z, row, draft) == draft.links = row.links \/ Contradicted(w, z, draft) = {}

\* Names are unique under one parent, archived records included.
Unused(w, own, draft) ==
  \A z \in Records \ own :
    ~ /\ w.rows[z].kind = draft.kind
      /\ w.rows[z].name = draft.name
      /\ w.rows[z].links = draft.links

Given(draft, links) == \A l \in links : draft.links[l] # None

\* Creating a manufacturer, a brand or a category.
MasterCreatePasses(n, i, w) ==
  LET draft == Edit(i, Absent) IN
  CASE n = 0 -> Given(draft, RequiredToCreate(i.kind))
    [] n = 1 -> AncestryActive(w, draft)
    [] n = 2 -> Unused(w, {}, draft)

\* Updating one.
MasterUpdatePasses(n, i, row, w) ==
  LET draft == Edit(i, row) IN
  CASE n = 0 -> Applies(i, row) /\ draft # row /\ Given(draft, Mandatory(i.kind))
    [] n = 1 -> AncestryActive(w, draft)
    [] n = 2 -> MoveAllowed(w, i.record, row, draft)
    [] n = 3 -> Unused(w, {i.record}, draft)

\* Only a category that nothing is in is deleted.
DeletePasses(n, i, row, w) ==
  CASE n = 0 -> Applies(i, row)
    [] n = 1 -> \A z \in Records : w.rows[z].links[i.kind] # i.record

\* The brand belongs to the manufacturer, or to none.
BrandFits(w, links) ==
  LET owner == w.rows[links["brand"]].links["manufacturer"]
  IN owner \in {None, links["manufacturer"]}

Parent == [subcategory |-> "category", third_category |-> "subcategory"]

\* The level below belongs to the level the product names above it.
LevelFits(w, links, l) == w.rows[links[l]].links[Parent[l]] = links[Parent[l]]

\* A new product: each record it names, then the products with its name.
ProductCreatePasses(n, i, w) ==
  LET draft == Edit(i, Absent)
      links == draft.links
      named(l) == links[l] # None
  IN CASE n = 0 -> Given(draft, RequiredToCreate("product"))
       [] n = 1 -> IsActive(w, "manufacturer", links["manufacturer"])
       [] n = 2 -> named("brand") =>
                     IsActive(w, "brand", links["brand"]) /\ BrandFits(w, links)
       [] n = 3 -> IsActive(w, "category", links["category"])
       [] n \in {4, 5} ->
            LET l == IF n = 4 THEN "subcategory" ELSE "third_category" IN
            named(l) => /\ IsActive(w, l, links[l])
                        /\ AncestryActive(w, w.rows[links[l]])
                        /\ named(Parent[l]) => LevelFits(w, links, l)
       [] n = 6 -> \A p \in Records :
                     w.rows[p].kind = "product" /\ Active(w.rows[p]) => w.rows[p].name # i.name

\* Mutant: another manufacturer leaves the brand unchecked.
BrandAsked_OnlyWithBrand(i) == Sets(i, "brand")

\* The changes after which the brand is read again.
BrandAsked(i) == Sets(i, "brand") \/ Sets(i, "manufacturer") \/ Clears(i, "manufacturer")

\* An updated product: what a change may contradict.  A level is read again
\* when it or the level above is set, not when the level above is cleared.
ProductUpdatePasses(n, i, row, w) ==
  LET draft == Edit(i, row)
      links == draft.links
      named(l) == links[l] # None
  IN CASE n = 0 -> Applies(i, row) /\ draft # row
       [] n = 1 -> Sets(i, "category") => IsActive(w, "category", links["category"])
       [] n = 2 -> Sets(i, "manufacturer") =>
                     IsActive(w, "manufacturer", links["manufacturer"])
       [] n = 3 -> BrandAsked(i) /\ named("brand") =>
                     IsActive(w, "brand", links["brand"]) /\ BrandFits(w, links)
       [] n \in {4, 5} ->
            LET l == IF n = 4 THEN "subcategory" ELSE "third_category" IN
            (Sets(i, l) \/ Sets(i, Parent[l])) /\ named(l) =>
              IsActive(w, l, links[l]) /\ LevelFits(w, links, l)
       [] n = 6 -> i.name = None \/
                   \A p \in Records \ {i.record} :
                     w.rows[p].kind = "product" => w.rows[p].name # i.name

\* Mutant: the third level is compared with the first.
PathActive_WrongLevel(w, links) ==
  /\ links["category"] # None => IsActive(w, "category", links["category"])
  /\ \A l \in {"subcategory", "third_category"} :
       links[l] # None =>
         /\ IsActive(w, l, links[l])
         /\ w.rows[links[l]].links[Parent[l]] = links["category"]

\* The levels a product names are active, together with all above them, and
\* belong to each other.
PathActive(w, links) ==
  /\ links["category"] # None => IsActive(w, "category", links["category"])
  /\ \A l \in {"subcategory", "third_category"} :
       links[l] # None =>
         /\ IsActive(w, l, links[l])
         /\ links[Parent[l]] # None
         /\ LevelFits(w, links, l)

\* Archiving a product: open jobs and packed devices.  Restoring it: the record
\* is read again, with its masters and its levels.
LifecyclePasses(n, i, row, w) ==
  LET p == w.rows[i.record] IN
  CASE n = 0 -> Applies(i, row)
    [] n = 1 /\ i.op = "archive" -> w.side[i.record] = 0
    [] n = 1 /\ i.op = "restore" ->
         /\ p.kind = "product"
         /\ \A l \in Masters : p.links[l] # None => IsActive(w, l, p.links[l])
    [] n = 2 -> p.kind = "product" /\ PathActive(w, p.links)

Queries(i) ==
  IF i.kind = "product" /\ i.op \in {"create", "update"} THEN 6
  ELSE CASE i.op = "create" -> 2
         [] i.op = "update" -> 3
         [] i.op = "restore" -> 2
         [] OTHER -> 1

Passes(n, i, row, w) ==
  CASE i.op = "create" /\ i.kind # "product" -> MasterCreatePasses(n, i, w)
    [] i.op = "create" /\ i.kind = "product" -> ProductCreatePasses(n, i, w)
    [] i.op = "update" /\ i.kind # "product" -> MasterUpdatePasses(n, i, row, w)
    [] i.op = "update" /\ i.kind = "product" -> ProductUpdatePasses(n, i, row, w)
    [] i.op = "delete" -> DeletePasses(n, i, row, w)
    [] i.op \in {"archive", "restore"} -> LifecyclePasses(n, i, row, w)

----------------------------------------------------------------------------
(* The rules of WarehouseCore, external: what the tools announce and their *)
(* queries ask.                                                            *)

\* Links lead to records of their kind, from an active record to active ones.
LinksSound(t, z) ==
  \A l \in Links :
    /\ t[z].links[l] # None =>
         /\ l \in LinksOf(t[z].kind)
         /\ t[t[z].links[l]].kind = l
         /\ Active(t[z]) => Active(t[t[z].links[l]])
    /\ l \in Mandatory(t[z].kind) => t[z].links[l] # None

\* The records a product names belong to each other, also when it is archived;
\* a level may be named without the one above it.
ProductSound(t, z) ==
  LET links == t[z].links
      w == [rows |-> t]
  IN /\ links["brand"] # None => BrandFits(w, links)
     /\ \A l \in {"subcategory", "third_category"} :
          links[l] # None /\ links[Parent[l]] # None => LevelFits(w, links, l)

Sound(t, jobs) ==
  \A z \in Records :
    /\ Exists(t[z]) =>
         /\ t[z].kind \in Kinds
         /\ LinksSound(t, z)
         /\ IF t[z].kind = "product" THEN ProductSound(t, z) ELSE Unused([rows |-> t], {z}, t[z])
    /\ jobs[z] > 0 => t[z].kind = "product" /\ Active(t[z])

ASSUME CatalogAssumption ==
  /\ None \notin Nat
  /\ None \notin Records
  /\ MaxOthers \in Nat
  /\ \A c \in Changes : DOMAIN c \subseteq Links /\ \A l \in DOMAIN c : c[l] \in Records \cup {None}
  /\ \A w \in Worlds : /\ w.rows \in [Records -> Rows]
                       /\ w.side \in [Records -> 0..1]
                       /\ Sound(w.rows, w.side)

INSTANCE GuidedWrite

----------------------------------------------------------------------------
(* Properties.                                                             *)

\* Every level is named together with the one above it.
Whole(links) ==
  \A l \in {"subcategory", "third_category"} : links[l] # None => links[Parent[l]] # None

\* A product keeps its path while it is archived, and the tool asks to restore
\* the hierarchy first ("historische Produktpfade bleiben erhalten").  When all
\* it names is active again the restoration passes, whatever was moved, cleared
\* or deleted meanwhile; a level without the one above it is the exception.
ArchivedRestorable ==
  \A z \in Records :
    LET p == rows[z] IN
    /\ p.kind = "product" /\ p.status = "archived" /\ Whole(p.links)
    /\ \A l \in Links : p.links[l] # None => Active(rows[p.links[l]])
    => \A n \in 0..2 :
         Passes(n, [op |-> "restore", kind |-> "product", record |-> z], p, Held(rows, side))
=============================================================================
