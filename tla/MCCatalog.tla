----------------------------- MODULE MCCatalog -----------------------------
(***************************************************************************)
(* Model values and bounds for Catalog.                                    *)
(***************************************************************************)
EXTENDS Catalog, FiniteSets, TLC

CONSTANTS m1, m2, b, k1, k2, s1, s2, t, pr, new, n1, n2, n3

\* Every kind, its parents twice, and room for one more record.
KindOf == m1 :> "manufacturer" @@ m2 :> "manufacturer" @@ b :> "brand"
  @@ k1 :> "category" @@ k2 :> "category" @@ s1 :> "subcategory" @@ s2 :> "subcategory"
  @@ t :> "third_category" @@ pr :> "product"

OfKind(kind) == {r \in DOMAIN KindOf : KindOf[r] = kind}

\* One link at a time, a product also two that belong together.
SmallChanges ==
  {<<>>} \cup UNION {{l :> r : r \in OfKind(l) \cup {None}} : l \in Links}
  \cup {"manufacturer" :> m @@ "brand" :> b : m \in {m1, m2}}
  \cup {"category" :> k @@ "subcategory" :> s1 : k \in {k1, k2}}
  \cup {"manufacturer" :> m1 @@ "category" :> k @@ l :> r :
          k \in {k1, k2}, l \in {"brand", "subcategory", "third_category"}, r \in {b, s1, t}}

\* Tools are asked about records of their kind; a change of a name and of links
\* is two changes.
Sensible ==
  {i \in Questions :
     /\ i.op # "create" => i.record \in OfKind(i.kind)
     /\ \A l \in DOMAIN (IF i.op \in {"create", "update"} THEN i.links ELSE <<>>) :
          i.links[l] \in OfKind(l) \cup {None}
     /\ i.op = "create" => i.name = n3
     /\ i.op = "update" =>
          /\ i.name \in {n2, n3} \/ (i.name = None /\ i.links # <<>>)
          /\ i.name # None => i.links = <<>>
          /\ Cardinality(DOMAIN i.links) <= 2}

\* The same set, which TLC then enumerates once.
SmallInputs == {i : i \in Sensible}

Row(kind, status, name, links) ==
  [kind |-> kind, status |-> status, name |-> name, links |-> Overlay(NoLinks, links)]

\* A catalogue whose brand belongs to owner, whose second subcategory is below
\* k2, and whose product has the links and the status given.
World(owner, brandStatus, thirdStatus, links, productStatus, jobs) ==
  [rows |->
     [r \in Records |->
        CASE r \in {m1, k1} -> Row(KindOf[r], "active", n1, <<>>)
          [] r \in {m2, k2} -> Row(KindOf[r], "active", n2, <<>>)
          [] r = b -> Row("brand", brandStatus, n1, "manufacturer" :> owner)
          [] r = s1 -> Row("subcategory", "active", n1, "category" :> k1)
          [] r = s2 -> Row("subcategory", "active", n2, "category" :> k2)
          [] r = t -> Row("third_category", thirdStatus, n1, "subcategory" :> s1)
          [] r = pr -> Row("product", productStatus, n1, links)
          [] OTHER -> Absent],
   side |-> [r \in Records |-> IF r = pr THEN jobs ELSE 0]]

Path == "category" :> k1 @@ "subcategory" :> s1 @@ "third_category" :> t
Maker == "manufacturer" :> m1 @@ "brand" :> b

StartWorlds ==
  {World(m1, "active", "active", Maker @@ Path, "active", 0),
   World(m1, "archived", "archived", Maker @@ Path, "archived", 0),
   World(m1, "active", "active",
         "manufacturer" :> m1 @@ "category" :> k1 @@ "subcategory" :> s1, "archived", 0),
   World(None, "active", "archived", "brand" :> b @@ "category" :> k2, "active", 1)}

CallSymmetry == Permutations(Calls)
=============================================================================
