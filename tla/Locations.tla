----------------------------- MODULE Locations -----------------------------
(***************************************************************************)
(* Storage locations: warehouse.locations.create, update, archive and      *)
(* restore (tools_warehouse_location_create.go, _update.go, _lifecycle.go) *)
(* as guided writes.  Locations form a tree, carry a scan code and hold    *)
(* stock.                                                                  *)
(*                                                                         *)
(* Code, barcode and name are one code, unique among all locations; the    *)
(* stock of a location stands for devices, cases, quantities, open tasks   *)
(* and counts at it, none of which changes its version; its capacity is    *)
(* room, zero when it is not storable.                                     *)
(***************************************************************************)
EXTENDS Naturals, FiniteSets

CONSTANTS
  Calls, Records, None, MaxOthers,  \* see GuidedWrite
  Codes,     \* codes of locations
  Worlds     \* the locations and stock at the start, within the Core's rules

VARIABLES rows, side, version, pc, input, expected, shown, seen, seenVersion,
          step, disturbed, others

Absent == [status |-> "absent", parent |-> None, code |-> None, room |-> 0,
           former |-> None]

Statuses == {"absent", "available", "blocked", "counting", "archived"}

\* is_active: the other states are those of operational_status.
Active(row) == row.status \in {"available", "blocked", "counting"}
Exists(row) == row # Absent

\* The chain of parents of z in the table t (the recursive query).
Ancestors(t, z) ==
  {a \in Records : \A S \in SUBSET Records :
     (\A x \in S \cup {z} : t[x].parent \in S \cup {None}) => a \in S}

Descendants(t, z) == {d \in Records : z \in Ancestors(t, d)}

----------------------------------------------------------------------------
(* What can be asked.                                                      *)

Updates ==
  ([op : {"move"}, record : Records, parent : Records \cup {None}]
   \cup [op : {"rename"}, record : Records, code : Codes]
   \cup [op : {"resize"}, record : Records, room : 0..1])
Creations == [op : {"create"}, parent : Records \cup {None}, code : Codes, room : 0..1]
Lifecycle == [op : {"archive", "restore"}, record : Records]

Inputs == Updates \cup Creations \cup Lifecycle

\* Counting, and a change of an archived location, in the Core's own pages.
OtherInputs == [op : {"count", "retouch"}, record : Records]

Target(i) == IF i.op = "create" THEN None ELSE i.record

\* The status a location must have.
Applies(i, row) ==
  CASE i.op = "create" -> ~Exists(row)
    [] i.op = "archive" -> row.status \in {"available", "blocked"}
    [] i.op = "restore" -> row.status = "archived"
    [] i.op = "retouch" -> Exists(row) /\ ~Active(row)
    [] OTHER -> Active(row)

\* warehouseLocationRestoreStatusSQL: the status before an archiving that was
\* recorded and that nothing changed since, otherwise blocked.
RestoreStatus(row) == IF row.former \in {"available", "blocked"} THEN row.former ELSE "blocked"

\* The draft of the preview, and the row after it.
Edit(i, row) ==
  CASE i.op = "create" -> [Absent EXCEPT !.status = "available", !.parent = i.parent,
                                         !.code = i.code, !.room = i.room]
    [] i.op = "move"   -> [row EXCEPT !.parent = i.parent]
    [] i.op = "rename" -> [row EXCEPT !.code = i.code]
    [] i.op = "resize" -> [row EXCEPT !.room = i.room]
    [] i.op = "archive" -> [row EXCEPT !.status = "archived", !.former = row.status]
    [] i.op = "restore" -> [row EXCEPT !.status = RestoreStatus(row), !.former = None]
    [] i.op = "count"   -> [row EXCEPT !.status =
                              CASE @ = "available" -> "counting"
                                [] @ = "counting" -> "available"
                                [] OTHER -> @]
    [] i.op = "retouch" -> [row EXCEPT !.former = None]

----------------------------------------------------------------------------
(* The queries, in their order; each sees the records of its own moment.   *)

\* Mutant: the location itself may be among the ancestors of its new parent.
ParentOfUpdate_Cycle(w, i, row) ==
  row.parent # None =>
    \A a \in {row.parent} \cup Ancestors(w.rows, row.parent) : Active(w.rows[a])

\* The new parent and all above it are active, and none is the location.
ParentOfUpdate(w, i, row) ==
  row.parent # None =>
    \A a \in {row.parent} \cup Ancestors(w.rows, row.parent) :
      a # i.record /\ Active(w.rows[a])

\* Creation asks only for the parent itself.
ParentOfCreation(w, row) == row.parent # None => Active(w.rows[row.parent])

\* Stock forbids a smaller capacity, and a location that is not storable.
RoomForStock(w, i, row) == i.op = "resize" => w.side[i.record] <= row.room

Unused(w, own, row) == \A z \in Records \ own : Exists(w.rows[z]) => w.rows[z].code # row.code

\* Active descendants, stock and open work block archiving and restoring.
NoDependents(w, i) ==
  /\ w.side[i.record] = 0
  /\ \A d \in Descendants(w.rows, i.record) : ~Active(w.rows[d])

UpdatePasses(n, i, row, w) ==
  LET draft == Edit(i, row) IN
  CASE n = 0 -> draft # row /\ Applies(i, row)
    [] n = 1 -> ParentOfUpdate(w, i, draft)
    [] n = 2 -> RoomForStock(w, i, draft)
    [] n = 3 -> Unused(w, {i.record}, draft)

CreatePasses(n, i, w) ==
  LET draft == Edit(i, Absent) IN
  CASE n = 0 -> TRUE
    [] n = 1 -> ParentOfCreation(w, draft)
    [] n = 2 -> Unused(w, {}, draft)

LifecyclePasses(n, i, row, w) ==
  CASE n = 0 -> Applies(i, row)
    [] n = 1 -> NoDependents(w, i)
    [] n = 2 -> ParentOfUpdate(w, i, row)
    [] n = 3 -> Unused(w, {i.record}, row)

Queries(i) ==
  CASE i.op \in {"move", "rename", "resize", "restore"} -> 3
    [] i.op = "create" -> 2
    [] i.op = "archive" -> 1

Passes(n, i, row, w) ==
  CASE i.op = "create" -> CreatePasses(n, i, w)
    [] i.op \in {"archive", "restore"} -> LifecyclePasses(n, i, row, w)
    [] OTHER -> UpdatePasses(n, i, row, w)

----------------------------------------------------------------------------
(* The rules of WarehouseCore, external ("rechecks hierarchy and inventory *)
(* limits" in the same transaction).                                       *)

Sound(t, stock) ==
  \A z \in Records :
    IF Exists(t[z])
    THEN /\ t[z].parent # None => Exists(t[t[z].parent])
         /\ z \notin Ancestors(t, z)
         /\ Active(t[z]) => \A a \in Ancestors(t, z) : Active(t[a])
         /\ stock[z] > 0 => Active(t[z]) /\ stock[z] <= t[z].room
         /\ \A y \in Records \ {z} : Exists(t[y]) => t[y].code # t[z].code
    ELSE stock[z] = 0

Rows == [status : Statuses,
         parent : Records \cup {None}, code : Codes \cup {None}, room : 0..1,
         former : Statuses \cup {None}]

ASSUME LocationsAssumption ==
  /\ None \notin Nat
  /\ None \notin Records
  /\ MaxOthers \in Nat
  /\ \A w \in Worlds : /\ w.rows \in [Records -> Rows]
                       /\ w.side \in [Records -> 0..1]
                       /\ Sound(w.rows, w.side)

INSTANCE GuidedWrite
=============================================================================
