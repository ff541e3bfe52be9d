-------------------------- MODULE LocationsProofs --------------------------
(***************************************************************************)
(* The rules of storage locations are well formed, and their queries       *)
(* complete, so the theorems about guided writes hold of them, for any     *)
(* number of locations and calls.                                          *)
(***************************************************************************)
EXTENDS Locations, TLAPS

G == INSTANCE GuidedWriteProofs

\* The rows an input writes are rows.
LEMMA EditKeepsRows ==
  ASSUME NEW i \in Inputs \cup OtherInputs, NEW row \in Rows PROVE Edit(i, row) \in Rows
<1>1. CASE i \in Creations
  BY <1>1 DEF Creations, Rows, Edit, Absent, Statuses
<1>2. CASE i \in [op : {"move"}, record : Records, parent : Records \cup {None}]
  BY <1>2 DEF Rows, Edit
<1>3. CASE i \in [op : {"rename"}, record : Records, code : Codes]
  BY <1>3 DEF Rows, Edit
<1>4. CASE i \in [op : {"resize"}, record : Records, room : 0..1]
  BY <1>4 DEF Rows, Edit
<1>5. CASE i \in Lifecycle
  BY <1>5 DEF Lifecycle, Rows, Edit, RestoreStatus, Statuses
<1>6. CASE i \in OtherInputs
  BY <1>6 DEF OtherInputs, Rows, Edit, Statuses
<1> QED BY <1>1, <1>2, <1>3, <1>4, <1>5, <1>6 DEF Inputs, Updates

LEMMA TargetIsRecord == ASSUME NEW i \in Inputs PROVE Target(i) \in Records \cup {None}
BY DEF Inputs, Updates, Creations, Lifecycle, Target

LEMMA QueriesCounted == ASSUME NEW i \in Inputs PROVE Queries(i) \in Nat
BY DEF Inputs, Updates, Creations, Lifecycle, Queries

LEMMA CreatedAnew ==
  ASSUME NEW i \in Inputs, NEW row, Target(i) = None, Applies(i, row) PROVE row = Absent
BY LocationsAssumption DEF Inputs, Updates, Creations, Lifecycle, Target, Applies, Exists

LEMMA RulesWellFormed == G!WellFormed
BY LocationsAssumption, EditKeepsRows, TargetIsRecord, CreatedAnew, QueriesCounted
   DEF G!WellFormed, G!Creates, Rows, Absent, Statuses

----------------------------------------------------------------------------
(* The chain of parents is the least set that leads from one to the next.  *)

Tables == [Records -> Rows]

Closed(t, S, z) == \A x \in S \cup {z} : t[x].parent \in S \cup {None}

LEMMA ParentIsRecord ==
  ASSUME NEW t \in Tables, NEW x \in Records PROVE t[x].parent \in Records \cup {None}
BY DEF Tables, Rows

LEMMA AncestorsAreLeast ==
  ASSUME NEW t, NEW z, NEW S \in SUBSET Records, Closed(t, S, z) PROVE Ancestors(t, z) \subseteq S
BY DEF Ancestors, Closed

LEMMA AncestorsAreClosed ==
  ASSUME NEW t \in Tables, NEW z \in Records PROVE Closed(t, Ancestors(t, z), z)
<1> SUFFICES ASSUME NEW x \in Ancestors(t, z) \cup {z}, t[x].parent # None
             PROVE  t[x].parent \in Ancestors(t, z)
  BY DEF Closed
<1>1. x \in Records /\ t[x].parent \in Records
  BY ParentIsRecord DEF Ancestors
<1>2. ASSUME NEW S \in SUBSET Records, \A y \in S \cup {z} : t[y].parent \in S \cup {None}
      PROVE  t[x].parent \in S
  <2>1. x \in S \cup {z}
    BY <1>2 DEF Ancestors
  <2> QED BY <1>2, <2>1
<1> QED BY <1>1, <1>2 DEF Ancestors

\* Above an ancestor there are ancestors only.
LEMMA AncestorsOfAncestor ==
  ASSUME NEW t \in Tables, NEW z \in Records, NEW x \in Ancestors(t, z) \cup {z}
  PROVE  Ancestors(t, x) \subseteq Ancestors(t, z)
<1>1. Ancestors(t, z) \in SUBSET Records
  BY DEF Ancestors
<1>2. Closed(t, Ancestors(t, z), x)
  BY AncestorsAreClosed DEF Closed
<1> QED BY <1>1, <1>2, AncestorsAreLeast

LEMMA ParentIsAncestor ==
  ASSUME NEW t \in Tables, NEW z \in Records, t[z].parent # None
  PROVE  t[z].parent \in Ancestors(t, z)
BY AncestorsAreClosed DEF Closed

----------------------------------------------------------------------------
(* The chains of parents when one row is replaced.                         *)

Put(t, r, row) == [t EXCEPT ![r] = row]

LEMMA PutIsTable ==
  ASSUME NEW t \in Tables, NEW r \in Records, NEW row \in Rows
  PROVE  /\ Put(t, r, row) \in Tables
         /\ \A z \in Records : Put(t, r, row)[z] = IF z = r THEN row ELSE t[z]
BY DEF Tables, Put

\* Without another parent all chains stay.
LEMMA SameParent ==
  ASSUME NEW t \in Tables, NEW r \in Records, NEW row \in Rows, row.parent = t[r].parent,
         NEW z \in Records
  PROVE  Ancestors(Put(t, r, row), z) = Ancestors(t, z)
<1>1. \A x \in Records : Put(t, r, row)[x].parent = t[x].parent
  BY PutIsTable
<1> HIDE DEF Put
<1> QED BY <1>1 DEF Ancestors

\* Below r, the chain leads on to the new parent's.
LEMMA OtherParent ==
  ASSUME NEW t \in Tables, NEW r \in Records, NEW row \in Rows, NEW z \in Records,
         NEW p \in Records, row.parent = p, r \notin {p} \cup Ancestors(t, p)
  PROVE  /\ Ancestors(Put(t, r, row), z) \subseteq Ancestors(t, z) \cup {p} \cup Ancestors(t, p)
         /\ r \notin {z} \cup Ancestors(t, z) => Ancestors(Put(t, r, row), z) \subseteq Ancestors(t, z)
         /\ z = r => Ancestors(Put(t, r, row), z) \subseteq {p} \cup Ancestors(t, p)
<1> DEFINE u == Put(t, r, row)
<1>1. \A x \in Records : u[x].parent = IF x = r THEN p ELSE t[x].parent
  BY PutIsTable
<1>2. /\ Ancestors(t, z) \in SUBSET Records
      /\ Ancestors(t, z) \cup {p} \cup Ancestors(t, p) \in SUBSET Records
      /\ {p} \cup Ancestors(t, p) \in SUBSET Records
  BY DEF Ancestors
<1>3. Closed(t, Ancestors(t, z), z) /\ Closed(t, Ancestors(t, p), p)
  BY AncestorsAreClosed
<1> HIDE DEF u
<1>4. Closed(u, Ancestors(t, z) \cup {p} \cup Ancestors(t, p), z)
  BY <1>1, <1>2, <1>3 DEF Closed
<1>5. ASSUME r \notin {z} \cup Ancestors(t, z) PROVE Closed(u, Ancestors(t, z), z)
  BY <1>1, <1>2, <1>3, <1>5 DEF Closed
<1>6. ASSUME z = r PROVE Closed(u, {p} \cup Ancestors(t, p), z)
  BY <1>1, <1>2, <1>3, <1>6 DEF Closed
<1> QED BY <1>2, <1>4, <1>5, <1>6, AncestorsAreLeast DEF u

\* A location without a parent ends the chains that reach it.
LEMMA NoParent ==
  ASSUME NEW t \in Tables, NEW r \in Records, NEW row \in Rows, NEW z \in Records,
         row.parent = None
  PROVE  /\ Ancestors(Put(t, r, row), z) \subseteq Ancestors(t, z)
         /\ z = r => Ancestors(Put(t, r, row), z) = {}
<1> DEFINE u == Put(t, r, row)
<1>1. \A x \in Records : u[x].parent = IF x = r THEN None ELSE t[x].parent
  BY PutIsTable
<1>2. Ancestors(t, z) \in SUBSET Records /\ {} \in SUBSET Records
  BY DEF Ancestors
<1>3. Closed(t, Ancestors(t, z), z)
  BY AncestorsAreClosed
<1> HIDE DEF u
<1>4. Closed(u, Ancestors(t, z), z)
  BY <1>1, <1>2, <1>3 DEF Closed
<1>5. ASSUME z = r PROVE Closed(u, {}, z)
  BY <1>1, <1>5 DEF Closed
<1> QED BY <1>2, <1>4, <1>5, AncestorsAreLeast DEF u

----------------------------------------------------------------------------
(* The queries of a call cover the rules of the Core.                      *)

TreeKept(t) ==
  \A z \in Records :
    Exists(t[z]) => /\ z \notin Ancestors(t, z)
                    /\ Active(t[z]) => \A a \in Ancestors(t, z) : Active(t[a])

LEMMA ActiveExists == ASSUME NEW row, Active(row) PROVE Exists(row)
BY DEF Active, Exists, Absent

\* What is asked of the row that is replaced, when the tree is kept.
LEMMA SoundAfter ==
  ASSUME NEW t \in Tables, NEW s \in [Records -> 0..1], Sound(t, s),
         NEW r \in Records, NEW row \in Rows, Exists(row),
         row.parent # None => Exists(t[row.parent]),
         TreeKept(Put(t, r, row)),
         s[r] > 0 => Active(row) /\ s[r] <= row.room,
         \A y \in Records \ {r} : Exists(t[y]) => t[y].code # row.code
  PROVE  Sound(Put(t, r, row), s)
<1> DEFINE u == Put(t, r, row)
<1>1. \A z \in Records : u[z] = IF z = r THEN row ELSE t[z]
  BY PutIsTable
<1> HIDE DEF u
<1>2. ASSUME NEW z \in Records, Exists(u[z])
      PROVE  /\ u[z].parent # None => Exists(u[u[z].parent])
             /\ s[z] > 0 => Active(u[z]) /\ s[z] <= u[z].room
             /\ \A y \in Records \ {z} : Exists(u[y]) => u[y].code # u[z].code
  <2>1. u[z].parent \in Records \cup {None} /\ t[z].parent \in Records \cup {None}
    BY <1>1, ParentIsRecord DEF Rows
  <2>2. CASE z = r
    BY <1>1, <1>2, <2>1, <2>2
  <2>3. CASE z # r
    <3>1. Exists(t[z]) /\ u[z] = t[z]
      BY <1>1, <1>2, <2>3
    <3>2. /\ t[z].parent # None => Exists(t[t[z].parent])
          /\ s[z] > 0 => Active(t[z]) /\ s[z] <= t[z].room
          /\ \A y \in Records \ {z} : Exists(t[y]) => t[y].code # t[z].code
      BY <3>1 DEF Sound
    <3> QED BY <1>1, <2>1, <2>3, <3>1, <3>2
  <2> QED BY <2>2, <2>3
<1>3. ASSUME NEW z \in Records, ~Exists(u[z]) PROVE s[z] = 0
  BY <1>1, <1>3 DEF Sound
<1>4. \A z \in Records : Exists(u[z]) =>
        /\ z \notin Ancestors(u, z)
        /\ Active(u[z]) => \A a \in Ancestors(u, z) : Active(u[a])
  BY DEF TreeKept, u
<1>5. Sound(u, s)
  BY <1>2, <1>3, <1>4 DEF Sound
<1> QED BY <1>5 DEF u

\* A location that stays where it is, and becomes active only below active
\* ones, inactive only above inactive ones.
LEMMA StayKeepsTree ==
  ASSUME NEW t \in Tables, NEW s, Sound(t, s), NEW r \in Records, NEW row \in Rows,
         Exists(t[r]), row.parent = t[r].parent,
         Active(row) => \A a \in Ancestors(t, r) : Active(t[a]),
         ~Active(row) => \A d \in Descendants(t, r) : ~Active(t[d])
  PROVE  TreeKept(Put(t, r, row))
<1> DEFINE u == Put(t, r, row)
<1>1. \A z \in Records : u[z] = IF z = r THEN row ELSE t[z]
  BY PutIsTable
<1>2. \A z \in Records : Ancestors(u, z) = Ancestors(t, z)
  BY SameParent
<1> HIDE DEF u
<1>3. ASSUME NEW z \in Records, Exists(u[z]) PROVE z \notin Ancestors(u, z)
  BY <1>1, <1>2, <1>3 DEF Sound
<1>4. ASSUME NEW z \in Records, Active(u[z]), NEW a \in Ancestors(t, z) PROVE Active(u[a])
  <2>1. a \in Records
    BY DEF Ancestors
  <2>2. CASE z = r
    <3>1. a # r
      BY <1>4, <2>2 DEF Sound
    <3> QED BY <1>1, <1>4, <2>1, <2>2, <3>1
  <2>3. CASE z # r
    <3>1. Active(t[z]) /\ Active(t[a])
      BY <1>1, <1>4, <2>3, ActiveExists DEF Sound
    <3>2. a = r => Active(row)
      BY <3>1 DEF Descendants
    <3> QED BY <1>1, <2>1, <3>1, <3>2
  <2> QED BY <2>2, <2>3
<1>5. TreeKept(u)
  BY <1>2, <1>3, <1>4 DEF TreeKept
<1> QED BY <1>5 DEF u

\* An active location below active ones, none of which is the location itself.
LEMMA MoveKeepsTree ==
  ASSUME NEW t \in Tables, NEW s, Sound(t, s), NEW r \in Records, NEW row \in Rows,
         Active(row),
         row.parent # None =>
           \A a \in {row.parent} \cup Ancestors(t, row.parent) : a # r /\ Active(t[a])
  PROVE  TreeKept(Put(t, r, row))
<1> DEFINE u == Put(t, r, row)
<1>1. \A z \in Records : u[z] = IF z = r THEN row ELSE t[z]
  BY PutIsTable
<1>2. CASE row.parent = None
  <2>1. \A z \in Records : /\ Ancestors(u, z) \subseteq Ancestors(t, z)
                           /\ z = r => Ancestors(u, z) = {}
    BY <1>2, NoParent
  <2> HIDE DEF u
  <2>2. \A z \in Records \ {r} : Exists(u[z]) =>
          /\ z \notin Ancestors(t, z)
          /\ Active(u[z]) => \A a \in Ancestors(t, z) : Active(t[a])
    BY <1>1 DEF Sound
  <2>3. \A z \in Records : Ancestors(t, z) \subseteq Records
    BY DEF Ancestors
  <2>4. TreeKept(u)
    BY <1>1, <2>1, <2>2, <2>3 DEF TreeKept
  <2> QED BY <2>4 DEF u
<1>3. CASE row.parent # None
  <2> DEFINE p == row.parent
  <2>1. p \in Records
    BY <1>3 DEF Rows
  <2>2. r \notin {p} \cup Ancestors(t, p) /\ \A a \in {p} \cup Ancestors(t, p) : Active(t[a])
    BY <1>3
  <2>3. \A z \in Records :
          /\ Ancestors(u, z) \subseteq Ancestors(t, z) \cup {p} \cup Ancestors(t, p)
          /\ r \notin {z} \cup Ancestors(t, z) => Ancestors(u, z) \subseteq Ancestors(t, z)
          /\ z = r => Ancestors(u, z) \subseteq {p} \cup Ancestors(t, p)
    BY <2>1, <2>2, OtherParent
  <2>4. \A z \in Records : Ancestors(t, z) \subseteq Records
    BY DEF Ancestors
  <2> HIDE DEF u, p
  <2>5. ASSUME NEW z \in Records, z # r, Exists(u[z])
        PROVE  /\ z \notin Ancestors(u, z)
               /\ Active(u[z]) => \A a \in Ancestors(u, z) : Active(u[a])
    <3>1. /\ u[z] = t[z] /\ z \notin Ancestors(t, z)
          /\ Active(t[z]) => \A a \in Ancestors(t, z) : Active(t[a])
      BY <1>1, <2>5 DEF Sound
    <3>2. r \in Ancestors(t, z) => z \notin {p} \cup Ancestors(t, p)
      BY <2>1, <2>2, AncestorsOfAncestor
    <3>3. z \notin Ancestors(u, z)
      BY <2>3, <2>5, <3>1, <3>2
    <3>4. ASSUME Active(u[z]), NEW a \in Ancestors(u, z) PROVE Active(u[a])
      BY <1>1, <2>1, <2>2, <2>3, <2>4, <3>1, <3>4
    <3> QED BY <3>3, <3>4
  <2>6. r \notin Ancestors(u, r) /\ \A a \in Ancestors(u, r) : Active(u[a])
    BY <1>1, <2>1, <2>2, <2>3, <2>4
  <2>7. TreeKept(u)
    BY <2>5, <2>6 DEF TreeKept
  <2> QED BY <2>7 DEF u
<1> QED BY <1>2, <1>3

LEMMA ActiveAbove ==
  ASSUME NEW t \in Tables, NEW s, Sound(t, s), NEW z \in Records, Active(t[z])
  PROVE  \A a \in Ancestors(t, z) : Active(t[a])
BY ActiveExists DEF Sound

LEMMA CreationComplete ==
  ASSUME NEW t \in Tables, NEW s \in [Records -> 0..1], Sound(t, s), NEW r \in Records,
         NEW i \in Creations, t[r] = Absent,
         \A n \in 0..2 : CreatePasses(n, i, [rows |-> t, side |-> s])
  PROVE  Sound(Put(t, r, Edit(i, Absent)), s)
<1> DEFINE row == Edit(i, Absent)
<1>1. row = [Absent EXCEPT !.status = "available", !.parent = i.parent, !.code = i.code,
                           !.room = i.room]
  BY DEF Creations, Edit
<1>2. row \in Rows /\ Active(row)
  <2>1. Absent \in Rows
    BY DEF Absent, Rows, Statuses
  <2>2. row \in Rows
    BY <2>1, EditKeepsRows DEF Inputs
  <2>3. row.status = "available"
    BY <1>1 DEF Absent
  <2> QED BY <2>2, <2>3 DEF Active
<1>3. ParentOfCreation([rows |-> t, side |-> s], row) /\ Unused([rows |-> t, side |-> s], {}, row)
  <2>1. CreatePasses(1, i, [rows |-> t, side |-> s]) /\ CreatePasses(2, i, [rows |-> t, side |-> s])
    OBVIOUS
  <2> QED BY <2>1 DEF CreatePasses
<1> HIDE DEF row
<1>4. ~Active(t[r]) /\ ~Exists(t[r])
  BY DEF Active, Exists, Absent
<1>5. ASSUME row.parent # None
      PROVE  /\ Exists(t[row.parent])
             /\ \A a \in {row.parent} \cup Ancestors(t, row.parent) : a # r /\ Active(t[a])
  <2>1. row.parent \in Records /\ Active(t[row.parent])
    BY <1>2, <1>3, <1>5 DEF Rows, ParentOfCreation
  <2>2. \A a \in {row.parent} \cup Ancestors(t, row.parent) : Active(t[a])
    BY <2>1, ActiveAbove
  <2> QED BY <1>4, <2>1, <2>2, ActiveExists
<1>6. TreeKept(Put(t, r, row))
  BY <1>2, <1>5, MoveKeepsTree
<1>7. s[r] = 0
  BY <1>4 DEF Sound
<1>8. \A y \in Records \ {r} : Exists(t[y]) => t[y].code # row.code
  BY <1>3 DEF Unused
<1>9. Sound(Put(t, r, row), s)
  BY <1>2, <1>5, <1>6, <1>7, <1>8, ActiveExists, SoundAfter
<1> QED BY <1>9 DEF row

LEMMA UpdateComplete ==
  ASSUME NEW t \in Tables, NEW s \in [Records -> 0..1], Sound(t, s), NEW i \in Updates,
         \A n \in 0..3 : UpdatePasses(n, i, t[i.record], [rows |-> t, side |-> s])
  PROVE  Applies(i, t[i.record]) /\ Sound(Put(t, i.record, Edit(i, t[i.record])), s)
<1> DEFINE r == i.record
           row == Edit(i, t[r])
           w == [rows |-> t, side |-> s]
<1>1. r \in Records /\ t[r] \in Rows
  BY DEF Updates, Tables
<1>2. row \in Rows
  BY <1>1, EditKeepsRows DEF Inputs
<1>3. Applies(i, t[r]) /\ ParentOfUpdate(w, i, row) /\ RoomForStock(w, i, row) /\ Unused(w, {r}, row)
  <2>1. /\ UpdatePasses(0, i, t[r], w) /\ UpdatePasses(1, i, t[r], w)
        /\ UpdatePasses(2, i, t[r], w) /\ UpdatePasses(3, i, t[r], w)
    OBVIOUS
  <2> QED BY <2>1 DEF UpdatePasses
<1>4. Active(t[r]) /\ Active(row) /\ (i.op # "resize" => row.room = t[r].room)
  BY <1>1, <1>3 DEF Updates, Applies, Edit, Active, Rows
<1> HIDE DEF row
<1>5. row.parent # None =>
        \A a \in {row.parent} \cup Ancestors(t, row.parent) : a # r /\ Active(t[a])
  BY <1>3 DEF ParentOfUpdate
<1>6. TreeKept(Put(t, r, row))
  BY <1>1, <1>2, <1>4, <1>5, MoveKeepsTree
<1>7. row.parent # None => Exists(t[row.parent])
  BY <1>5, ActiveExists
<1>8. s[r] > 0 => s[r] <= row.room
  <2>1. s[r] > 0 => s[r] <= t[r].room
    BY <1>1, <1>4, ActiveExists DEF Sound
  <2> QED BY <1>3, <1>4, <2>1 DEF RoomForStock
<1>9. \A y \in Records \ {r} : Exists(t[y]) => t[y].code # row.code
  BY <1>3 DEF Unused
<1>10. Sound(Put(t, r, row), s)
  BY <1>1, <1>2, <1>4, <1>6, <1>7, <1>8, <1>9, ActiveExists, SoundAfter
<1> QED BY <1>3, <1>10 DEF row

LEMMA LifecycleComplete ==
  ASSUME NEW t \in Tables, NEW s \in [Records -> 0..1], Sound(t, s), NEW i \in Lifecycle,
         \A n \in 0..Queries(i) : LifecyclePasses(n, i, t[i.record], [rows |-> t, side |-> s])
  PROVE  Applies(i, t[i.record]) /\ Sound(Put(t, i.record, Edit(i, t[i.record])), s)
<1> DEFINE r == i.record
           row == Edit(i, t[r])
           w == [rows |-> t, side |-> s]
<1>1. r \in Records /\ t[r] \in Rows
  BY DEF Lifecycle, Tables
<1>2. row \in Rows
  BY <1>1, EditKeepsRows DEF Inputs
<1>3. Applies(i, t[r]) /\ NoDependents(w, i)
  <2>1. 0 \in 0..Queries(i) /\ 1 \in 0..Queries(i)
    BY DEF Lifecycle, Queries
  <2>2. LifecyclePasses(0, i, t[r], w) /\ LifecyclePasses(1, i, t[r], w)
    BY <2>1
  <2> QED BY <2>2 DEF LifecyclePasses
<1>4. CASE i.op = "archive"
  <2>1. row = [t[r] EXCEPT !.status = "archived", !.former = t[r].status]
    BY <1>4 DEF Edit
  <2>2. t[r].status \in {"available", "blocked"}
    BY <1>3, <1>4 DEF Applies
  <2> HIDE DEF row
  <2>3. /\ row.status = "archived" /\ row.parent = t[r].parent /\ row.code = t[r].code
    BY <1>1, <2>1 DEF Rows
  <2>4. ~Active(row) /\ Exists(row) /\ Exists(t[r])
    BY <2>2, <2>3 DEF Active, Exists, Absent
  <2>5. \A d \in Descendants(t, r) : ~Active(t[d])
    BY <1>3 DEF NoDependents
  <2>6. TreeKept(Put(t, r, row))
    BY <1>1, <1>2, <2>3, <2>4, <2>5, StayKeepsTree
  <2>7. /\ row.parent # None => Exists(t[row.parent])
        /\ \A y \in Records \ {r} : Exists(t[y]) => t[y].code # row.code
    BY <1>1, <2>3, <2>4 DEF Sound
  <2>8. s[r] = 0
    BY <1>3 DEF NoDependents
  <2>9. Sound(Put(t, r, row), s)
    BY <1>1, <1>2, <2>4, <2>6, <2>7, <2>8, SoundAfter
  <2> QED BY <1>3, <2>9 DEF row
<1>5. CASE i.op = "restore"
  <2>1. row = [t[r] EXCEPT !.status = RestoreStatus(t[r]), !.former = None]
    BY <1>5 DEF Edit
  <2>2. t[r].status = "archived" /\ RestoreStatus(t[r]) \in {"available", "blocked"}
    BY <1>3, <1>5 DEF Applies, RestoreStatus
  <2> HIDE DEF row
  <2>3. /\ row.status \in {"available", "blocked"}
        /\ row.parent = t[r].parent /\ row.code = t[r].code
    BY <1>1, <2>1, <2>2 DEF Rows
  <2>4. Active(row) /\ Exists(row) /\ Exists(t[r])
    BY <2>2, <2>3 DEF Active, Exists, Absent
  <2>5. ParentOfUpdate(w, i, t[r])
    <3>1. 2 \in 0..Queries(i)
      BY <1>5 DEF Queries
    <3>2. LifecyclePasses(2, i, t[r], w)
      BY <3>1
    <3> QED BY <1>5, <3>2 DEF LifecyclePasses
  <2>6. TreeKept(Put(t, r, row))
    BY <1>1, <1>2, <2>3, <2>4, <2>5, MoveKeepsTree DEF ParentOfUpdate
  <2>7. /\ row.parent # None => Exists(t[row.parent])
        /\ \A y \in Records \ {r} : Exists(t[y]) => t[y].code # row.code
    BY <1>1, <2>3, <2>4 DEF Sound
  <2>8. s[r] = 0
    BY <1>3 DEF NoDependents
  <2>9. Sound(Put(t, r, row), s)
    BY <1>1, <1>2, <2>4, <2>6, <2>7, <2>8, SoundAfter
  <2> QED BY <1>3, <2>9 DEF row
<1> QED BY <1>4, <1>5 DEF Lifecycle

\* Queries that one state of the locations answers cover the Core's rules.
LEMMA RulesComplete == G!Complete
<1> SUFFICES ASSUME NEW t \in Tables, NEW s \in [Records -> 0..1], Sound(t, s),
                    NEW i \in Inputs, NEW r \in Records,
                    IF Target(i) = None THEN t[r] = Absent ELSE r = Target(i),
                    \A n \in 0..Queries(i) : Passes(n, i, t[r], [rows |-> t, side |-> s])
             PROVE  Applies(i, t[r]) /\ Sound(Put(t, r, Edit(i, t[r])), s)
  BY DEF G!Complete, G!CompleteAt, G!Creates, G!Held, Tables, Put
<1>1. CASE i \in Creations
  <2>1. i.op = "create" /\ t[r] = Absent
    BY <1>1 DEF Creations, Target
  <2>2. \A n \in 0..2 : CreatePasses(n, i, [rows |-> t, side |-> s])
    BY <2>1 DEF Queries, Passes
  <2>3. Applies(i, t[r])
    BY <2>1 DEF Applies, Exists
  <2> QED BY <1>1, <2>1, <2>2, <2>3, CreationComplete
<1>2. CASE i \in Updates
  <2>1. i.op \in {"move", "rename", "resize"} /\ i.record = r
    BY <1>2, LocationsAssumption DEF Updates, Target
  <2>2. \A n \in 0..3 : UpdatePasses(n, i, t[r], [rows |-> t, side |-> s])
    BY <2>1 DEF Queries, Passes
  <2> QED BY <1>2, <2>1, <2>2, UpdateComplete
<1>3. CASE i \in Lifecycle
  <2>1. i.op \in {"archive", "restore"} /\ i.record = r
    BY <1>3, LocationsAssumption DEF Lifecycle, Target
  <2>2. \A n \in 0..Queries(i) : LifecyclePasses(n, i, t[r], [rows |-> t, side |-> s])
    BY <2>1 DEF Passes
  <2> QED BY <1>3, <2>1, <2>2, LifecycleComplete
<1> QED BY <1>1, <1>2, <1>3 DEF Inputs

----------------------------------------------------------------------------
(* The specification of Locations is the instance the theorems speak of.   *)

LEMMA SameInit == Init <=> G!Init
BY DEF Init, G!Init

LEMMA SameNext == Next <=> G!Next
BY DEF Next, G!Next, Review, G!Review, ReadRecord, G!ReadRecord, ReadStale, G!ReadStale,
       Check, G!Check, CoreWrites, G!CoreWrites, CoreRefuses, G!CoreRefuses,
       OtherWrites, G!OtherWrites, Acceptable, G!Acceptable, Write, G!Write, Changed, G!Changed,
       VersionConfirmed, G!VersionConfirmed, RowOf, G!RowOf, VersionOf, G!VersionOf,
       Creates, G!Creates, Held, G!Held, core, G!core, read, G!read

LEMMA SameStep == [Next]_vars <=> [G!Next]_G!vars
BY SameNext DEF vars, G!vars, core, G!core, read, G!read

LEMMA SameSpec == Spec => G!Spec
BY SameInit, SameStep, PTL DEF Spec, G!Spec

LEMMA SameOutcome == \A at : Outcome(at) = G!Outcome(at)
BY DEF Outcome, G!Outcome

LEMMA SamePromise ==
  /\ G!Promise!Init => Promise!Init
  /\ [G!Promise!Next]_(G!Promise!vars) => [Promise!Next]_(Promise!vars)
<1>1. G!Promise!Init => Promise!Init
  BY SameOutcome DEF G!Promise!Init, Promise!Init
<1>2. G!Promise!Next => Promise!Next
  BY SameOutcome
     DEF G!Promise!Next, Promise!Next, G!Promise!Review, Promise!Review, G!Promise!Write,
         Promise!Write, G!Promise!Decline, Promise!Decline, G!Promise!OtherWrites,
         Promise!OtherWrites, G!Promise!Replaces, Promise!Replaces
<1>3. UNCHANGED G!Promise!vars => UNCHANGED Promise!vars
  BY SameOutcome DEF G!Promise!vars, Promise!vars
<1> QED BY <1>1, <1>2, <1>3

\* A version that the user of a call reviewed stands for the row that was shown,
\* as long as it is current, and nothing else is sent for locations.
THEOREM LocationsInvariant == Spec => []GuidedInv
<1>1. Spec => []G!GuidedInv
  BY SameSpec, RulesWellFormed, G!GuidedInvariant, PTL
<1>2. G!GuidedInv => GuidedInv
  <2>1. G!TypeOK => TypeOK
    BY DEF G!TypeOK, TypeOK, Steps, G!Steps, Answers, G!Answers
  <2>2. (G!Asked => Asked) /\ (G!Reviewed => Reviewed)
    BY DEF G!Asked, Asked, G!Reviewed, Reviewed, G!Under, Under, G!Creates, Creates
  <2>3. (G!Confirmed => Confirmed) /\ (G!Spent => Spent)
    BY DEF G!Confirmed, Confirmed, G!Spent, Spent, G!Creates, Creates
  <2> QED BY <2>1, <2>2, <2>3 DEF G!GuidedInv, GuidedInv
<1> QED BY <1>1, <1>2, PTL

\* No write of a location undoes what somebody else wrote after the preview.
THEOREM LocationsReviewedOnly == Spec => ReviewedOnly
<1>1. Spec => G!ReviewedOnly
  BY SameSpec, RulesWellFormed, G!GuidedReviewedOnly, PTL
<1>2. G!ReviewedOnly => ReviewedOnly
  BY DEF G!ReviewedOnly, ReviewedOnly, Creates, G!Creates, vars, G!vars, core, G!core, read, G!read
<1> QED BY <1>1, <1>2, PTL

\* Of the calls that change one version of a location, at most one writes.
THEOREM LocationsOneWrite == Spec => []OneWritePerVersion
<1>1. Spec => []G!OneWritePerVersion
  BY SameSpec, RulesWellFormed, G!GuidedOneWrite, PTL
<1>2. G!OneWritePerVersion => OneWritePerVersion
  BY DEF G!OneWritePerVersion, OneWritePerVersion, Creates, G!Creates
<1> QED BY <1>1, <1>2, PTL

\* A change of a location that its queries let pass is refused only when something
\* changed since: the queries of warehouse.locations ask all the Core will ask.
THEOREM LocationsReady == Spec => []ReadyIsAccepted
<1>1. Spec => []G!ReadyIsAccepted
  BY SameSpec, RulesWellFormed, RulesComplete, G!GuidedReady, PTL
<1>2. G!ReadyIsAccepted => ReadyIsAccepted
  BY DEF G!ReadyIsAccepted, ReadyIsAccepted
<1> QED BY <1>1, <1>2, PTL

\* A change of a location acts at once on the row that was reviewed, or not
\* at all, although it is made of many transactions.
THEOREM LocationsActAtOnce == Spec => ActsAtOnce
<1>1. Spec => G!ActsAtOnce
  BY SameSpec, RulesWellFormed, G!GuidedActsAtOnce, PTL
<1>2. G!ActsAtOnce => ActsAtOnce
  BY SamePromise, PTL DEF G!ActsAtOnce, ActsAtOnce, G!Promise!Spec, Promise!Spec
<1> QED BY <1>1, <1>2, PTL
=============================================================================
