---------------------------- MODULE MCLocations ----------------------------
(***************************************************************************)
(* Model values and bounds for Locations.                                  *)
(***************************************************************************)
EXTENDS Locations, TLC

CONSTANTS r1, r2, r3

\* Each location starts with the code named after it.  Trees are taken up to the
\* naming of locations: a parent has a lower number.
Below == r1 :> {} @@ r2 :> {r1} @@ r3 :> {r1, r2}

StartRow(r) ==
  {Absent} \cup
  {[status |-> s, parent |-> p, code |-> r, room |-> 1,
    former |-> IF s = "archived" THEN "available" ELSE None] :
     s \in {"available", "archived"}, p \in Below[r] \cup {None}}

StartWorlds ==
  {w \in [rows : {t \in [Records -> UNION {StartRow(r) : r \in Records}] :
                    \A r \in Records : t[r] \in StartRow(r)},
          side : [Records -> 0..1]] : Sound(w.rows, w.side)}
=============================================================================
