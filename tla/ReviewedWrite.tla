--------------------------- MODULE ReviewedWrite ---------------------------
(***************************************************************************)
(* What a guided write promises its user (the descriptions of the write    *)
(* tools: "Writes only the reviewed changes ... rejects stale or           *)
(* conflicting data"): as if the review, the queries and the request were  *)
(* one step at the Core, a call replaces the very row that was reviewed by *)
(* the one that was shown, or creates it where nothing is, within the      *)
(* Core's rules, once; otherwise it changes nothing.                       *)
(***************************************************************************)
CONSTANTS
  Calls, Records, Inputs, OtherInputs, None, Absent, Worlds,  \* see GuidedWrite
  Target(_), Applies(_, _), Edit(_, _), Sound(_, _)

VARIABLES
  rows,    \* record -> row
  side,    \* record -> 1 if something without a version depends on it
  input,   \* call -> what its user asked for
  shown,   \* call -> the row its user reviewed
  answer   \* call -> new, open, written or declined

vars == <<rows, side, input, shown, answer>>

Init ==
  /\ \E w \in Worlds : rows = w.rows /\ side = w.side
  /\ input = [c \in Calls |-> None]
  /\ shown = [c \in Calls |-> Absent]
  /\ answer = [c \in Calls |-> "new"]

Review(c) ==
  /\ answer[c] = "new"
  /\ answer' = [answer EXCEPT ![c] = "open"]
  /\ \E i \in Inputs :
       /\ input' = [input EXCEPT ![c] = i]
       /\ shown' = [shown EXCEPT ![c] = IF Target(i) = None THEN Absent ELSE rows[Target(i)]]
  /\ UNCHANGED <<rows, side>>

\* The row old of a record that i is about becomes what i makes of it.
Replaces(i, old) ==
  \E r \in Records :
    /\ Target(i) \in {r, None}
    /\ rows[r] = old
    /\ Applies(i, old)
    /\ rows' = [rows EXCEPT ![r] = Edit(i, old)]

Write(c) ==
  /\ answer[c] = "open"
  /\ answer' = [answer EXCEPT ![c] = "written"]
  /\ Replaces(input[c], shown[c])
  /\ Sound(rows', side)
  /\ UNCHANGED <<side, input, shown>>

Decline(c) ==
  /\ answer[c] = "open"
  /\ answer' = [answer EXCEPT ![c] = "declined"]
  /\ UNCHANGED <<rows, side, input, shown>>

\* Other users of the Core, within its rules.
OtherWrites ==
  /\ UNCHANGED <<input, shown, answer>>
  /\ \/ UNCHANGED rows
     \/ /\ UNCHANGED side
        /\ \E i \in Inputs \cup OtherInputs, r \in Records : Replaces(i, rows[r])
  /\ Sound(rows', side')

Next ==
  \/ \E c \in Calls : Review(c) \/ Write(c) \/ Decline(c)
  \/ OtherWrites

Spec == Init /\ [][Next]_vars
=============================================================================
