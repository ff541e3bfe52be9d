---------------------------- MODULE GuidedWrite ----------------------------
(***************************************************************************)
(* Guided writes of the tools whose preview is made in this server (the    *)
(* prepare... functions of internal/mcpserver/tools_*.go, types            *)
(* preparedMutation and RelatedRecords in tools_workflows.go).             *)
(*                                                                         *)
(* An administrator reviews a preview of a change and its exact version,   *)
(* and calls the write tool with that version.  The write tool prepares    *)
(* the change anew: it reads the record, then what the record depends on,  *)
(* every query in a transaction of its own, and sends the change to the    *)
(* Core that owns the record.  Other calls and the Core's own users write  *)
(* between any two of these steps.                                         *)
(*                                                                         *)
(* The rules of a kind of record are parameters; Locations and Catalog     *)
(* define them.  WriteReplay models what happens when the call is          *)
(* repeated, so a call here is prepared and sent once.                     *)
(***************************************************************************)
EXTENDS Naturals

CONSTANTS
  Calls,          \* write calls, each with the preview its user reviewed
  Records,
  Inputs,         \* what the tools can be asked
  OtherInputs,    \* what users of the Core can do besides
  None,
  Absent,         \* the row of a record that does not exist
  MaxOthers,      \* bound of the changes from elsewhere (model only)
  Worlds,         \* what the Core may hold at the start
  Target(_),      \* the record an input is about; None when it creates one
  Queries(_),     \* how many queries follow the first
  Passes(_, _, _, _),  \* nth query, input, row read, records: not blocked
  Rows,           \* what a row can be
  Applies(_, _),  \* input, row: the row has the status the input is for
  Edit(_, _),     \* input, row -> the row that replaces it
  Sound(_, _)     \* external: rules the Core keeps, of its records

VARIABLES
  rows,      \* Core: record -> row
  side,      \* Core: record -> 1 if something without a version depends on it
  version,   \* Core: record -> updated_at
  pc,        \* call -> idle, reviewed, checking, sent or its answer
  input,     \* call -> its input
  expected,  \* call -> expected_updated_at of the input
  shown,     \* call -> the row its user reviewed
  seen,      \* call -> the row it read
  seenVersion,  \* call -> its version, which is sent with the change
  step,      \* call -> the query it makes next
  disturbed, \* calls during which something else changed
  others     \* changes from elsewhere

core == <<rows, side, version, others>>
read == <<seen, seenVersion>>
vars == <<rows, side, version, pc, input, expected, shown, seen, seenVersion,
          step, disturbed, others>>

Answers == {"needs_input", "refused", "written"}
Steps == {"idle", "reviewed", "checking", "sent"} \cup Answers

Creates(i) == Target(i) = None

RowOf(i) == IF Creates(i) THEN Absent ELSE rows[Target(i)]
VersionOf(i) == IF Creates(i) THEN None ELSE version[Target(i)]

\* The records of a moment, as a query sees them.
Held(t, s) == [rows |-> t, side |-> s]

Init ==
  /\ \E w \in Worlds : rows = w.rows /\ side = w.side
  /\ version = [r \in Records |-> 0]
  /\ pc = [c \in Calls |-> "idle"]
  /\ input = [c \in Calls |-> None]
  /\ expected = [c \in Calls |-> None]
  /\ shown = [c \in Calls |-> Absent]
  /\ seen = [c \in Calls |-> Absent]
  /\ seenVersion = [c \in Calls |-> None]
  /\ step = [c \in Calls |-> 0]
  /\ disturbed = {}
  /\ others = 0

----------------------------------------------------------------------------
(* A call.                                                                 *)

\* The user reviews the preview and asks for the write; a client may also ask
\* for it without the version of any preview.
Review(c, i) ==
  /\ pc[c] = "idle"
  /\ pc' = [pc EXCEPT ![c] = "reviewed"]
  /\ input' = [input EXCEPT ![c] = i]
  /\ shown' = [shown EXCEPT ![c] = RowOf(i)]
  /\ \E v \in {VersionOf(i), None} : expected' = [expected EXCEPT ![c] = v]
  /\ UNCHANGED <<core, read, step, disturbed>>

\* Mutant: a version is compared only when the client sends one.
VersionConfirmed_Optional(c) == expected[c] \in {VersionOf(input[c]), None}

\* Mutant: the record must not be older than the version that was reviewed.
VersionConfirmed_NotOlder(c) ==
  expected[c] # None /\ (Creates(input[c]) \/ expected[c] <= VersionOf(input[c]))

\* expected_updated_at: required, and the version just read.
VersionConfirmed(c) == expected[c] = VersionOf(input[c])

\* The first query of prepare: the record itself.
ReadRecord(c) ==
  /\ pc[c] = "reviewed"
  /\ Creates(input[c]) \/ RowOf(input[c]) # Absent
  /\ VersionConfirmed(c)
  /\ seen' = [seen EXCEPT ![c] = RowOf(input[c])]
  /\ seenVersion' = [seenVersion EXCEPT ![c] = VersionOf(input[c])]
  /\ step' = [step EXCEPT ![c] = 0]
  /\ disturbed' = disturbed \ {c}
  /\ pc' = [pc EXCEPT ![c] = "checking"]
  /\ UNCHANGED <<core, input, expected, shown>>

\* There is no record, or it is not the version that was reviewed.
ReadStale(c) ==
  /\ pc[c] = "reviewed"
  /\ \/ ~Creates(input[c]) /\ RowOf(input[c]) = Absent
     \/ ~VersionConfirmed(c)
  /\ pc' = [pc EXCEPT ![c] = "needs_input"]
  /\ UNCHANGED <<core, read, input, expected, shown, step, disturbed>>

\* The next query, or (step 0) the checks of the row itself.
Check(c) ==
  /\ pc[c] = "checking"
  /\ IF Passes(step[c], input[c], seen[c], Held(rows, side))
     THEN /\ step' = [step EXCEPT ![c] = @ + 1]
          /\ pc' = [pc EXCEPT ![c] = IF step[c] < Queries(input[c]) THEN @ ELSE "sent"]
     ELSE /\ pc' = [pc EXCEPT ![c] = "needs_input"]
          /\ UNCHANGED step
  /\ UNCHANGED <<core, read, input, expected, shown, disturbed>>

----------------------------------------------------------------------------
(* The Core, external: it compares the version, and refuses a change that  *)
(* its rules forbid, in the transaction that writes.                       *)

Changed(r, row) == [rows EXCEPT ![r] = row]

\* Mutant: a creation writes over what is there (an upsert).
Acceptable_Upsert(c, r, row) ==
  /\ Creates(input[c]) \/ (r = Target(input[c]) /\ version[r] = seenVersion[c])
  /\ row = Edit(input[c], seen[c])
  /\ Creates(input[c]) \/ Applies(input[c], rows[r])
  /\ Sound(Changed(r, row), side)

\* The request of c would write row into record r.
Acceptable(c, r, row) ==
  /\ Creates(input[c]) \/ (r = Target(input[c]) /\ version[r] = seenVersion[c])
  /\ row = Edit(input[c], seen[c])
  /\ Applies(input[c], rows[r])
  /\ Sound(Changed(r, row), side)

Write(r, row) ==
  /\ rows' = Changed(r, row)
  /\ version' = [version EXCEPT ![r] = @ + 1]

CoreWrites(c) ==
  /\ pc[c] = "sent"
  /\ \E r \in Records :
       LET row == Edit(input[c], seen[c])
       IN Acceptable(c, r, row) /\ Write(r, row)
  /\ pc' = [pc EXCEPT ![c] = "written"]
  /\ disturbed' = disturbed \cup (Calls \ {c})
  /\ UNCHANGED <<side, others, read, input, expected, shown, step>>

\* A full table is not a refusal.
CoreRefuses(c) ==
  /\ pc[c] = "sent"
  /\ Creates(input[c]) => \E r \in Records : rows[r] = Absent
  /\ \A r \in Records : ~Acceptable(c, r, Edit(input[c], seen[c]))
  /\ pc' = [pc EXCEPT ![c] = "refused"]
  /\ UNCHANGED <<core, read, input, expected, shown, step, disturbed>>

\* Someone else writes a record, or what the rules look at besides.
OtherWrites ==
  /\ others < MaxOthers
  /\ others' = others + 1
  /\ \/ \E i \in Inputs \cup OtherInputs, r \in Records :
          /\ Creates(i) \/ r = Target(i)
          /\ Applies(i, rows[r])
          /\ Sound(Changed(r, Edit(i, rows[r])), side)
          /\ Write(r, Edit(i, rows[r]))
          /\ UNCHANGED side
     \/ /\ \E r \in Records : side' = [side EXCEPT ![r] = 1 - @]
        /\ Sound(rows, side')
        /\ UNCHANGED <<rows, version>>
  /\ disturbed' = Calls
  /\ UNCHANGED <<pc, input, expected, shown, read, step>>

Next ==
  \/ \E c \in Calls :
       \/ \E i \in Inputs : Review(c, i)
       \/ ReadRecord(c) \/ ReadStale(c) \/ Check(c)
       \/ CoreWrites(c) \/ CoreRefuses(c)
  \/ OtherWrites

Spec == Init /\ [][Next]_vars

----------------------------------------------------------------------------
(* The abstract specification.                                             *)

\* What a call has come to, by the step it is at.
Outcome(at) ==
  CASE at = "idle" -> "new"
    [] at \in {"reviewed", "checking", "sent"} -> "open"
    [] at = "written" -> "written"
    [] at \in {"needs_input", "refused"} -> "declined"

Promise == INSTANCE ReviewedWrite WITH answer <- [c \in Calls |-> Outcome(pc[c])]

\* Made of many transactions, with others writing between any two of them, a
\* guided write acts at once on the row that was reviewed, or not at all.
ActsAtOnce == Promise!Spec

----------------------------------------------------------------------------
(* Properties.                                                             *)

\* Every variable keeps its type.
TypeOK ==
  /\ rows \in [Records -> Rows]
  /\ side \in [Records -> 0..1]
  /\ version \in [Records -> Nat]
  /\ pc \in [Calls -> Steps]
  /\ input \in [Calls -> Inputs \cup {None}]
  /\ expected \in [Calls -> Nat \cup {None}]
  /\ shown \in [Calls -> Rows]
  /\ seen \in [Calls -> Rows]
  /\ seenVersion \in [Calls -> Nat \cup {None}]
  /\ step \in [Calls -> Nat]
  /\ disturbed \subseteq Calls
  /\ others \in 0..MaxOthers

\* A write replaces exactly the row its user reviewed, although the request
\* carries a version read later: nothing that somebody else wrote meanwhile is
\* undone, and the change is the one the preview showed.
ReviewedOnly ==
  [][\A c \in Calls :
       pc[c] = "sent" /\ pc'[c] = "written" /\ ~Creates(input[c])
         => /\ rows[Target(input[c])] = shown[c]
            /\ rows'[Target(input[c])] = Edit(input[c], shown[c])]_vars

\* Of the calls that were confirmed with one version of a record, one writes.
OneWritePerVersion ==
  \A c, d \in Calls :
    /\ c # d
    /\ pc[c] = "written" /\ pc[d] = "written"
    /\ ~Creates(input[c])
    /\ Target(input[c]) = Target(input[d])
    => expected[c] # expected[d]

\* The queries ask for everything the Core will ask: a call they let pass is
\* refused only when something changed between them and the Core's answer.
ReadyIsAccepted == \A c \in Calls : pc[c] = "refused" => c \in disturbed

----------------------------------------------------------------------------
(* The inductive invariant of GuidedWriteProofs.                           *)

\* Calls between the preview and the answer.
Under == {"reviewed", "checking", "sent"}

\* A version was reviewed with its row, and is never in the future.
Reviewed ==
  \A c \in Calls :
    pc[c] \in Under /\ ~Creates(input[c]) /\ expected[c] # None
      => /\ expected[c] \in Nat
         /\ expected[c] <= version[Target(input[c])]
         /\ expected[c] = version[Target(input[c])] => rows[Target(input[c])] = shown[c]

\* What a call sends is what its user reviewed.
Confirmed ==
  \A c \in Calls :
    pc[c] \in {"checking", "sent"} /\ ~Creates(input[c])
      => /\ expected[c] # None
         /\ seenVersion[c] = expected[c]
         /\ seen[c] = shown[c]

\* A version that was written is spent.
Spent ==
  \A c \in Calls :
    pc[c] = "written" /\ ~Creates(input[c])
      => /\ expected[c] \in Nat
         /\ expected[c] < version[Target(input[c])]

\* Every call under way has its input.
Asked == \A c \in Calls : pc[c] # "idle" => input[c] \in Inputs

\* What the versions rest on: what was reviewed is the row as long as its
\* version is the record's, and no other row is ever sent.
GuidedInv == TypeOK /\ Asked /\ Reviewed /\ Confirmed /\ Spent
=============================================================================
