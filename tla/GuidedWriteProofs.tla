------------------------- MODULE GuidedWriteProofs -------------------------
(***************************************************************************)
(* Theorems about GuidedWrite, for every set of rules that is well formed. *)
(***************************************************************************)
EXTENDS GuidedWrite, TLAPS

----------------------------------------------------------------------------
(* What the theorems ask of the rules.                                     *)

\* Rows stay rows, a target is a record, a record is created where none is, the
\* start keeps the Core's rules.
WellFormed ==
  /\ None \notin Nat
  /\ None \notin Records
  /\ MaxOthers \in Nat
  /\ Absent \in Rows
  /\ \A i \in Inputs : Target(i) \in Records \cup {None}
  /\ \A w \in Worlds : /\ w.rows \in [Records -> Rows]
                       /\ w.side \in [Records -> 0..1]
                       /\ Sound(w.rows, w.side)
  /\ \A i \in Inputs \cup OtherInputs, row \in Rows : Edit(i, row) \in Rows
  /\ \A i \in Inputs : Queries(i) \in Nat
  /\ \A i \in Inputs, row \in Rows : Creates(i) /\ Applies(i, row) => row = Absent

----------------------------------------------------------------------------
(* GuidedInv is inductive.                                                 *)

LEMMA TypeInit == ASSUME WellFormed, Init PROVE TypeOK
BY DEF WellFormed, Init, TypeOK, Steps, Answers

LEMMA TypeNext == ASSUME WellFormed, TypeOK, Asked, [Next]_vars PROVE TypeOK' /\ Asked'
<1> USE DEF TypeOK, Asked, core, read
<1>1. ASSUME NEW c \in Calls, NEW i \in Inputs, Review(c, i) PROVE TypeOK' /\ Asked'
  BY <1>1 DEF Review, RowOf, VersionOf, Creates, WellFormed, Steps
<1>2. ASSUME NEW c \in Calls, ReadRecord(c) PROVE TypeOK' /\ Asked'
  BY <1>2 DEF ReadRecord, RowOf, VersionOf, Creates, WellFormed, Steps
<1>3. ASSUME NEW c \in Calls, ReadStale(c) PROVE TypeOK' /\ Asked'
  BY <1>3 DEF ReadStale, Steps, Answers
<1>4. ASSUME NEW c \in Calls, Check(c) PROVE TypeOK' /\ Asked'
  BY <1>4 DEF Check, Steps, Answers
<1>5. ASSUME NEW c \in Calls, CoreWrites(c) PROVE TypeOK' /\ Asked'
  <2>1. PICK r \in Records : /\ Acceptable(c, r, Edit(input[c], seen[c]))
                             /\ Write(r, Edit(input[c], seen[c]))
    BY <1>5 DEF CoreWrites
  <2>2. Edit(input[c], seen[c]) \in Rows
    BY <1>5 DEF CoreWrites, WellFormed
  <2> QED BY <1>5, <2>1, <2>2 DEF CoreWrites, Write, Changed, Steps, Answers
<1>6. ASSUME NEW c \in Calls, CoreRefuses(c) PROVE TypeOK' /\ Asked'
  BY <1>6 DEF CoreRefuses, Steps, Answers
<1>7. ASSUME OtherWrites PROVE TypeOK' /\ Asked'
  <2>1. rows' \in [Records -> Rows] /\ version' \in [Records -> Nat] /\ side' \in [Records -> 0..1]
    <3>1. CASE \E i \in Inputs \cup OtherInputs, r \in Records :
                 Applies(i, rows[r]) /\ Write(r, Edit(i, rows[r])) /\ UNCHANGED side
      BY <3>1 DEF Write, Changed, WellFormed
    <3>2. CASE \E r \in Records : /\ side' = [side EXCEPT ![r] = 1 - @]
                                  /\ UNCHANGED <<rows, version>>
      BY <3>2
    <3> QED BY <1>7, <3>1, <3>2 DEF OtherWrites
  <2> QED BY <1>7, <2>1 DEF OtherWrites, WellFormed
<1>8. CASE UNCHANGED vars
  BY <1>8 DEF vars
<1> QED BY <1>1, <1>2, <1>3, <1>4, <1>5, <1>6, <1>7, <1>8 DEF Next

\* Every variable keeps its type, whatever the rules of the records are.
THEOREM GuidedTypes == ASSUME WellFormed PROVE Spec => []TypeOK
<1>1. Init => TypeOK /\ Asked
  BY TypeInit DEF Init, Asked
<1>2. TypeOK /\ Asked /\ [Next]_vars => TypeOK' /\ Asked'
  BY TypeNext
<1> QED BY <1>1, <1>2, PTL DEF Spec

----------------------------------------------------------------------------
(* A write moves the version of its record on, and no other changes.       *)
LEMMA WriteMoves ==
  ASSUME TypeOK, NEW r \in Records, NEW row \in Rows, Write(r, row)
  PROVE  /\ \A z \in Records \ {r} : version'[z] = version[z] /\ rows'[z] = rows[z]
         /\ version'[r] = version[r] + 1
         /\ rows'[r] = row
BY DEF TypeOK, Write, Changed

\* Versions only grow, and a row changes only with its version.
LEMMA CoreMoves ==
  ASSUME WellFormed, TypeOK, Asked, [Next]_vars
  PROVE  \A z \in Records :
           \/ version'[z] = version[z] /\ rows'[z] = rows[z]
           \/ version'[z] > version[z]
<1>1. ASSUME NEW c \in Calls, CoreWrites(c)
      PROVE \E r \in Records : Write(r, Edit(input[c], seen[c])) /\ Edit(input[c], seen[c]) \in Rows
  BY <1>1 DEF CoreWrites, WellFormed, TypeOK, Asked
<1>2. ASSUME OtherWrites
      PROVE \/ \E r \in Records, row \in Rows : Write(r, row)
            \/ UNCHANGED <<rows, version>>
  BY <1>2 DEF OtherWrites, WellFormed, TypeOK
<1>3. ASSUME NEW r \in Records, NEW row \in Rows, Write(r, row)
      PROVE \A z \in Records :
              \/ version'[z] = version[z] /\ rows'[z] = rows[z]
              \/ version'[z] > version[z]
  BY <1>3, WriteMoves DEF TypeOK
<1>4. CASE \E c \in Calls : CoreWrites(c)
  BY <1>4, <1>1, <1>3
<1>5. CASE OtherWrites
  BY <1>5, <1>2, <1>3
<1>6. CASE UNCHANGED <<rows, version>>
  BY <1>6
<1>7. (\E c \in Calls : CoreWrites(c)) \/ OtherWrites \/ UNCHANGED <<rows, version>>
  BY DEF Next, vars, core, Review, ReadRecord, ReadStale, Check, CoreRefuses
<1> QED BY <1>4, <1>5, <1>6, <1>7

\* What a call does to its own variables; another call leaves them alone.
LEMMA ReviewedNext ==
  ASSUME WellFormed, GuidedInv, [Next]_vars PROVE Reviewed'
<1> SUFFICES ASSUME NEW c \in Calls, pc'[c] \in Under, ~Creates(input'[c]), expected'[c] # None
             PROVE  /\ expected'[c] \in Nat
                    /\ expected'[c] <= version'[Target(input'[c])]
                    /\ expected'[c] = version'[Target(input'[c])]
                         => rows'[Target(input'[c])] = shown'[c]
  BY Zenon DEF Reviewed, Creates
<1>1. TypeOK /\ Asked /\ Reviewed
  BY DEF GuidedInv
<1>2. TypeOK' /\ Asked'
  BY <1>1, TypeNext
<1>3. Target(input'[c]) \in Records
  BY <1>2 DEF Asked, Under, Creates, WellFormed
<1>4. CASE \E i \in Inputs : Review(c, i)
  BY <1>1, <1>3, <1>4 DEF Review, TypeOK, RowOf, VersionOf, Creates, core
<1>5. CASE /\ pc[c] \in Under
           /\ input'[c] = input[c] /\ expected'[c] = expected[c] /\ shown'[c] = shown[c]
  <2>1. /\ expected[c] \in Nat
        /\ expected[c] <= version[Target(input[c])]
        /\ expected[c] = version[Target(input[c])] => rows[Target(input[c])] = shown[c]
    BY <1>1, <1>5 DEF Reviewed, Creates
  <2>2. \/ /\ version'[Target(input[c])] = version[Target(input[c])]
           /\ rows'[Target(input[c])] = rows[Target(input[c])]
        \/ version'[Target(input[c])] > version[Target(input[c])]
    BY <1>1, <1>3, <1>5, CoreMoves
  <2>3. version[Target(input[c])] \in Nat /\ version'[Target(input[c])] \in Nat
    BY <1>1, <1>2, <1>3, <1>5 DEF TypeOK
  <2> QED BY <2>1, <2>2, <2>3, <1>5
<1>6. \/ \E i \in Inputs : Review(c, i)
      \/ /\ pc[c] \in Under
         /\ input'[c] = input[c] /\ expected'[c] = expected[c] /\ shown'[c] = shown[c]
  BY <1>1, <1>2 DEF TypeOK, Next, vars, Review, ReadRecord, ReadStale, Check, CoreWrites, CoreRefuses,
              OtherWrites, Under, Steps, Answers
<1> QED BY <1>4, <1>5, <1>6

LEMMA ConfirmedNext ==
  ASSUME WellFormed, GuidedInv, [Next]_vars PROVE Confirmed'
<1> SUFFICES ASSUME NEW c \in Calls, pc'[c] \in {"checking", "sent"}, ~Creates(input'[c])
             PROVE  /\ expected'[c] # None
                    /\ seenVersion'[c] = expected'[c]
                    /\ seen'[c] = shown'[c]
  BY Zenon DEF Confirmed, Creates
<1>1. TypeOK /\ Asked /\ Reviewed /\ Confirmed
  BY DEF GuidedInv
<1>2. CASE ReadRecord(c)
  <2>1. input[c] \in Inputs /\ ~Creates(input[c]) /\ Target(input[c]) \in Records
    BY <1>1, <1>2 DEF Asked, ReadRecord, Creates, WellFormed
  <2>2. expected[c] = version[Target(input[c])] /\ expected[c] # None
    BY <1>1, <1>2, <2>1 DEF ReadRecord, VersionConfirmed, VersionOf, TypeOK, WellFormed
  <2>3. rows[Target(input[c])] = shown[c]
    BY <1>1, <1>2, <2>1, <2>2 DEF Reviewed, ReadRecord, Under
  <2> QED BY <1>1, <1>2, <2>1, <2>2, <2>3 DEF ReadRecord, RowOf, VersionOf, TypeOK
<1>3. CASE /\ pc[c] \in {"checking", "sent"} /\ input'[c] = input[c]
           /\ expected'[c] = expected[c] /\ shown'[c] = shown[c]
           /\ seen'[c] = seen[c] /\ seenVersion'[c] = seenVersion[c]
  BY <1>1, <1>3 DEF Confirmed, Creates
<1>4. \/ ReadRecord(c)
      \/ /\ pc[c] \in {"checking", "sent"} /\ input'[c] = input[c]
         /\ expected'[c] = expected[c] /\ shown'[c] = shown[c]
         /\ seen'[c] = seen[c] /\ seenVersion'[c] = seenVersion[c]
  BY <1>1 DEF TypeOK, Next, vars, read, Review, ReadRecord, ReadStale, Check, CoreWrites, CoreRefuses,
              OtherWrites, Steps, Answers
<1> QED BY <1>2, <1>3, <1>4

\* The answer of the Core to a change of an existing record.
LEMMA WriteIsReviewed ==
  ASSUME WellFormed, GuidedInv, NEW c \in Calls, CoreWrites(c), ~Creates(input[c])
  PROVE  LET r == Target(input[c]) IN
         /\ r \in Records
         /\ expected[c] = version[r]
         /\ rows[r] = shown[c]
         /\ Write(r, Edit(input[c], shown[c]))
         /\ Edit(input[c], shown[c]) \in Rows
<1>1. TypeOK /\ Asked /\ Reviewed /\ Confirmed
  BY DEF GuidedInv
<1>2. pc[c] = "sent" /\ input[c] \in Inputs /\ seen[c] \in Rows
  BY <1>1 DEF CoreWrites, Asked, TypeOK
<1>3. expected[c] # None /\ seenVersion[c] = expected[c] /\ seen[c] = shown[c]
  BY <1>1, <1>2 DEF Confirmed
<1>4. PICK r \in Records : /\ Acceptable(c, r, Edit(input[c], seen[c]))
                           /\ Write(r, Edit(input[c], seen[c]))
  BY DEF CoreWrites
<1>5. r = Target(input[c]) /\ version[r] = seenVersion[c]
  BY <1>4 DEF Acceptable
<1>6. rows[r] = shown[c]
  BY <1>1, <1>2, <1>3, <1>5 DEF Reviewed, Under
<1> QED BY <1>2, <1>3, <1>4, <1>5, <1>6 DEF WellFormed

LEMMA SpentNext ==
  ASSUME WellFormed, GuidedInv, [Next]_vars PROVE Spent'
<1> SUFFICES ASSUME NEW c \in Calls, pc'[c] = "written", ~Creates(input'[c])
             PROVE  expected'[c] \in Nat /\ expected'[c] < version'[Target(input'[c])]
  BY Zenon DEF Spent, Creates
<1>1. TypeOK /\ Asked /\ Spent
  BY DEF GuidedInv
<1>2. TypeOK' /\ Asked'
  BY <1>1, TypeNext
<1>3. Target(input'[c]) \in Records
  BY <1>2 DEF Asked, Creates, WellFormed
<1>4. CASE CoreWrites(c)
  <2>1. input'[c] = input[c] /\ expected'[c] = expected[c]
    BY <1>4 DEF CoreWrites
  <2>2. version'[Target(input[c])] = version[Target(input[c])] + 1
    BY <1>1, <1>4, <2>1, WriteIsReviewed, WriteMoves DEF Creates
  <2>3. expected[c] = version[Target(input[c])]
    BY <1>4, <2>1, WriteIsReviewed DEF Creates
  <2> QED BY <1>1, <1>3, <2>1, <2>2, <2>3 DEF TypeOK
<1>5. CASE pc[c] = "written" /\ input'[c] = input[c] /\ expected'[c] = expected[c]
  <2>1. expected[c] \in Nat /\ expected[c] < version[Target(input[c])]
    BY <1>1, <1>5 DEF Spent, Creates
  <2>2. \/ version'[Target(input[c])] = version[Target(input[c])]
        \/ version'[Target(input[c])] > version[Target(input[c])]
    BY <1>1, <1>3, <1>5, CoreMoves
  <2> QED BY <1>1, <1>2, <1>3, <1>5, <2>1, <2>2 DEF TypeOK
<1>6. CoreWrites(c) \/ (pc[c] = "written" /\ input'[c] = input[c] /\ expected'[c] = expected[c])
  BY <1>1 DEF TypeOK, Next, vars, Review, ReadRecord, ReadStale, Check, CoreWrites, CoreRefuses,
              OtherWrites, Steps, Answers
<1> QED BY <1>4, <1>5, <1>6

\* The strengthening that the two properties of versions rest on.
THEOREM GuidedInvariant == ASSUME WellFormed PROVE Spec => []GuidedInv
<1>1. Init => GuidedInv
  BY TypeInit DEF Init, GuidedInv, Asked, Reviewed, Confirmed, Spent, Under
<1>2. GuidedInv /\ [Next]_vars => GuidedInv'
  <2> SUFFICES ASSUME GuidedInv, [Next]_vars PROVE GuidedInv'
    OBVIOUS
  <2>1. TypeOK' /\ Asked'
    BY TypeNext DEF GuidedInv
  <2> QED BY <2>1, ReviewedNext, ConfirmedNext, SpentNext DEF GuidedInv
<1> QED BY <1>1, <1>2, PTL DEF Spec

\* A write replaces exactly the row its user reviewed, for every kind of
\* record, however many calls and other writers there are.
THEOREM GuidedReviewedOnly == ASSUME WellFormed PROVE Spec => ReviewedOnly
<1>1. ASSUME GuidedInv, [Next]_vars
      PROVE  \A c \in Calls :
               pc[c] = "sent" /\ pc'[c] = "written" /\ ~Creates(input[c])
                 => /\ rows[Target(input[c])] = shown[c]
                    /\ rows'[Target(input[c])] = Edit(input[c], shown[c])
  <2> SUFFICES ASSUME NEW c \in Calls, pc[c] = "sent", pc'[c] = "written", ~Creates(input[c])
               PROVE  /\ rows[Target(input[c])] = shown[c]
                      /\ rows'[Target(input[c])] = Edit(input[c], shown[c])
    OBVIOUS
  <2>1. CoreWrites(c)
    BY <1>1 DEF GuidedInv, TypeOK, Next, vars, Review, ReadRecord, ReadStale, Check, CoreWrites,
                CoreRefuses, OtherWrites
  <2> QED BY <1>1, <2>1, WriteIsReviewed, WriteMoves DEF GuidedInv
<1>2. Spec => []GuidedInv
  BY GuidedInvariant
<1> QED BY <1>1, <1>2, PTL DEF Spec, ReviewedOnly

\* A call that was written stays so; one that is written now has just written.
LEMMA Written ==
  ASSUME TypeOK, [Next]_vars, NEW c \in Calls, pc'[c] = "written"
  PROVE  \/ CoreWrites(c)
         \/ pc[c] = "written" /\ input'[c] = input[c] /\ expected'[c] = expected[c]
BY DEF TypeOK, Next, vars, Review, ReadRecord, ReadStale, Check, CoreWrites, CoreRefuses,
       OtherWrites, Steps, Answers

LEMMA WriteIsNotSpent ==
  ASSUME WellFormed, GuidedInv, NEW c \in Calls, NEW d \in Calls, CoreWrites(c),
         pc[d] = "written", ~Creates(input[c]), Target(input[c]) = Target(input[d])
  PROVE  expected[c] # expected[d]
<1>1. expected[c] = version[Target(input[c])] /\ Target(input[c]) \in Records
  BY WriteIsReviewed
<1>2. expected[d] < version[Target(input[d])]
  BY DEF GuidedInv, Spent, Creates
<1> QED BY <1>1, <1>2 DEF GuidedInv, TypeOK

LEMMA OneWriteNext ==
  ASSUME WellFormed, GuidedInv, OneWritePerVersion, [Next]_vars
  PROVE  OneWritePerVersion'
<1> SUFFICES ASSUME NEW c \in Calls, NEW d \in Calls, c # d,
                    pc'[c] = "written", pc'[d] = "written",
                    ~Creates(input'[c]), Target(input'[c]) = Target(input'[d])
             PROVE  expected'[c] # expected'[d]
  BY Zenon DEF OneWritePerVersion, Creates
<1>1. TypeOK
  BY DEF GuidedInv
<1>2. CASE CoreWrites(c)
  <2>1. pc[d] = "written" /\ UNCHANGED <<input, expected>>
    BY <1>1, <1>2 DEF CoreWrites, TypeOK
  <2> QED BY <1>2, <2>1, WriteIsNotSpent DEF Creates
<1>3. CASE CoreWrites(d)
  <2>1. pc[c] = "written" /\ UNCHANGED <<input, expected>>
    BY <1>1, <1>3 DEF CoreWrites, TypeOK
  <2>2. ~Creates(input[d]) /\ Target(input[d]) = Target(input[c])
    BY <2>1 DEF Creates
  <2> QED BY <1>3, <2>1, <2>2, WriteIsNotSpent
<1>4. CASE /\ pc[c] = "written" /\ input'[c] = input[c] /\ expected'[c] = expected[c]
           /\ pc[d] = "written" /\ input'[d] = input[d] /\ expected'[d] = expected[d]
  BY <1>4 DEF OneWritePerVersion, Creates
<1> QED BY <1>1, <1>2, <1>3, <1>4, Written

\* Of the calls confirmed with one version of a record, at most one writes.
THEOREM GuidedOneWrite == ASSUME WellFormed PROVE Spec => []OneWritePerVersion
<1>1. Init => OneWritePerVersion
  BY DEF Init, OneWritePerVersion
<1>2. GuidedInv /\ OneWritePerVersion /\ [Next]_vars => OneWritePerVersion'
  BY OneWriteNext
<1>3. Spec => []GuidedInv
  BY GuidedInvariant
<1> QED BY <1>1, <1>2, <1>3, PTL DEF Spec

----------------------------------------------------------------------------
(* Calls that the queries let pass.                                        *)

\* Queries that the records t and s answer alone cover the rules of the Core.
CompleteAt(t, s) ==
  Sound(t, s) =>
    \A i \in Inputs, r \in Records :
      /\ IF Creates(i) THEN t[r] = Absent ELSE r = Target(i)
      /\ \A n \in 0..Queries(i) : Passes(n, i, t[r], Held(t, s))
      => Applies(i, t[r]) /\ Sound([t EXCEPT ![r] = Edit(i, t[r])], s)

Complete == \A t \in [Records -> Rows], s \in [Records -> 0..1] : CompleteAt(t, s)

\* A call that nothing disturbed has passed its queries on the present state.
PassedBy(c) ==
  /\ seen[c] = RowOf(input[c])
  /\ seenVersion[c] = VersionOf(input[c])
  /\ \A n \in 0..(step[c] - 1) : Passes(n, input[c], seen[c], Held(rows, side))
  /\ IF pc[c] = "sent" THEN step[c] = Queries(input[c]) + 1
     ELSE step[c] <= Queries(input[c])

Passed ==
  \A c \in Calls : pc[c] \in {"checking", "sent"} /\ c \notin disturbed => PassedBy(c)

ReadyInv == GuidedInv /\ Sound(rows, side) /\ Passed /\ ReadyIsAccepted

LEMMA SoundNext ==
  ASSUME TypeOK, Sound(rows, side), [Next]_vars PROVE Sound(rows', side')
<1>1. ASSUME NEW c \in Calls, CoreWrites(c) PROVE Sound(rows', side')
  BY <1>1 DEF CoreWrites, Acceptable, Write
<1>2. ASSUME OtherWrites PROVE Sound(rows', side')
  BY <1>2 DEF OtherWrites, Write
<1>3. (\E c \in Calls : CoreWrites(c)) \/ OtherWrites \/ UNCHANGED <<rows, side>>
  BY DEF Next, vars, core, Review, ReadRecord, ReadStale, Check, CoreRefuses
<1> QED BY <1>1, <1>2, <1>3

\* The records always keep the rules of the Core.  This is the assumption on the
\* Core carried along a behavior, not a result about the calls: Acceptable and
\* OtherWrites let the Core store nothing else.  The refinement and the
\* completeness of the queries need it of every state.
LEMMA GuidedSound == ASSUME WellFormed PROVE Spec => []Sound(rows, side)
<1>1. Init => Sound(rows, side)
  BY DEF Init, WellFormed
<1>2. TypeOK /\ Sound(rows, side) /\ [Next]_vars => Sound(rows, side)'
  BY SoundNext
<1>3. Spec => []TypeOK
  BY GuidedTypes
<1> QED BY <1>1, <1>2, <1>3, PTL DEF Spec

\* A step that leaves a call undisturbed and is not its own changes nothing
\* that its queries looked at.
LEMMA Undisturbed ==
  ASSUME TypeOK, [Next]_vars, NEW c \in Calls, c \notin disturbed',
         pc'[c] \in {"checking", "sent"}
  PROVE  \/ ReadRecord(c)
         \/ Check(c)
         \/ /\ UNCHANGED <<rows, side, version>>
            /\ c \notin disturbed
            /\ pc'[c] = pc[c] /\ input'[c] = input[c] /\ step'[c] = step[c]
            /\ seen'[c] = seen[c] /\ seenVersion'[c] = seenVersion[c]
<1>1. ASSUME NEW d \in Calls, d # c,
             \/ \E i \in Inputs : Review(d, i)
             \/ ReadRecord(d) \/ ReadStale(d) \/ Check(d) \/ CoreWrites(d) \/ CoreRefuses(d)
      PROVE  /\ UNCHANGED <<rows, side, version>>
             /\ c \notin disturbed
             /\ pc'[c] = pc[c] /\ input'[c] = input[c] /\ step'[c] = step[c]
             /\ seen'[c] = seen[c] /\ seenVersion'[c] = seenVersion[c]
  BY <1>1 DEF TypeOK, core, read, Review, ReadRecord, ReadStale, Check, CoreWrites, CoreRefuses
<1>2. ASSUME \/ \E i \in Inputs : Review(c, i)
             \/ ReadStale(c) \/ CoreWrites(c) \/ CoreRefuses(c) \/ OtherWrites
      PROVE  FALSE
  BY <1>2 DEF TypeOK, Review, ReadStale, CoreWrites, CoreRefuses, OtherWrites
<1>3. CASE UNCHANGED vars
  BY <1>3 DEF vars
<1>4. CASE Next
  BY <1>1, <1>2, <1>4 DEF Next
<1> QED BY <1>3, <1>4

LEMMA PassedNext ==
  ASSUME WellFormed, Complete, ReadyInv, [Next]_vars PROVE Passed'
<1> SUFFICES ASSUME NEW c \in Calls, pc'[c] \in {"checking", "sent"}, c \notin disturbed'
             PROVE  PassedBy(c)'
  BY Zenon DEF Passed
<1>1. TypeOK /\ Asked /\ Passed
  BY DEF ReadyInv, GuidedInv
<1>2. CASE ReadRecord(c)
  <2>1. pc'[c] = "checking" /\ step'[c] = 0 /\ input' = input /\ UNCHANGED <<rows, side, version>>
        /\ seen'[c] = RowOf(input[c]) /\ seenVersion'[c] = VersionOf(input[c])
    BY <1>1, <1>2 DEF ReadRecord, core, TypeOK
  <2>2. Queries(input[c]) \in Nat
    BY <1>1, <1>2 DEF ReadRecord, Asked, WellFormed
  <2> QED BY <2>1, <2>2 DEF PassedBy, RowOf, VersionOf, Creates
<1>3. CASE Check(c)
  <2>1. /\ UNCHANGED <<rows, side, version, input, seen, seenVersion>>
        /\ pc[c] = "checking" /\ c \notin disturbed
        /\ Passes(step[c], input[c], seen[c], Held(rows, side))
        /\ step'[c] = step[c] + 1 /\ step[c] \in Nat
        /\ pc'[c] = IF step[c] < Queries(input[c]) THEN "checking" ELSE "sent"
    BY <1>1, <1>3 DEF Check, core, read, TypeOK, Held
  <2>2. Queries(input[c]) \in Nat
    BY <1>1, <2>1 DEF Asked, WellFormed
  <2>3. PassedBy(c)
    BY <1>1, <2>1 DEF Passed
  <2>4. RowOf(input[c])' = RowOf(input[c]) /\ VersionOf(input[c])' = VersionOf(input[c])
    BY <2>1 DEF RowOf, VersionOf, Creates
  <2>5. \A n \in 0..(step'[c] - 1) : Passes(n, input[c], seen[c], Held(rows, side))
    <3>1. \A n \in 0..(step'[c] - 1) : n \in 0..(step[c] - 1) \/ n = step[c]
      BY <2>1
    <3> QED BY <2>1, <2>3, <3>1 DEF PassedBy
  <2>6. step[c] <= Queries(input[c])
    BY <2>1, <2>3 DEF PassedBy
  <2> QED BY <2>1, <2>2, <2>3, <2>4, <2>5, <2>6 DEF PassedBy, Held
<1>4. CASE /\ UNCHANGED <<rows, side, version>>
           /\ c \notin disturbed
           /\ pc'[c] = pc[c] /\ input'[c] = input[c] /\ step'[c] = step[c]
           /\ seen'[c] = seen[c] /\ seenVersion'[c] = seenVersion[c]
  BY <1>1, <1>4 DEF Passed, PassedBy, Held, RowOf, VersionOf, Creates
<1> QED BY <1>1, <1>2, <1>3, <1>4, Undisturbed

\* The Core has no reason to refuse a call that nothing disturbed.
LEMMA RefusedIsDisturbed ==
  ASSUME WellFormed, Complete, ReadyInv, NEW c \in Calls, CoreRefuses(c)
  PROVE  c \in disturbed
<1> SUFFICES ASSUME c \notin disturbed PROVE FALSE
  OBVIOUS
<1>1. TypeOK /\ Asked /\ Passed /\ Sound(rows, side)
  BY DEF ReadyInv, GuidedInv
<1>2. pc[c] = "sent" /\ input[c] \in Inputs
  BY <1>1 DEF CoreRefuses, Asked
<1>3. PassedBy(c)
  BY <1>1, <1>2 DEF Passed
<1>4. \A n \in 0..Queries(input[c]) : Passes(n, input[c], seen[c], Held(rows, side))
  BY <1>2, <1>3 DEF PassedBy, WellFormed
<1>5. PICK r \in Records : IF Creates(input[c]) THEN rows[r] = Absent ELSE r = Target(input[c])
  BY <1>2 DEF CoreRefuses, Creates, WellFormed
<1>6. seen[c] = rows[r]
  BY <1>3, <1>5 DEF PassedBy, RowOf
<1>7. Applies(input[c], rows[r]) /\ Sound([rows EXCEPT ![r] = Edit(input[c], rows[r])], side)
  BY <1>1, <1>2, <1>4, <1>5, <1>6 DEF Complete, CompleteAt, TypeOK
<1>8. Acceptable(c, r, Edit(input[c], seen[c]))
  BY <1>3, <1>5, <1>6, <1>7 DEF Acceptable, Changed, PassedBy, VersionOf
<1> QED BY <1>8 DEF CoreRefuses

LEMMA ReadyNext ==
  ASSUME WellFormed, Complete, ReadyInv, [Next]_vars PROVE ReadyIsAccepted'
<1> SUFFICES ASSUME NEW c \in Calls, pc'[c] = "refused" PROVE c \in disturbed'
  BY Zenon DEF ReadyIsAccepted
<1>1. TypeOK
  BY DEF ReadyInv, GuidedInv
<1>2. CASE CoreRefuses(c)
  BY <1>2, RefusedIsDisturbed DEF CoreRefuses
<1>3. CASE pc[c] = "refused" /\ (c \in disturbed => c \in disturbed')
  BY <1>3 DEF ReadyInv, ReadyIsAccepted
<1>4. CoreRefuses(c) \/ (pc[c] = "refused" /\ (c \in disturbed => c \in disturbed'))
  BY <1>1 DEF TypeOK, Next, vars, Review, ReadRecord, ReadStale, Check, CoreWrites, CoreRefuses,
              OtherWrites, Steps, Answers
<1> QED BY <1>2, <1>3, <1>4

\* When the queries are complete, a call they let pass is refused only if
\* something changed since: asking one by one costs no more than that.
THEOREM GuidedReady == ASSUME WellFormed, Complete PROVE Spec => []ReadyIsAccepted
<1>1. Init => Sound(rows, side) /\ Passed /\ ReadyIsAccepted
  BY DEF Init, WellFormed, Passed, ReadyIsAccepted
<1>2. ReadyInv /\ [Next]_vars => Sound(rows, side)' /\ Passed' /\ ReadyIsAccepted'
  BY SoundNext, PassedNext, ReadyNext DEF ReadyInv, GuidedInv
<1>3. Spec => []GuidedInv
  BY GuidedInvariant
<1> QED BY <1>1, <1>2, <1>3, PTL DEF Spec, ReadyInv
----------------------------------------------------------------------------
(* Guided writes implement ReviewedWrite.                                  *)

\* A creation starts from nothing.
Blank ==
  \A c \in Calls : pc[c] # "idle" /\ Creates(input[c]) =>
    /\ shown[c] = Absent
    /\ pc[c] \in {"checking", "sent"} => seen[c] = Absent

LEMMA BlankNext == ASSUME TypeOK, Blank, [Next]_vars PROVE Blank'
<1> SUFFICES ASSUME NEW c \in Calls, pc'[c] # "idle", Creates(input'[c])
             PROVE  /\ shown'[c] = Absent
                    /\ pc'[c] \in {"checking", "sent"} => seen'[c] = Absent
  BY Zenon DEF Blank, Creates
<1>1. CASE \E i \in Inputs : Review(c, i)
  <2>1. PICK i \in Inputs : Review(c, i)
    BY <1>1
  <2>2. input'[c] = i /\ shown'[c] = RowOf(i) /\ pc'[c] = "reviewed"
    BY <2>1 DEF Review, TypeOK
  <2> QED BY <2>2 DEF RowOf, Creates
<1>2. CASE ReadRecord(c)
  <2>1. /\ input'[c] = input[c] /\ shown'[c] = shown[c] /\ pc[c] = "reviewed"
        /\ seen'[c] = RowOf(input[c])
    BY <1>2 DEF ReadRecord, TypeOK
  <2> QED BY <2>1 DEF Blank, RowOf, Creates
<1>3. CASE /\ pc[c] # "idle"
           /\ pc'[c] \in {"checking", "sent"} => pc[c] \in {"checking", "sent"}
           /\ input'[c] = input[c] /\ shown'[c] = shown[c] /\ seen'[c] = seen[c]
  BY <1>3 DEF Blank, Creates
<1>4. \/ (\E i \in Inputs : Review(c, i)) \/ ReadRecord(c)
      \/ /\ pc[c] # "idle"
         /\ pc'[c] \in {"checking", "sent"} => pc[c] \in {"checking", "sent"}
         /\ input'[c] = input[c] /\ shown'[c] = shown[c] /\ seen'[c] = seen[c]
  BY DEF TypeOK, Next, vars, read, Review, ReadRecord, ReadStale, Check, CoreWrites, CoreRefuses,
         OtherWrites, Steps, Answers
<1> QED BY <1>1, <1>2, <1>3, <1>4

\* What a step of one call does to what the calls have come to.
LEMMA OutcomeMoves ==
  ASSUME TypeOK, NEW c \in Calls, NEW at, pc' = [pc EXCEPT ![c] = at]
  PROVE  /\ [d \in Calls |-> Outcome(pc[d])]' =
              [[d \in Calls |-> Outcome(pc[d])] EXCEPT ![c] = Outcome(at)]
         /\ [d \in Calls |-> Outcome(pc[d])][c] = Outcome(pc[c])
         /\ Outcome(at) = Outcome(pc[c]) =>
              [d \in Calls |-> Outcome(pc[d])]' = [d \in Calls |-> Outcome(pc[d])]
BY DEF TypeOK

LEMMA OutcomeOf ==
  /\ Outcome("idle") = "new" /\ Outcome("reviewed") = "open" /\ Outcome("checking") = "open"
  /\ Outcome("sent") = "open" /\ Outcome("written") = "written"
  /\ Outcome("needs_input") = "declined" /\ Outcome("refused") = "declined"
BY DEF Outcome

LEMMA StepActs ==
  ASSUME WellFormed, GuidedInv, Blank, Sound(rows, side), [Next]_vars
  PROVE  Promise!Next \/ UNCHANGED Promise!vars
<1> DEFINE answer == [d \in Calls |-> Outcome(pc[d])]
<1>1. TypeOK /\ Asked /\ Confirmed
  BY DEF GuidedInv
<1>2. ASSUME NEW c \in Calls, NEW i \in Inputs, Review(c, i) PROVE Promise!Next
  <2>1. answer[c] = "new" /\ answer' = [answer EXCEPT ![c] = "open"]
    <3>1. pc[c] = "idle" /\ pc' = [pc EXCEPT ![c] = "reviewed"]
      BY <1>2 DEF Review
    <3>2. answer[c] = Outcome("idle") /\ answer' = [answer EXCEPT ![c] = Outcome("reviewed")]
      BY <1>1, <3>1, OutcomeMoves
    <3> QED BY <3>2, OutcomeOf
  <2> HIDE DEF answer
  <2>2. /\ input' = [input EXCEPT ![c] = i]
        /\ shown' = [shown EXCEPT ![c] = IF Target(i) = None THEN Absent ELSE rows[Target(i)]]
        /\ UNCHANGED <<rows, side>>
    BY <1>2 DEF Review, RowOf, Creates, core
  <2>3. Promise!Review(c)
    BY <2>1, <2>2 DEF Promise!Review, answer
  <2> QED BY <2>3 DEF Promise!Next
<1>3. ASSUME NEW c \in Calls, ReadStale(c) \/ Check(c) \/ ReadRecord(c) \/ CoreRefuses(c)
      PROVE  Promise!Next \/ UNCHANGED Promise!vars
  <2>1. UNCHANGED <<rows, side, input, shown>>
    BY <1>3 DEF ReadStale, Check, ReadRecord, CoreRefuses, core, read
  <2>2. PICK at \in Steps : /\ pc' = [pc EXCEPT ![c] = at]
                            /\ Outcome(pc[c]) = "open"
                            /\ Outcome(at) \in {"open", "declined"}
    <3>1. pc[c] \in {"reviewed", "checking", "sent"}
      BY <1>3 DEF ReadStale, Check, ReadRecord, CoreRefuses
    <3>2. \E at \in {"checking", "sent", "needs_input", "refused"} : pc' = [pc EXCEPT ![c] = at]
      BY <1>3 DEF ReadStale, Check, ReadRecord, CoreRefuses
    <3> QED BY <3>1, <3>2, OutcomeOf DEF Steps, Answers
  <2>3. CASE Outcome(at) = "open"
    <3>1. answer' = answer
      BY <1>1, <2>2, <2>3, OutcomeMoves
    <3> QED BY <2>1, <3>1 DEF Promise!vars
  <2>4. CASE Outcome(at) = "declined"
    <3>1. answer[c] = "open" /\ answer' = [answer EXCEPT ![c] = "declined"]
      BY <1>1, <2>2, <2>4, OutcomeMoves
    <3> HIDE DEF answer
    <3>2. Promise!Decline(c)
      BY <2>1, <3>1 DEF Promise!Decline, answer
    <3> QED BY <3>2 DEF Promise!Next
  <2> QED BY <2>2, <2>3, <2>4
<1>4. ASSUME NEW c \in Calls, CoreWrites(c) PROVE Promise!Next
  <2>1. answer[c] = "open" /\ answer' = [answer EXCEPT ![c] = "written"]
    <3>1. pc[c] = "sent" /\ pc' = [pc EXCEPT ![c] = "written"]
      BY <1>4 DEF CoreWrites
    <3>2. answer[c] = Outcome("sent") /\ answer' = [answer EXCEPT ![c] = Outcome("written")]
      BY <1>1, <3>1, OutcomeMoves
    <3> QED BY <3>2, OutcomeOf
  <2> HIDE DEF answer
  <2>2. input[c] \in Inputs /\ pc[c] = "sent"
    BY <1>1, <1>4 DEF CoreWrites, Asked
  <2>3. PICK r \in Records : /\ Acceptable(c, r, Edit(input[c], seen[c]))
                             /\ Write(r, Edit(input[c], seen[c]))
    BY <1>4 DEF CoreWrites
  <2>4. Target(input[c]) \in {r, None} /\ Applies(input[c], rows[r]) /\ Sound(rows', side)
    BY <2>3 DEF Acceptable, Creates, Write
  <2>5. rows[r] = shown[c] /\ seen[c] = shown[c]
    <3>1. CASE Creates(input[c])
      BY <1>1, <2>2, <2>4, <3>1 DEF Blank, WellFormed, TypeOK
    <3>2. CASE ~Creates(input[c])
      BY <1>1, <1>4, <2>2, <2>4, <3>2, WriteIsReviewed DEF Confirmed, Creates
    <3> QED BY <3>1, <3>2
  <2>6. Promise!Replaces(input[c], shown[c])
    BY <2>3, <2>4, <2>5 DEF Promise!Replaces, Write, Changed
  <2>7. UNCHANGED <<side, input, shown>>
    BY <1>4 DEF CoreWrites
  <2>8. Promise!Write(c)
    BY <2>1, <2>4, <2>6, <2>7 DEF Promise!Write, answer
  <2> QED BY <2>8 DEF Promise!Next
<1>5. ASSUME OtherWrites PROVE Promise!Next
  <2>1. UNCHANGED <<input, shown, pc>>
    BY <1>5 DEF OtherWrites
  <2>2. Sound(rows', side')
    BY <1>1, SoundNext
  <2>3. \/ UNCHANGED rows
        \/ /\ UNCHANGED side
           /\ \E i \in Inputs \cup OtherInputs, r \in Records : Promise!Replaces(i, rows[r])
    <3>1. CASE \E i \in Inputs \cup OtherInputs, r \in Records :
                 /\ Creates(i) \/ r = Target(i)
                 /\ Applies(i, rows[r])
                 /\ Write(r, Edit(i, rows[r]))
                 /\ UNCHANGED side
      BY <3>1 DEF Promise!Replaces, Creates, Write, Changed
    <3>2. CASE UNCHANGED rows
      BY <3>2
    <3> QED BY <1>5, <3>1, <3>2 DEF OtherWrites
  <2>4. answer' = answer
    BY <2>1
  <2>5. Promise!OtherWrites
    BY <2>1, <2>2, <2>3, <2>4 DEF Promise!OtherWrites
  <2> QED BY <2>5 DEF Promise!Next
<1>6. ASSUME UNCHANGED vars PROVE UNCHANGED Promise!vars
  BY <1>6 DEF vars, core, read, Promise!vars
<1> QED BY <1>2, <1>3, <1>4, <1>5, <1>6 DEF Next

\* Made of many transactions, with others writing between any two of them, a
\* guided write of any kind of record acts at once on the row that was reviewed,
\* or not at all.
THEOREM GuidedActsAtOnce == ASSUME WellFormed PROVE Spec => ActsAtOnce
<1>1. Init => Promise!Init
  BY OutcomeOf DEF Init, Promise!Init
<1>2. Init => Blank
  BY DEF Init, Blank
<1>3. GuidedInv /\ Blank /\ [Next]_vars => Blank'
  BY BlankNext DEF GuidedInv
<1>4. GuidedInv /\ Blank /\ Sound(rows, side) /\ [Next]_vars => [Promise!Next]_(Promise!vars)
  BY StepActs
<1>5. Spec => []GuidedInv /\ []Sound(rows, side)
  BY GuidedInvariant, GuidedSound
<1> QED BY <1>1, <1>2, <1>3, <1>4, <1>5, PTL DEF Spec, ActsAtOnce, Promise!Spec
=============================================================================
