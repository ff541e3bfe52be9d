------------------------- MODULE WriteReplayProofs -------------------------
(***************************************************************************)
(* Proofs about WriteReplay for every set of calls, keys and payloads,     *)
(* every capacity and every time to live.                                  *)
(***************************************************************************)
EXTENDS WriteReplay, FiniteSetTheorems, TLAPS

(* begin's pruning drops entries only, and only completed ones.            *)
LEMMA PrunedFacts ==
  ASSUME TypeOK, NEW e \in Pruned
  PROVE  /\ e \in [Keys -> Calls \cup {None}]
         /\ \A k \in Keys :
              e[k] = entries[k] \/ (e[k] = None /\ Done(entries[k]))
<1>1. /\ Unexpired \in [Keys -> Calls \cup {None}]
      /\ \A k \in Keys :
           Unexpired[k] = entries[k] \/ (Unexpired[k] = None /\ Done(entries[k]))
  BY DEF TypeOK, Unexpired, Held, Expired
<1>2. CASE e = Unexpired
  BY <1>1, <1>2
<1>3. CASE \E k \in OldestDone(Unexpired) : e = [Unexpired EXCEPT ![k] = None]
  <2>1. PICK k \in OldestDone(Unexpired) : e = [Unexpired EXCEPT ![k] = None]
    BY <1>3
  <2>2. k \in Keys /\ Unexpired[k] # None /\ Done(Unexpired[k])
    BY <1>1, <2>1 DEF OldestDone, Evictable, Held
  <2>3. QED
    BY <1>1, <2>1, <2>2
<1>4. QED
  BY <1>2, <1>3 DEF Pruned

----------------------------------------------------------------------------
(* Type correctness.  A cached answer copies the outcome of the entry its  *)
(* call waited for, so the types alone are not inductive.                  *)

WaitersHaveEntry == \A c \in Calls : pc[c] = "waiting" => source[c] # None

TypeInv == TypeOK /\ WaitersHaveEntry

LEMMA TypeInit == Init => TypeInv
  BY DEF Init, TypeInv, TypeOK, WaitersHaveEntry

LEMMA TypeStep == TypeInv /\ [Next]_vars => TypeOK'
<1> SUFFICES ASSUME TypeOK, WaitersHaveEntry, [Next]_vars PROVE TypeOK'
  BY DEF TypeInv
<1> USE DEF TypeOK
<1>1. ASSUME NEW c \in Calls, NEW k \in Keys, NEW p \in Payloads,
             BeginOwner(c, k, p)
      PROVE  TypeOK'
  BY <1>1, PrunedFacts DEF BeginOwner, Arrive, core, Active
<1>2. ASSUME NEW c \in Calls, NEW k \in Keys, NEW p \in Payloads,
             BeginConflict(c, k, p)
      PROVE  TypeOK'
  BY <1>2, PrunedFacts DEF BeginConflict, Arrive, core, Answered
<1>3. ASSUME NEW c \in Calls, NEW k \in Keys, NEW p \in Payloads,
             BeginWait(c, k, p)
      PROVE  TypeOK'
  BY <1>3, PrunedFacts DEF BeginWait, Arrive, core, Active
<1>4. ASSUME NEW c \in Calls, Cancel(c) PROVE TypeOK'
  BY <1>4 DEF Cancel, store, core, Answered
<1>5. ASSUME NEW c \in Calls, AnswerFromCache(c) PROVE TypeOK'
  <2>1. source[c] \in Calls
    BY <1>5 DEF AnswerFromCache, WaitersHaveEntry
  <2>2. QED
    BY <1>5, <2>1 DEF AnswerFromCache, store, core, Answered
<1>6. ASSUME NEW c \in Calls, ReplayAtOwner(c) PROVE TypeOK'
  BY <1>6 DEF ReplayAtOwner, store, core, Active
<1>7. ASSUME NEW c \in Calls, Send(c) PROVE TypeOK'
  BY <1>7 DEF Send, IdempotencyHeader, store, core, call
<1>8. ASSUME NEW c \in Calls, NEW o \in Outcomes, Finish(c, o) PROVE TypeOK'
  BY <1>8 DEF Finish, store, core, Active, Answered
<1>9. ASSUME NEW c \in Calls, ForgetFailed(c) PROVE TypeOK'
  BY <1>9 DEF ForgetFailed, core, Answered
<1>10. ASSUME NEW c \in Calls, NEW o \in Outcomes, FinishReplay(c, o)
       PROVE  TypeOK'
  BY <1>10 DEF FinishReplay, store, core, Answered
<1>11. ASSUME NEW c \in Calls, CoreWrites(c) PROVE TypeOK'
  BY <1>11 DEF CoreWrites, store, call
<1>12. ASSUME NEW c \in Calls, CoreAnswersReceipt(c) PROVE TypeOK'
  BY <1>12 DEF CoreAnswersReceipt, store, call, core
<1>13. ASSUME NEW c \in Calls, CoreRefuses(c) PROVE TypeOK'
  BY <1>13 DEF CoreRefuses, store, call, core
<1>14. CASE Tick
  BY <1>14, ClockAssumption DEF Tick, store, call, core
<1>15. CASE Crash
  BY <1>15 DEF Crash, core, Answered
<1>16. CASE UNCHANGED vars
  BY <1>16 DEF vars
<1>17. QED
  BY <1>1, <1>2, <1>3, <1>4, <1>5, <1>6, <1>7, <1>8, <1>9, <1>10, <1>11,
     <1>12, <1>13, <1>14, <1>15, <1>16
     DEF Next, Begin, Wake, Return, CoreStep

LEMMA WaitersStep == TypeInv /\ [Next]_vars => WaitersHaveEntry'
<1> SUFFICES ASSUME TypeOK, WaitersHaveEntry, [Next]_vars,
                    NEW d \in Calls, pc'[d] = "waiting"
             PROVE  source'[d] # None
  BY DEF TypeInv, WaitersHaveEntry
<1> USE DEF TypeOK, WaitersHaveEntry
<1>1. ASSUME NEW c \in Calls, NEW k \in Keys, NEW p \in Payloads,
             BeginWait(c, k, p)
      PROVE  source'[d] # None
  BY <1>1 DEF BeginWait
<1>2. ASSUME NEW c \in Calls, NEW k \in Keys, NEW p \in Payloads,
             BeginOwner(c, k, p) \/ BeginConflict(c, k, p)
      PROVE  source'[d] # None
  BY <1>2 DEF BeginOwner, BeginConflict
<1>3. ASSUME NEW c \in Calls,
             Cancel(c) \/ Wake(c) \/ Send(c) \/ Return(c) \/ CoreStep(c)
      PROVE  source'[d] # None
  BY <1>3 DEF Cancel, Wake, AnswerFromCache, ReplayAtOwner, ResultReady, Send, Return,
              Finish, FinishReplay, ForgetFailed, CoreStep, CoreWrites,
              CoreAnswersReceipt, CoreRefuses, call
<1>4. CASE Tick \/ Crash \/ UNCHANGED vars
  BY <1>4 DEF Tick, Crash, vars, call, Active
<1>5. QED
  BY <1>1, <1>2, <1>3, <1>4 DEF Next, Begin

\* Every variable keeps its type: the store maps keys to calls, and so on.
THEOREM TypeCorrect == Spec => []TypeOK
<1>1. TypeInv /\ [Next]_vars => TypeInv'
  BY TypeStep, WaitersStep DEF TypeInv
<1>2. TypeInv => TypeOK
  BY DEF TypeInv
<1>3. QED
  BY TypeInit, <1>1, <1>2, PTL DEF Spec

----------------------------------------------------------------------------
(* The inductive invariant ReplayInv, one lemma per part.  Each lemma goes *)
(* through the actions; those that leave the part's variables alone share  *)
(* a step.                                                                 *)

LEMMA InvInit == Init => ReplayInv
  BY TypeInit, NoneAssumption DEF TypeInv, Init, ReplayInv, ArrivalInv, EntryInv, OwnerInv,
     SourceInv, ReceiptInv, RepeatInv, Durable, HasDurableRetry, Keys

LEMMA ArrivalStep == TypeInv /\ ReplayInv /\ [Next]_vars => ArrivalInv'
<1> SUFFICES ASSUME TypeOK, ReplayInv, [Next]_vars PROVE ArrivalInv'
  BY DEF TypeInv
<1> USE DEF TypeOK, ReplayInv, ArrivalInv
<1>1. ASSUME NEW c \in Calls, NEW k \in Keys, NEW p \in Payloads,
             BeginOwner(c, k, p) \/ BeginConflict(c, k, p) \/ BeginWait(c, k, p)
      PROVE  ArrivalInv'
  BY <1>1 DEF BeginOwner, BeginConflict, BeginWait, Arrive, core
<1>2. ASSUME NEW c \in Calls, Cancel(c) \/ Wake(c) \/ Return(c)
      PROVE  ArrivalInv'
  BY <1>2 DEF Cancel, Wake, AnswerFromCache, ReplayAtOwner, ResultReady, Return, Finish,
              FinishReplay, ForgetFailed, core
<1>3. ASSUME NEW c \in Calls, Send(c) PROVE ArrivalInv'
  BY <1>3 DEF Send, InHandler, call, core
<1>4. ASSUME NEW c \in Calls, CoreStep(c) PROVE ArrivalInv'
  BY <1>4 DEF CoreStep, CoreWrites, CoreAnswersReceipt, CoreRefuses, call, core
<1>5. CASE Tick \/ UNCHANGED vars
  BY <1>5 DEF Tick, vars, call, core
<1>6. CASE Crash
  BY <1>6 DEF Crash, core, Active
<1>7. QED
  BY <1>1, <1>2, <1>3, <1>4, <1>5, <1>6 DEF Next, Begin

LEMMA EntryStep == TypeInv /\ ReplayInv /\ [Next]_vars => EntryInv'
<1> SUFFICES ASSUME TypeOK, ReplayInv, [Next]_vars PROVE EntryInv'
  BY DEF TypeInv
<1> USE DEF TypeOK, ReplayInv, ArrivalInv, EntryInv
<1>1. ASSUME NEW c \in Calls, NEW k \in Keys, NEW p \in Payloads,
             BeginOwner(c, k, p)
      PROVE  EntryInv'
  BY <1>1, PrunedFacts, NoneAssumption DEF BeginOwner, Arrive
<1>2. ASSUME NEW c \in Calls, NEW k \in Keys, NEW p \in Payloads,
             BeginConflict(c, k, p) \/ BeginWait(c, k, p)
      PROVE  EntryInv'
  BY <1>2, PrunedFacts, NoneAssumption DEF BeginConflict, BeginWait, Arrive
<1>3. ASSUME NEW c \in Calls, Cancel(c) \/ Wake(c)
      PROVE  EntryInv'
  BY <1>3 DEF Cancel, Wake, AnswerFromCache, ReplayAtOwner, ResultReady, store
<1>4. ASSUME NEW c \in Calls, NEW o \in Outcomes,
             Finish(c, o) \/ FinishReplay(c, o)
      PROVE  EntryInv'
  BY <1>4 DEF Finish, FinishReplay, store
<1>5. ASSUME NEW c \in Calls, ForgetFailed(c) PROVE EntryInv'
  BY <1>5 DEF ForgetFailed, StillOwn
<1>6. ASSUME NEW c \in Calls, Send(c) \/ CoreStep(c) PROVE EntryInv'
  BY <1>6 DEF Send, CoreStep, CoreWrites, CoreAnswersReceipt, CoreRefuses,
              call, store
<1>7. CASE Tick \/ UNCHANGED vars
  BY <1>7 DEF Tick, vars, call, store
<1>8. CASE Crash
  BY <1>8 DEF Crash
<1>9. QED
  BY <1>1, <1>2, <1>3, <1>4, <1>5, <1>6, <1>7, <1>8
     DEF Next, Begin, Return

LEMMA OwnerStep == TypeInv /\ ReplayInv /\ [Next]_vars => OwnerInv'
<1> SUFFICES ASSUME TypeOK, ReplayInv, [Next]_vars PROVE OwnerInv'
  BY DEF TypeInv
<1> USE DEF TypeOK, ReplayInv, ArrivalInv, OwnerInv
<1>1. ASSUME NEW c \in Calls, NEW k \in Keys, NEW p \in Payloads,
             BeginOwner(c, k, p)
      PROVE  OwnerInv'
  <2>1. PICK e \in Pruned : e[k] = None /\ entries' = [e EXCEPT ![k] = c]
    BY <1>1 DEF BeginOwner
  <2>2. \A d \in Calls : pc[d] = "running" => e[key[d]] = d /\ key[d] # k
    BY <2>1, PrunedFacts, NoneAssumption DEF Done
  <2>3. QED
    BY <1>1, <2>1, <2>2, PrunedFacts DEF BeginOwner, Arrive
<1>2. ASSUME NEW c \in Calls, NEW k \in Keys, NEW p \in Payloads,
             BeginConflict(c, k, p) \/ BeginWait(c, k, p)
      PROVE  OwnerInv'
  <2>1. entries' \in Pruned
    BY <1>2 DEF BeginConflict, BeginWait
  <2>2. \A d \in Calls : pc[d] = "running" => entries'[key[d]] = d
    BY <2>1, PrunedFacts DEF Done
  <2>3. QED
    BY <1>2, <2>2 DEF BeginConflict, BeginWait, Arrive
<1>3. ASSUME NEW c \in Calls, Cancel(c) \/ Wake(c)
      PROVE  OwnerInv'
  BY <1>3 DEF Cancel, Wake, AnswerFromCache, ReplayAtOwner, ResultReady, store
<1>4. ASSUME NEW c \in Calls, NEW o \in Outcomes,
             Finish(c, o) \/ FinishReplay(c, o)
      PROVE  OwnerInv'
  BY <1>4 DEF Finish, FinishReplay, store
<1>5. ASSUME NEW c \in Calls, ForgetFailed(c) PROVE OwnerInv'
  BY <1>5 DEF ForgetFailed, StillOwn
<1>6. ASSUME NEW c \in Calls, Send(c) \/ CoreStep(c) PROVE OwnerInv'
  BY <1>6 DEF Send, CoreStep, CoreWrites, CoreAnswersReceipt, CoreRefuses,
              call, store
<1>7. CASE Tick \/ UNCHANGED vars
  BY <1>7 DEF Tick, vars, call, store
<1>8. CASE Crash
  BY <1>8 DEF Crash, Active
<1>9. QED
  BY <1>1, <1>2, <1>3, <1>4, <1>5, <1>6, <1>7, <1>8
     DEF Next, Begin, Return

LEMMA SourceStep == TypeInv /\ ReplayInv /\ [Next]_vars => SourceInv'
<1> SUFFICES ASSUME TypeOK, ReplayInv, [Next]_vars PROVE SourceInv'
  BY DEF TypeInv
<1> USE DEF TypeOK, ReplayInv, ArrivalInv, SourceInv, Done
<1>1. ASSUME NEW c \in Calls, NEW k \in Keys, NEW p \in Payloads,
             BeginOwner(c, k, p) \/ BeginConflict(c, k, p)
      PROVE  SourceInv'
  BY <1>1, NoneAssumption DEF BeginOwner, BeginConflict, Arrive
<1>2. ASSUME NEW c \in Calls, NEW k \in Keys, NEW p \in Payloads,
             BeginWait(c, k, p)
      PROVE  SourceInv'
  <2>1. PICK e \in Pruned : /\ e[k] # None
                            /\ SamePayload(e[k], p)
                            /\ source' = [source EXCEPT ![c] = e[k]]
    BY <1>2 DEF BeginWait
  <2>2. /\ e[k] \in Calls
        /\ pc[e[k]] \in {"running", "forgetting", "fresh"}
        /\ key[e[k]] = k
        /\ payload[e[k]] = p
        /\ e[k] # c
    BY <1>2, <2>1, PrunedFacts DEF EntryInv, SamePayload, BeginWait, Arrive
  <2>3. ASSUME NEW d \in Calls, d # c, source[d] # None
        PROVE  source[d] \in Calls \ {c}
    BY <1>2, <2>3 DEF BeginWait, Arrive
  <2>4. pc' = [pc EXCEPT ![c] = "waiting"] /\ UNCHANGED outcome
        /\ key' = [key EXCEPT ![c] = k] /\ payload' = [payload EXCEPT ![c] = p]
        /\ outcome[c] = "none"
    BY <1>2 DEF BeginWait, Arrive
  <2>5. QED
    BY <2>1, <2>2, <2>3, <2>4, NoneAssumption
<1>3. ASSUME NEW c \in Calls, Cancel(c) \/ Wake(c)
      PROVE  SourceInv'
  BY <1>3, NoneAssumption DEF Cancel, Wake, AnswerFromCache, ReplayAtOwner, ResultReady
<1>4. ASSUME NEW c \in Calls, NEW o \in Outcomes,
             Finish(c, o) \/ FinishReplay(c, o)
      PROVE  SourceInv'
  BY <1>4, NoneAssumption DEF Finish, FinishReplay, OwnerInv
<1>5. ASSUME NEW c \in Calls, ForgetFailed(c) PROVE SourceInv'
  BY <1>5 DEF ForgetFailed
<1>6. ASSUME NEW c \in Calls, Send(c) \/ CoreStep(c) PROVE SourceInv'
  BY <1>6 DEF Send, CoreStep, CoreWrites, CoreAnswersReceipt, CoreRefuses, call
<1>7. CASE Tick \/ UNCHANGED vars
  BY <1>7 DEF Tick, vars, call
<1>8. CASE Crash
  BY <1>8 DEF Crash, Active
<1>9. QED
  BY <1>1, <1>2, <1>3, <1>4, <1>5, <1>6, <1>7, <1>8
     DEF Next, Begin, Return

LEMMA ReceiptStep == TypeInv /\ ReplayInv /\ [Next]_vars => ReceiptInv'
<1> SUFFICES ASSUME TypeOK, ReplayInv, [Next]_vars PROVE ReceiptInv'
  BY DEF TypeInv
<1> USE DEF TypeOK, ReplayInv, ArrivalInv, ReceiptInv, Durable, HasDurableRetry
<1>1. ASSUME NEW c \in Calls, NEW k \in Keys, NEW p \in Payloads,
             BeginOwner(c, k, p) \/ BeginConflict(c, k, p) \/ BeginWait(c, k, p)
      PROVE  ReceiptInv'
  <2>1. /\ key' = [key EXCEPT ![c] = k] /\ payload' = [payload EXCEPT ![c] = p]
        /\ UNCHANGED <<outcome, request, header, receipt, mutated>>
        /\ c \notin mutated /\ request[c] = "none" /\ outcome[c] = "none"
    BY <1>1 DEF BeginOwner, BeginConflict, BeginWait, Arrive, core
  <2>2. \A d \in mutated : key'[d] = key[d] /\ payload'[d] = payload[d]
    BY <2>1
  <2>3. QED
    BY <2>1, <2>2
<1>2. ASSUME NEW c \in Calls,
             Cancel(c) \/ ReplayAtOwner(c) \/ ForgetFailed(c)
      PROVE  ReceiptInv'
  BY <1>2 DEF Cancel, ReplayAtOwner, ForgetFailed, store, core
<1>3. ASSUME NEW c \in Calls, AnswerFromCache(c) PROVE ReceiptInv'
  BY <1>3 DEF AnswerFromCache, SourceInv, store, core
<1>4. ASSUME NEW c \in Calls, NEW o \in Outcomes,
             Finish(c, o) \/ FinishReplay(c, o)
      PROVE  ReceiptInv'
  BY <1>4 DEF Finish, FinishReplay, CanReturn, store, core
<1>5. ASSUME NEW c \in Calls, Send(c) PROVE ReceiptInv'
  BY <1>5 DEF Send, IdempotencyHeader, store, call, core
<1>6. ASSUME NEW c \in Calls, CoreWrites(c) PROVE ReceiptInv'
  <2>1. /\ header[c] = key[c] /\ key[c] \in Keys /\ payload[c] \in Payloads
        /\ c \notin mutated
    BY <1>6 DEF CoreWrites
  <2>2. Durable(c) => receipt[key[c]] = None
    BY <1>6, <2>1, NoneAssumption DEF CoreWrites, CoreReplays
  <2>3. Durable(c) => \A d \in mutated : key[d] # key[c]
    BY <2>2, NoneAssumption
  <2>4. /\ request' = [request EXCEPT ![c] = "applied"]
        /\ mutated' = mutated \cup {c}
        /\ UNCHANGED <<outcome, pc, key, payload, header>>
        /\ receipt' = IF Durable(c)
                      THEN [receipt EXCEPT ![key[c]] = payload[c]] ELSE receipt
    BY <1>6, <2>1, NoneAssumption DEF CoreWrites, call
  <2>5. QED
    BY <2>1, <2>2, <2>3, <2>4, NoneAssumption
<1>7. ASSUME NEW c \in Calls, CoreAnswersReceipt(c) PROVE ReceiptInv'
  <2>1. header[c] = key[c] /\ key[c] \in Keys
    BY <1>7 DEF CoreAnswersReceipt
  <2>2. PICK d \in mutated : key[d] = key[c]
    BY <1>7, <2>1 DEF CoreAnswersReceipt, CoreReplays
  <2>3. payload[d] = payload[c]
    BY <1>7, <2>1, <2>2 DEF CoreAnswersReceipt, CoreReplays
  <2>4. QED
    BY <1>7, <2>2, <2>3 DEF CoreAnswersReceipt, call, core
<1>8. ASSUME NEW c \in Calls, CoreRefuses(c) PROVE ReceiptInv'
  BY <1>8 DEF CoreRefuses, call, core
<1>9. CASE Tick \/ Crash \/ UNCHANGED vars
  BY <1>9 DEF Tick, Crash, vars, call, core
<1>10. QED
  BY <1>1, <1>2, <1>3, <1>4, <1>5, <1>6, <1>7, <1>8, <1>9
     DEF Next, Begin, Return, Wake, CoreStep

LEMMA RepeatStep == TypeInv /\ ReplayInv /\ [Next]_vars => RepeatInv'
<1> SUFFICES ASSUME TypeOK, ReplayInv, [Next]_vars PROVE RepeatInv'
  BY DEF TypeInv
<1> USE DEF TypeOK, ReplayInv, ArrivalInv, SourceInv, RepeatInv, Done
<1>1. ASSUME NEW c \in Calls, NEW k \in Keys, NEW p \in Payloads,
             BeginOwner(c, k, p) \/ BeginConflict(c, k, p) \/ BeginWait(c, k, p)
      PROVE  RepeatInv'
  <2>1. /\ pc' \in [Calls -> {"idle"} \cup Active \cup Answered]
        /\ pc'[c] \in {"running", "rejected", "waiting"}
        /\ \A d \in Calls \ {c} : /\ pc'[d] = pc[d] /\ key'[d] = key[d]
                                  /\ source'[d] = source[d]
        /\ UNCHANGED <<outcome, request, mutated>>
        /\ request[c] = "none"
    BY <1>1 DEF BeginOwner, BeginConflict, BeginWait, Arrive, core, Active,
                Answered
  <2>2. QED
    BY <2>1
<1>2. ASSUME NEW c \in Calls, Cancel(c) \/ Wake(c) \/ ForgetFailed(c)
      PROVE  RepeatInv'
  BY <1>2 DEF Cancel, Wake, AnswerFromCache, ReplayAtOwner, ResultReady, ForgetFailed, core,
              ReceiptInv
<1>3. ASSUME NEW c \in Calls, NEW o \in Outcomes,
             Finish(c, o) \/ FinishReplay(c, o)
      PROVE  RepeatInv'
  BY <1>3 DEF Finish, FinishReplay, OwnerInv, core
<1>4. ASSUME NEW c \in Calls, Send(c) PROVE RepeatInv'
  BY <1>4 DEF Send, InHandler, call, core
<1>5. ASSUME NEW c \in Calls, CoreWrites(c) PROVE RepeatInv'
  <2>1. ASSUME pc[c] \in {"replaying", "owner"}, outcome[source[c]] = "ok"
        PROVE  FALSE
    <3>1. /\ source[c] \in Calls /\ key[source[c]] = key[c] /\ Durable(c)
          /\ Durable(source[c]) /\ header[c] = key[c] /\ key[c] \in Keys
      BY <1>5, <2>1 DEF CoreWrites, ReceiptInv, Durable, HasDurableRetry
    <3>2. PICK d \in mutated : key[d] = key[c] /\ payload[d] = payload[c]
      BY <2>1, <3>1 DEF ReceiptInv
    <3>3. receipt[key[c]] = payload[d] /\ payload[d] \in Payloads
      BY <3>1, <3>2 DEF ReceiptInv, Durable
    <3>4. QED
      BY <1>5, <3>1, <3>3, NoneAssumption DEF CoreWrites, CoreReplays, Durable
  <2>2. QED
    BY <1>5, <2>1 DEF CoreWrites, call
<1>6. ASSUME NEW c \in Calls, CoreAnswersReceipt(c) \/ CoreRefuses(c)
      PROVE  RepeatInv'
  BY <1>6 DEF CoreAnswersReceipt, CoreRefuses, call, core
<1>7. CASE Tick \/ Crash \/ UNCHANGED vars
  BY <1>7 DEF Tick, Crash, vars, call, core, Active
<1>8. QED
  BY <1>1, <1>2, <1>3, <1>4, <1>5, <1>6, <1>7
     DEF Next, Begin, Return, CoreStep

LEMMA InvStep == TypeInv /\ ReplayInv /\ [Next]_vars => (TypeInv /\ ReplayInv)'
  BY TypeStep, WaitersStep, ArrivalStep, EntryStep, OwnerStep, SourceStep,
     ReceiptStep, RepeatStep DEF TypeInv, ReplayInv

\* ReplayInv holds in every reachable state.
THEOREM ReplayInvariant == Spec => [](TypeInv /\ ReplayInv)
<1>1. QED
  BY TypeInit, InvInit, InvStep, PTL DEF Spec

----------------------------------------------------------------------------
(* Consequences.                                                           *)

\* The process never runs the handler of one key twice at a time.
THEOREM OneRunner == Spec => []AtMostOneRunner
<1>1. TypeInv /\ ReplayInv => AtMostOneRunner
  BY DEF ReplayInv, OwnerInv, AtMostOneRunner
<1>2. QED
  BY <1>1, ReplayInvariant, PTL

\* A cached answer is the result of an earlier call with the same payload.
THEOREM CachedReplay == Spec => []CachedReplaysFirstResult
<1>1. TypeInv /\ ReplayInv => CachedReplaysFirstResult
  BY DEF ReplayInv, SourceInv, CachedReplaysFirstResult
<1>2. QED
  BY <1>1, ReplayInvariant, PTL

\* After a success, running an owner-replay tool again never writes again.
THEOREM OwnerReplay == Spec => []OwnerReplayAfterSuccess
<1>1. TypeInv /\ ReplayInv => OwnerReplayAfterSuccess
  BY DEF ReplayInv, RepeatInv, OwnerReplayAfterSuccess
<1>2. QED
  BY <1>1, ReplayInvariant, PTL

----------------------------------------------------------------------------
(* Deduplication.  The capacity of the store is the only way an unexpired  *)
(* result is lost within one process.                                      *)

LEMMA RetentionStep ==
  TypeInv /\ ReplayInv /\ RetentionInv /\ ~AtCapacity(Unexpired) /\ [Next]_vars
    => RetentionInv'
<1> SUFFICES ASSUME TypeOK, ReplayInv, RetentionInv, ~AtCapacity(Unexpired),
                    [Next]_vars
             PROVE  RetentionInv'
  BY DEF TypeInv
<1> USE DEF TypeOK, ReplayInv, ArrivalInv, EntryInv, RetentionInv
<1>1. Pruned = {Unexpired}
  BY DEF Pruned
<1>2. \A k \in Keys : Unexpired[k] = entries[k]
                     \/ now - createdAt[entries[k]] > WriteReplayTTL
  BY DEF Unexpired, Expired
<1>3. ASSUME NEW c \in Calls, NEW k \in Keys, NEW p \in Payloads,
             BeginOwner(c, k, p)
      PROVE  RetentionInv'
  <2>1. /\ Unexpired[k] = None
        /\ entries' = [Unexpired EXCEPT ![k] = c]
        /\ Unexpired \in [Keys -> Calls \cup {None}]
    BY <1>1, <1>3, PrunedFacts DEF BeginOwner
  <2>2. /\ createdAt' = [createdAt EXCEPT ![c] = now]
        /\ started' = started \cup {c} /\ c \notin started
        /\ key' = [key EXCEPT ![c] = k]
        /\ UNCHANGED <<outcome, now>>
    BY <1>3 DEF BeginOwner, Arrive
  <2>3. \A d \in started : entries[key[d]] = d =>
          \/ entries'[key[d]] = d
          \/ now - createdAt[d] > WriteReplayTTL
    BY <1>2, <2>1, NoneAssumption
  <2>4. QED
    BY <2>1, <2>2, <2>3
<1>4. ASSUME NEW c \in Calls, NEW k \in Keys, NEW p \in Payloads,
             BeginConflict(c, k, p) \/ BeginWait(c, k, p)
      PROVE  RetentionInv'
  <2>1. entries' = Unexpired
    BY <1>1, <1>4 DEF BeginConflict, BeginWait
  <2>2. QED
    BY <1>2, <1>4, <2>1 DEF BeginConflict, BeginWait, Arrive
<1>5. ASSUME NEW c \in Calls, Cancel(c) \/ Wake(c) PROVE RetentionInv'
  BY <1>5 DEF Cancel, Wake, AnswerFromCache, ReplayAtOwner, ResultReady, store
<1>6. ASSUME NEW c \in Calls, NEW o \in Outcomes,
             Finish(c, o) \/ FinishReplay(c, o)
      PROVE  RetentionInv'
  BY <1>6 DEF Finish, FinishReplay, OwnerInv, store
<1>7. ASSUME NEW c \in Calls, ForgetFailed(c) PROVE RetentionInv'
  BY <1>7 DEF ForgetFailed, StillOwn, OwnerInv
<1>8. ASSUME NEW c \in Calls, Send(c) \/ CoreStep(c) PROVE RetentionInv'
  BY <1>8 DEF Send, CoreStep, CoreWrites, CoreAnswersReceipt, CoreRefuses,
              call, store
<1>9. CASE Tick
  BY <1>9, ClockAssumption DEF Tick, call, store
<1>10. CASE Crash \/ UNCHANGED vars
  BY <1>10 DEF Crash, vars
<1>11. QED
  BY <1>3, <1>4, <1>5, <1>6, <1>7, <1>8, <1>9, <1>10 DEF Next, Begin, Return

LEMMA DeduplicationStep ==
  TypeInv /\ ReplayInv /\ RetentionInv /\ ~AtCapacity(Unexpired)
    /\ DeduplicatedWithinTTL /\ [Next]_vars
  => DeduplicatedWithinTTL'
<1> SUFFICES ASSUME TypeOK, ReplayInv, RetentionInv, ~AtCapacity(Unexpired),
                    DeduplicatedWithinTTL, [Next]_vars
             PROVE  DeduplicatedWithinTTL'
  BY DEF TypeInv
<1> USE DEF TypeOK, ReplayInv, ArrivalInv, EntryInv, DeduplicatedWithinTTL
<1>1. ASSUME NEW c \in Calls, NEW k \in Keys, NEW p \in Payloads,
             BeginOwner(c, k, p)
      PROVE  DeduplicatedWithinTTL'
  <2>1. Unexpired[k] = None
    BY <1>1 DEF BeginOwner, Pruned
  <2>2. /\ createdAt' = [createdAt EXCEPT ![c] = now]
        /\ started' = started \cup {c} /\ c \notin started
        /\ key' = [key EXCEPT ![c] = k]
        /\ UNCHANGED outcome
    BY <1>1 DEF BeginOwner, Arrive
  <2>3. \A d \in started : key[d] = k =>
          \/ now - createdAt[d] > WriteReplayTTL
          \/ HasDurableRetry(k) /\ outcome[d] = "error"
    BY <2>1, NoneAssumption DEF RetentionInv, Unexpired, Expired
  <2>4. QED
    BY <2>2, <2>3
<1>2. ASSUME NEW c \in Calls, NEW k \in Keys, NEW p \in Payloads,
             BeginConflict(c, k, p) \/ BeginWait(c, k, p)
      PROVE  DeduplicatedWithinTTL'
  BY <1>2 DEF BeginConflict, BeginWait, Arrive
<1>3. ASSUME NEW c \in Calls, Cancel(c) \/ Wake(c)
      PROVE  DeduplicatedWithinTTL'
  BY <1>3 DEF Cancel, Wake, AnswerFromCache, ReplayAtOwner, ResultReady, store
<1>4. ASSUME NEW c \in Calls, NEW o \in Outcomes,
             Finish(c, o) \/ FinishReplay(c, o)
      PROVE  DeduplicatedWithinTTL'
  BY <1>4 DEF Finish, FinishReplay, OwnerInv, store
<1>5. ASSUME NEW c \in Calls, ForgetFailed(c) PROVE DeduplicatedWithinTTL'
  BY <1>5 DEF ForgetFailed
<1>6. ASSUME NEW c \in Calls, Send(c) \/ CoreStep(c)
      PROVE  DeduplicatedWithinTTL'
  BY <1>6 DEF Send, CoreStep, CoreWrites, CoreAnswersReceipt, CoreRefuses,
              call, store
<1>7. CASE Tick \/ Crash \/ UNCHANGED vars
  BY <1>7 DEF Tick, Crash, vars, call, store
<1>8. QED
  BY <1>1, <1>2, <1>3, <1>4, <1>5, <1>6, <1>7 DEF Next, Begin, Return

\* As long as begin never finds the store full, every confirmed call of a
\* process is deduplicated for the time to live, whatever overlaps, fails or
\* is canceled.
THEOREM Deduplication ==
  Spec /\ []~AtCapacity(Unexpired) => []DeduplicatedWithinTTL
<1>1. Init => RetentionInv /\ DeduplicatedWithinTTL
  BY DEF Init, RetentionInv, DeduplicatedWithinTTL
<1>2. QED
  BY <1>1, RetentionStep, DeduplicationStep, ReplayInvariant, PTL DEF Spec

----------------------------------------------------------------------------
(* The size of the store.                                                  *)

LEMMA GrowthStep ==
  ASSUME TypeInv, NEW c \in Calls, NEW k \in Keys, NEW p \in Payloads,
         BeginOwner(c, k, p), AtCapacity(entries), Evictable(entries) # {}
  PROVE  Cardinality(Held(entries')) <= Cardinality(Held(entries))
<1> USE DEF TypeInv, TypeOK
<1>1. PICK e \in Pruned : e[k] = None /\ entries' = [e EXCEPT ![k] = c]
  BY DEF BeginOwner
<1>2. /\ e \in [Keys -> Calls \cup {None}]
      /\ Held(e) \subseteq Held(entries)
      /\ Held(entries) \in SUBSET Keys
  BY PrunedFacts DEF Held
<1>3. Held(entries') = Held(e) \cup {k}
  BY <1>1, <1>2, NoneAssumption DEF Held
<1>4. PICK j \in Held(entries) : j \notin Held(e)
  <2>1. CASE Unexpired = entries
    <3>1. PICK j \in OldestDone(entries) : e = [entries EXCEPT ![j] = None]
      BY <2>1 DEF Pruned
    <3>2. QED
      BY <3>1 DEF OldestDone, Evictable, Held
  <2>2. CASE Unexpired # entries
    <3>1. PICK j \in Keys : Unexpired[j] # entries[j]
      BY <2>2 DEF Unexpired
    <3>2. j \in Held(entries) /\ Unexpired[j] = None
      BY <3>1 DEF Unexpired
    <3>3. e = Unexpired \/ \E i \in Keys : e = [Unexpired EXCEPT ![i] = None]
      BY DEF Pruned, OldestDone, Evictable, Held, Unexpired
    <3>4. Unexpired \in [Keys -> Calls \cup {None}]
      BY DEF Unexpired
    <3>5. QED
      BY <3>2, <3>3, <3>4 DEF Held
  <2>3. QED
    BY <2>1, <2>2
<1>5. /\ IsFiniteSet(Held(entries)) /\ IsFiniteSet(Held(e))
      /\ IsFiniteSet(Held(entries) \ {j})
      /\ Cardinality(Held(entries)) \in Nat /\ Cardinality(Held(e)) \in Nat
      /\ Cardinality(Held(entries) \ {j}) = Cardinality(Held(entries)) - 1
  BY <1>2, <1>4, FiniteAssumption, FS_Subset, FS_RemoveElement,
     FS_CardinalityType
<1>6. Cardinality(Held(e)) <= Cardinality(Held(entries)) - 1
  BY <1>2, <1>4, <1>5, FS_Subset
<1>7. Cardinality(Held(entries')) <= Cardinality(Held(e)) + 1
  <2>1. Cardinality(Held(e) \cup {k}) =
          IF k \in Held(e) THEN Cardinality(Held(e)) ELSE Cardinality(Held(e)) + 1
    BY <1>5, FS_AddElement
  <2>2. QED
    BY <1>3, <1>5, <2>1
<1>8. Cardinality(Held(entries')) \in Nat
  BY <1>3, <1>5, FS_AddElement, FS_CardinalityType
<1>9. QED
  BY <1>5, <1>6, <1>7, <1>8

LEMMA ShrinkStep ==
  ASSUME TypeInv, [Next]_vars,
         ~\E c \in Calls, k \in Keys, p \in Payloads : BeginOwner(c, k, p)
  PROVE  Held(entries') \subseteq Held(entries)
<1> USE DEF TypeInv, TypeOK
<1>1. ASSUME NEW c \in Calls, NEW k \in Keys, NEW p \in Payloads,
             BeginConflict(c, k, p) \/ BeginWait(c, k, p)
      PROVE  Held(entries') \subseteq Held(entries)
  BY <1>1, PrunedFacts DEF BeginConflict, BeginWait, Held
<1>2. ASSUME NEW c \in Calls, ForgetFailed(c)
      PROVE  Held(entries') \subseteq Held(entries)
  BY <1>2 DEF ForgetFailed, StillOwn, Held
<1>3. CASE Crash
  BY <1>3 DEF Crash, Held
<1>4. ASSUME UNCHANGED entries PROVE Held(entries') \subseteq Held(entries)
  BY <1>4 DEF Held
<1>5. ASSUME NEW c \in Calls,
             \/ Cancel(c) \/ Wake(c) \/ Send(c) \/ CoreStep(c)
             \/ \E o \in Outcomes : Finish(c, o) \/ FinishReplay(c, o)
      PROVE  UNCHANGED entries
  BY <1>5 DEF Cancel, Wake, AnswerFromCache, ReplayAtOwner, ResultReady, Send, CoreStep,
              CoreWrites, CoreAnswersReceipt, CoreRefuses, Finish,
              FinishReplay, store
<1>6. CASE Tick \/ UNCHANGED vars
  BY <1>4, <1>6 DEF Tick, store, vars
<1>7. QED
  BY <1>1, <1>2, <1>3, <1>4, <1>5, <1>6 DEF Next, Begin, Return

\* A full store grows only when nothing in it can be evicted.
THEOREM Growth == Spec => GrowsPastCapOnlyInFlight
<1> DEFINE Grown ==
      /\ Cardinality(Held(entries')) > Cardinality(Held(entries))
      /\ Cardinality(Held(entries)) >= WriteReplayMax
<1>1. TypeInv /\ [Next]_vars => (Grown => Evictable(entries) = {})
  <2> SUFFICES ASSUME TypeInv, [Next]_vars, Grown, Evictable(entries) # {}
               PROVE  FALSE
    OBVIOUS
  <2>1. /\ Held(entries) \in SUBSET Keys /\ IsFiniteSet(Held(entries))
        /\ Cardinality(Held(entries)) \in Nat
    BY FiniteAssumption, FS_Subset, FS_CardinalityType DEF TypeInv, TypeOK, Held
  <2>2. TypeOK'
    BY TypeStep
  <2>3. /\ IsFiniteSet(Held(entries')) /\ Cardinality(Held(entries')) \in Nat
    <3>1. Held(entries') \in SUBSET Keys
      BY <2>2 DEF TypeOK, Held
    <3>2. QED
      BY <3>1, FiniteAssumption, FS_Subset, FS_CardinalityType
  <2>4. CASE \E c \in Calls, k \in Keys, p \in Payloads : BeginOwner(c, k, p)
    BY <2>1, <2>3, <2>4, GrowthStep DEF AtCapacity
  <2>5. CASE ~\E c \in Calls, k \in Keys, p \in Payloads : BeginOwner(c, k, p)
    BY <2>1, <2>3, <2>5, ShrinkStep, FS_Subset
  <2>6. QED
    BY <2>4, <2>5
<1>2. (TypeInv /\ ReplayInv) /\ [Next]_vars => [Grown => Evictable(entries) = {}]_vars
  BY <1>1
<1>3. QED
  BY <1>2, ReplayInvariant, PTL DEF Spec, GrowsPastCapOnlyInFlight, Grown

----------------------------------------------------------------------------
(* The write path implements IdempotentWrite.  Arrivals under a durable    *)
(* key are Ask steps, the Core's first write is Write, every return of a   *)
(* success is Confirm, and all other steps leave the abstract state alone. *)

Asked      == [c \in Calls |-> IF Durable(c) THEN key[c] ELSE None]
AskedWith  == [c \in Calls |-> IF Durable(c) THEN payload[c] ELSE None]
Effects    == {c \in mutated : Durable(c)}
Confirmed  == {c \in Calls : Durable(c) /\ outcome[c] = "ok"}

LEMMA AbstractInit == Init => Promise!Init
  BY NoneAssumption DEF Init, Promise!Init, Durable, HasDurableRetry, Keys

LEMMA AskStep ==
  ASSUME TypeInv, ReplayInv,
         NEW c \in Calls, NEW k \in Keys, NEW p \in Payloads,
         BeginOwner(c, k, p) \/ BeginConflict(c, k, p) \/ BeginWait(c, k, p)
  PROVE  \/ k \in DurableKeys \cup OwnerKeys /\ Promise!Ask(c, k, p)
         \/ UNCHANGED <<Asked, AskedWith, Effects, Confirmed>>
<1> USE DEF TypeInv, TypeOK, ReplayInv, ArrivalInv, Durable, HasDurableRetry
<1>1. /\ key' = [key EXCEPT ![c] = k] /\ payload' = [payload EXCEPT ![c] = p]
      /\ UNCHANGED <<outcome, mutated>>
      /\ c \notin mutated /\ outcome[c] = "none" /\ key[c] = None
  BY DEF BeginOwner, BeginConflict, BeginWait, Arrive, core
<1>2. ~Durable(c)
  BY <1>1, NoneAssumption DEF Keys
<1>3. Effects' = Effects /\ Confirmed' = Confirmed
  BY <1>1, <1>2 DEF Effects, Confirmed
<1>4. CASE HasDurableRetry(k)
  <2>1. /\ Asked' = [Asked EXCEPT ![c] = k]
        /\ AskedWith' = [AskedWith EXCEPT ![c] = p]
        /\ Asked[c] = None
    BY <1>1, <1>2, <1>4 DEF Asked, AskedWith
  <2>2. QED
    BY <1>3, <1>4, <2>1 DEF Promise!Ask, Asked, AskedWith, Effects, Confirmed
<1>5. CASE ~HasDurableRetry(k)
  <2>1. Asked' = Asked /\ AskedWith' = AskedWith
    BY <1>1, <1>2, <1>5 DEF Asked, AskedWith
  <2>2. QED
    BY <1>3, <2>1
<1>6. QED
  BY <1>4, <1>5

LEMMA WriteStep ==
  ASSUME TypeInv, ReplayInv, NEW c \in Calls, CoreWrites(c)
  PROVE  Promise!Write(c) \/ UNCHANGED <<Asked, AskedWith, Effects, Confirmed>>
<1> USE DEF TypeInv, TypeOK, ReplayInv, ArrivalInv, ReceiptInv
<1>1. /\ mutated' = mutated \cup {c} /\ UNCHANGED <<key, payload, outcome>>
      /\ key[c] \in Keys /\ header[c] = key[c]
  BY DEF CoreWrites, call
<1>2. Asked' = Asked /\ AskedWith' = AskedWith /\ Confirmed' = Confirmed
  BY <1>1 DEF Asked, AskedWith, Confirmed, Durable
<1>3. CASE Durable(c)
  <2>1. receipt[key[c]] = None
    BY <1>1, <1>3, NoneAssumption DEF CoreWrites, CoreReplays, Durable
  <2>2. \A d \in mutated : Durable(d) => key[d] # key[c]
    BY <2>1, NoneAssumption
  <2>3. Effects' = Effects \cup {c}
    BY <1>1, <1>3 DEF Effects, Durable
  <2>4. Asked[c] # None /\ \A d \in Effects : Asked[d] # Asked[c]
    BY <1>1, <1>3, <2>2, NoneAssumption DEF Asked, Effects
  <2>5. QED
    BY <1>2, <2>3, <2>4 DEF Promise!Write, Asked, AskedWith, Effects, Confirmed
<1>4. CASE ~Durable(c)
  <2>1. Effects' = Effects
    BY <1>1, <1>4 DEF Effects, Durable
  <2>2. QED
    BY <1>2, <2>1
<1>5. QED
  BY <1>3, <1>4

LEMMA ConfirmStep ==
  ASSUME TypeInv, ReplayInv, ReplayInv', NEW c \in Calls,
         NEW o \in Outcomes \cup {"none"}, outcome' = [outcome EXCEPT ![c] = o],
         outcome[c] = "none", UNCHANGED <<key, payload, mutated>>
  PROVE  Promise!Confirm(c) \/ UNCHANGED <<Asked, AskedWith, Effects, Confirmed>>
<1> USE DEF TypeInv, TypeOK, ReplayInv, ArrivalInv, ReceiptInv
<1>1. Asked' = Asked /\ AskedWith' = AskedWith /\ Effects' = Effects
  BY DEF Asked, AskedWith, Effects, Durable
<1>2. CASE Durable(c) /\ o = "ok"
  <2>1. Confirmed' = Confirmed \cup {c}
    BY <1>2 DEF Confirmed, Durable
  <2>2. PICK d \in mutated : key[d] = key[c] /\ payload[d] = payload[c]
    BY <1>2 DEF Durable
  <2>3. /\ Asked[c] # None /\ d \in Effects
        /\ Asked[d] = Asked[c] /\ AskedWith[d] = AskedWith[c]
    BY <1>2, <2>2, NoneAssumption
       DEF Asked, AskedWith, Effects, Durable, HasDurableRetry, Keys
  <2>4. QED
    BY <1>1, <2>1, <2>3
       DEF Promise!Confirm, Asked, AskedWith, Effects, Confirmed
<1>3. CASE ~(Durable(c) /\ o = "ok")
  <2>1. Confirmed' = Confirmed
    BY <1>3 DEF Confirmed, Durable
  <2>2. QED
    BY <1>1, <2>1
<1>4. QED
  BY <1>2, <1>3

LEMMA OtherStep ==
  ASSUME UNCHANGED <<outcome, key, payload, mutated>>
  PROVE  UNCHANGED <<Asked, AskedWith, Effects, Confirmed>>
  BY DEF Asked, AskedWith, Effects, Confirmed, Durable

LEMMA AbstractStep ==
  TypeInv /\ ReplayInv /\ (TypeInv /\ ReplayInv)' /\ [Next]_vars
    => [Promise!Next]_(Promise!vars)
<1> SUFFICES ASSUME TypeInv, ReplayInv, TypeInv', ReplayInv', [Next]_vars
             PROVE  \/ Promise!Next
                    \/ UNCHANGED <<Asked, AskedWith, Effects, Confirmed>>
  BY DEF Promise!vars, Asked, AskedWith, Effects, Confirmed
<1>1. ASSUME NEW c \in Calls, Begin(c)
      PROVE  \/ Promise!Next
             \/ UNCHANGED <<Asked, AskedWith, Effects, Confirmed>>
  BY <1>1, AskStep DEF Begin, Promise!Next
<1>2. ASSUME NEW c \in Calls, CoreWrites(c)
      PROVE  \/ Promise!Next
             \/ UNCHANGED <<Asked, AskedWith, Effects, Confirmed>>
  BY <1>2, WriteStep DEF Promise!Next
<1>3. ASSUME NEW c \in Calls, NEW o \in Outcomes,
             Finish(c, o) \/ FinishReplay(c, o)
      PROVE  \/ Promise!Next
             \/ UNCHANGED <<Asked, AskedWith, Effects, Confirmed>>
  <2>1. /\ outcome' = [outcome EXCEPT ![c] = o] /\ outcome[c] = "none"
        /\ UNCHANGED <<key, payload, mutated>>
    BY <1>3 DEF Finish, FinishReplay, core, ReplayInv, OwnerInv, SourceInv
  <2>2. QED
    BY <2>1, ConfirmStep DEF Promise!Next
<1>4. ASSUME NEW c \in Calls, AnswerFromCache(c)
      PROVE  \/ Promise!Next
             \/ UNCHANGED <<Asked, AskedWith, Effects, Confirmed>>
  <2>1. /\ source[c] \in Calls /\ outcome[source[c]] \in Outcomes \cup {"none"}
        /\ outcome' = [outcome EXCEPT ![c] = outcome[source[c]]]
        /\ outcome[c] = "none" /\ UNCHANGED <<key, payload, mutated>>
    BY <1>4 DEF AnswerFromCache, core, ReplayInv, SourceInv, TypeInv, TypeOK
  <2>2. QED
    BY <2>1, ConfirmStep DEF Promise!Next
<1>5. ASSUME NEW c \in Calls,
             \/ Cancel(c) \/ ReplayAtOwner(c) \/ Send(c) \/ ForgetFailed(c)
             \/ CoreAnswersReceipt(c) \/ CoreRefuses(c)
      PROVE  UNCHANGED <<Asked, AskedWith, Effects, Confirmed>>
  BY <1>5, OtherStep DEF Cancel, ReplayAtOwner, Send, ForgetFailed,
     CoreAnswersReceipt, CoreRefuses, call, core
<1>6. CASE Tick \/ Crash \/ UNCHANGED vars
  BY <1>6, OtherStep DEF Tick, Crash, vars, call, core
<1>7. QED
  BY <1>1, <1>2, <1>3, <1>4, <1>5, <1>6 DEF Next, Return, Wake, CoreStep

\* One idempotency key of a durable tool writes at most once, and success is
\* reported only for the write that was asked for, across retries, evictions,
\* lost responses and restarts.
THEOREM Refinement == Spec => KeepsPromise
<1>1. QED
  BY AbstractInit, AbstractStep, ReplayInvariant, PTL
     DEF Spec, KeepsPromise, Promise!Spec
=============================================================================
