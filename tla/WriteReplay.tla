---------------------------- MODULE WriteReplay ----------------------------
(***************************************************************************)
(* The guarded write path of the MCP server: executeMutationTool           *)
(* (types.go) around the process-wide writeReplayStore (write_guard.go).   *)
(*                                                                         *)
(* A call is one HTTP request that confirms a write: the goroutine that    *)
(* serves it, its replay key (user, tool, idempotency_key) and its         *)
(* payload fingerprint.  The first call of a key becomes the owner of a    *)
(* store entry and runs the tool's handler; later calls of the key wait    *)
(* for the entry and answer from it, or, for the tools that check current  *)
(* rights in the Core that owns the data, run the handler again.  A store  *)
(* entry is a heap object that its owner and its waiters keep pointing at  *)
(* after the map has dropped it, so entries are named by their owner.      *)
(*                                                                         *)
(* The Core behind the handler is external: it may apply a request at any  *)
(* time after it was sent, also when the caller has already given up.      *)
(***************************************************************************)
EXTENDS Integers, FiniteSets

CONSTANTS
  Calls,           \* confirmed tool calls, each served by one goroutine
  PlainKeys,       \* replay keys of tools without a durable receipt
  DurableKeys,     \* ... of tools with one, repeated calls answered from cache
  OwnerKeys,       \* ... of tools with one, repeated calls sent to the Core
  Payloads,        \* fingerprints of the tool input
  None,
  WriteReplayMax,  \* writeReplayMax, 2048 in the code
  WriteReplayTTL,  \* writeReplayTTL, 24 hours in the code
  MaxTime,         \* bound of the clock (model only)
  MaxCrashes       \* bound of the restarts (model only)

Keys == PlainKeys \cup DurableKeys \cup OwnerKeys

ASSUME CapacityAssumption == WriteReplayMax \in Nat /\ WriteReplayMax > 0
ASSUME ClockAssumption ==
  WriteReplayTTL \in Nat /\ MaxTime \in Nat /\ MaxCrashes \in Nat
ASSUME NoneAssumption == None \notin Calls \cup Keys \cup Payloads
ASSUME KindsAssumption ==
  PlainKeys \cap (DurableKeys \cup OwnerKeys) = {}
ASSUME FiniteAssumption == IsFiniteSet(Keys)

VARIABLES
  entries,    \* the store's map: replay key -> owner of its entry, or None
  createdAt,  \* call -> time its entry was created
  outcome,    \* call -> what its handler, or the cached entry, returned
  pc,         \* call -> where its goroutine stands
  key,        \* call -> replay key
  payload,    \* call -> fingerprint
  source,     \* call -> the entry it waits for (begin's `existing`)
  request,    \* call -> its request to the Core
  header,     \* call -> Idempotency-Key header of that request
  receipt,    \* Core: key -> payload recorded with the committed write
  mutated,    \* Core: calls whose request changed business data
  started,    \* calls that ran as owners since the process started
  now, crashes

store   == <<entries, createdAt>>
call    == <<outcome, pc, key, payload, source>>
core    == <<receipt, mutated>>
vars    == <<entries, createdAt, outcome, pc, key, payload, source,
             request, header, receipt, mutated, started, now, crashes>>

Outcomes == {"ok", "blocked", "error"}
Active   == {"waiting", "running", "forgetting", "replaying"}
Answered == {"fresh", "cached", "owner", "rejected", "canceled", "dropped"}

TypeOK ==
  /\ entries \in [Keys -> Calls \cup {None}]
  /\ createdAt \in [Calls -> Nat]
  /\ outcome \in [Calls -> Outcomes \cup {"none"}]
  /\ pc \in [Calls -> {"idle"} \cup Active \cup Answered]
  /\ key \in [Calls -> Keys \cup {None}]
  /\ payload \in [Calls -> Payloads \cup {None}]
  /\ source \in [Calls -> Calls \cup {None}]
  /\ request \in [Calls -> {"none", "sent", "applied", "refused"}]
  /\ header \in [Calls -> Keys \cup {None}]
  /\ receipt \in [Keys -> Payloads \cup {None}]
  /\ mutated \in SUBSET Calls
  /\ started \in SUBSET Calls
  /\ now \in Nat
  /\ crashes \in Nat

Init ==
  /\ entries = [k \in Keys |-> None]
  /\ createdAt = [c \in Calls |-> 0]
  /\ outcome = [c \in Calls |-> "none"]
  /\ pc = [c \in Calls |-> "idle"]
  /\ key = [c \in Calls |-> None]
  /\ payload = [c \in Calls |-> None]
  /\ source = [c \in Calls |-> None]
  /\ request = [c \in Calls |-> "none"]
  /\ header = [c \in Calls |-> None]
  /\ receipt = [k \in Keys |-> None]
  /\ mutated = {}
  /\ started = {}
  /\ now = 0
  /\ crashes = 0

----------------------------------------------------------------------------
(* The store: pruneLocked and begin, one critical section.                 *)

\* Mutant: the tools answered from the cache were left off the list.
HasDurableRetry_Short(k) == k \in OwnerKeys

\* hasDurableWarehouseRetry: a failed attempt may run again under its key.
HasDurableRetry(k) == k \in DurableKeys \cup OwnerKeys

\* The `done` channel of c's entry is closed.
Done(c) == outcome[c] # "none"

Held(e) == {k \in DOMAIN e : e[k] # None}

\* Mutant: off by one.
Expired_Early(k) == Done(entries[k]) /\ now - createdAt[entries[k]] >= WriteReplayTTL

Expired(k) == Done(entries[k]) /\ now - createdAt[entries[k]] > WriteReplayTTL

Unexpired ==
  [k \in Keys |-> IF k \in Held(entries) /\ Expired(k) THEN None ELSE entries[k]]

\* Mutant: calls in flight can be evicted too.
Evictable_InFlight(e) == Held(e)

\* The completed entries of e; only these may be evicted.
Evictable(e) == {k \in Held(e) : Done(e[k])}

OldestDone(e) ==
  {k \in Evictable(e) :
     \A j \in Evictable(e) : createdAt[e[k]] <= createdAt[e[j]]}

\* Mutant: off by one.
AtCapacity_OneMore(e) == Cardinality(Held(e)) > WriteReplayMax

AtCapacity(e) == Cardinality(Held(e)) >= WriteReplayMax

\* pruneLocked: the maps it can leave behind (it picks any of equally old ones).
Pruned ==
  IF AtCapacity(Unexpired) /\ Evictable(Unexpired) # {}
  THEN {[Unexpired EXCEPT ![k] = None] : k \in OldestDone(Unexpired)}
  ELSE {Unexpired}

\* Mutant: the fingerprint is not compared.
SamePayload_Any(c, p) == TRUE

SamePayload(c, p) == payload[c] = p

Arrive(c, k, p) ==
  /\ pc[c] = "idle"
  /\ key' = [key EXCEPT ![c] = k]
  /\ payload' = [payload EXCEPT ![c] = p]
  /\ UNCHANGED <<outcome, request, header, core, now, crashes>>

\* begin finds no entry after pruning: the call owns a new one.
BeginOwner(c, k, p) ==
  /\ Arrive(c, k, p)
  /\ \E e \in Pruned :
       /\ e[k] = None
       /\ entries' = [e EXCEPT ![k] = c]
  /\ createdAt' = [createdAt EXCEPT ![c] = now]
  /\ started' = started \cup {c}
  /\ pc' = [pc EXCEPT ![c] = "running"]
  /\ UNCHANGED source

\* begin finds the key used with another payload.
BeginConflict(c, k, p) ==
  /\ Arrive(c, k, p)
  /\ \E e \in Pruned :
       /\ e[k] # None
       /\ ~SamePayload(e[k], p)
       /\ entries' = e
  /\ pc' = [pc EXCEPT ![c] = "rejected"]
  /\ UNCHANGED <<createdAt, source, started>>

\* begin finds the same write, in flight or done: wait outside the lock.
BeginWait(c, k, p) ==
  /\ Arrive(c, k, p)
  /\ \E e \in Pruned :
       /\ e[k] # None
       /\ SamePayload(e[k], p)
       /\ entries' = e
       /\ source' = [source EXCEPT ![c] = e[k]]
  /\ pc' = [pc EXCEPT ![c] = "waiting"]
  /\ UNCHANGED <<createdAt, started>>

----------------------------------------------------------------------------
(* Waiting calls.                                                          *)

\* ctx.Done fires first in begin's select: the call fails, nothing else moves.
Cancel(c) ==
  /\ pc[c] = "waiting"
  /\ pc' = [pc EXCEPT ![c] = "canceled"]
  /\ UNCHANGED <<store, outcome, key, payload, source, request, header, core,
                 started, now, crashes>>

\* Mutant: the waiter looks its key up again instead of keeping the entry.
ResultReady_Lookup(c) == entries[key[c]] = source[c] /\ Done(source[c])

\* The `done` channel of the entry that begin found is closed.
ResultReady(c) == Done(source[c])

\* The entry is done; its data or its error is this call's answer too.
AnswerFromCache(c) ==
  /\ pc[c] = "waiting"
  /\ key[c] \notin OwnerKeys
  /\ ResultReady(c)
  /\ outcome' = [outcome EXCEPT ![c] = outcome[source[c]]]
  /\ pc' = [pc EXCEPT ![c] = "cached"]
  /\ UNCHANGED <<store, key, payload, source, request, header, core,
                 started, now, crashes>>

\* The entry is done, but the owning Core must check the caller's rights.
ReplayAtOwner(c) ==
  /\ pc[c] = "waiting"
  /\ key[c] \in OwnerKeys
  /\ ResultReady(c)
  /\ pc' = [pc EXCEPT ![c] = "replaying"]
  /\ UNCHANGED <<store, outcome, key, payload, source, request, header, core,
                 started, now, crashes>>

----------------------------------------------------------------------------
(* The tool's handler: its request to the Core and its return.             *)

InHandler(c) == pc[c] \in {"running", "replaying"}

\* Mutants: the repeated run forgets the key; the fingerprint is sent.
IdempotencyHeader_OwnerOnly(c) == IF pc[c] = "running" THEN key[c] ELSE None
IdempotencyHeader_Digest(c) == payload[c]

\* withMutationIdempotency on both paths, set as a header by doJSON.
IdempotencyHeader(c) == key[c]

Send(c) ==
  /\ InHandler(c)
  /\ request[c] = "none"
  /\ request' = [request EXCEPT ![c] = "sent"]
  /\ header' = [header EXCEPT ![c] = IdempotencyHeader(c)]
  /\ UNCHANGED <<store, call, core, started, now, crashes>>

\* What the handler can return: nothing sent and a preview that still needs
\* input or confirmation (err = nil), the Core's success, or an error, which
\* after a timeout or a lost response says nothing about the Core's state.
CanReturn(c, o) ==
  \/ o = "blocked" /\ request[c] = "none"
  \/ o = "ok" /\ request[c] = "applied"
  \/ o = "error"

\* The owner's handler returned: finish stores the result and closes done.
Finish(c, o) ==
  /\ pc[c] = "running"
  /\ CanReturn(c, o)
  /\ outcome' = [outcome EXCEPT ![c] = o]
  /\ pc' = [pc EXCEPT ![c] = IF o = "error" /\ HasDurableRetry(key[c])
                             THEN "forgetting" ELSE "fresh"]
  /\ UNCHANGED <<store, key, payload, source, request, header, core,
                 started, now, crashes>>

\* Mutant: whatever entry the key has is deleted.
StillOwn_Any(c) == entries[key[c]] # None

\* The map still points at c's own entry.
StillOwn(c) == entries[key[c]] = c

\* forgetFailed, a critical section of its own after finish.
ForgetFailed(c) ==
  /\ pc[c] = "forgetting"
  /\ entries' = IF StillOwn(c) THEN [entries EXCEPT ![key[c]] = None] ELSE entries
  /\ pc' = [pc EXCEPT ![c] = "fresh"]
  /\ UNCHANGED <<createdAt, outcome, key, payload, source, request, header,
                 core, started, now, crashes>>

\* The handler of a repeated call returned; the store is not told.
FinishReplay(c, o) ==
  /\ pc[c] = "replaying"
  /\ CanReturn(c, o)
  /\ outcome' = [outcome EXCEPT ![c] = o]
  /\ pc' = [pc EXCEPT ![c] = "owner"]
  /\ UNCHANGED <<store, key, payload, source, request, header, core,
                 started, now, crashes>>

----------------------------------------------------------------------------
(* The owning Core, external.  A durable one records payload and key in    *)
(* the transaction that writes, answers a repeated request from the        *)
(* record and refuses another payload; the others write every time.        *)

CoreReplays(c) ==
  HasDurableRetry(key[c]) /\ header[c] # None /\ receipt[header[c]] # None

CoreWrites(c) ==
  /\ request[c] = "sent"
  /\ ~CoreReplays(c)
  /\ request' = [request EXCEPT ![c] = "applied"]
  /\ mutated' = mutated \cup {c}
  /\ receipt' = IF HasDurableRetry(key[c]) /\ header[c] # None
                THEN [receipt EXCEPT ![header[c]] = payload[c]] ELSE receipt
  /\ UNCHANGED <<store, call, header, started, now, crashes>>

CoreAnswersReceipt(c) ==
  /\ request[c] = "sent"
  /\ CoreReplays(c)
  /\ receipt[header[c]] = payload[c]
  /\ request' = [request EXCEPT ![c] = "applied"]
  /\ UNCHANGED <<store, call, header, core, started, now, crashes>>

\* A rule of the Core, or a receipt for another payload, rejects the request.
CoreRefuses(c) ==
  /\ request[c] = "sent"
  /\ CoreReplays(c) => receipt[header[c]] # payload[c]
  /\ request' = [request EXCEPT ![c] = "refused"]
  /\ UNCHANGED <<store, call, header, core, started, now, crashes>>

----------------------------------------------------------------------------
(* The environment.                                                        *)

Tick ==
  /\ now < MaxTime
  /\ now' = now + 1
  /\ UNCHANGED <<store, call, request, header, core, started, crashes>>

\* The process stops (crash, or shutdown after its 20 seconds) and restarts:
\* the store is process memory; requests already sent stay with the Core.
Crash ==
  /\ crashes < MaxCrashes
  /\ crashes' = crashes + 1
  /\ entries' = [k \in Keys |-> None]
  /\ started' = {}
  /\ pc' = [c \in Calls |-> IF pc[c] \in Active THEN "dropped" ELSE pc[c]]
  /\ UNCHANGED <<createdAt, outcome, key, payload, source, request, header,
                 core, now>>

Begin(c) ==
  \E k \in Keys, p \in Payloads :
    BeginOwner(c, k, p) \/ BeginConflict(c, k, p) \/ BeginWait(c, k, p)

Return(c) ==
  \/ \E o \in Outcomes : Finish(c, o) \/ FinishReplay(c, o)
  \/ ForgetFailed(c)

Wake(c) == AnswerFromCache(c) \/ ReplayAtOwner(c)

CoreStep(c) == CoreWrites(c) \/ CoreAnswersReceipt(c) \/ CoreRefuses(c)

Next ==
  \/ \E c \in Calls : Begin(c) \/ Cancel(c) \/ Wake(c) \/ Send(c)
                      \/ Return(c) \/ CoreStep(c)
  \/ Tick
  \/ Crash

Spec == Init /\ [][Next]_vars

(* The 20-second timeout of the HTTP client makes every handler return,    *)
(* and the Go scheduler runs every goroutine that can run.  Nothing is     *)
(* assumed of the Core, of new calls, of the clock or of crashes.          *)
FairSpec == Spec /\ \A c \in Calls : WF_vars(Return(c)) /\ WF_vars(Wake(c))

----------------------------------------------------------------------------
(* The promise to durable tools, seen through the process and the Core.    *)

Durable(c) == HasDurableRetry(key[c])

Promise == INSTANCE IdempotentWrite WITH
  Keys         <- DurableKeys \cup OwnerKeys,
  askedKey     <- [c \in Calls |-> IF Durable(c) THEN key[c] ELSE None],
  askedPayload <- [c \in Calls |-> IF Durable(c) THEN payload[c] ELSE None],
  effects      <- {c \in mutated : Durable(c)},
  confirmed    <- {c \in Calls : Durable(c) /\ outcome[c] = "ok"}

\* The write path implements IdempotentWrite across retries, evictions,
\* timeouts, lost responses and restarts of the MCP process.
KeepsPromise == Promise!Spec

----------------------------------------------------------------------------
(* Properties.                                                             *)

\* At most one goroutine of the process runs the handler of a key as its
\* owner: concurrent retries are coalesced (begin), an entry in flight is
\* never pruned, and forgetFailed never removes a successor's entry.
AtMostOneRunner ==
  \A c, d \in Calls :
    pc[c] = "running" /\ pc[d] = "running" /\ key[c] = key[d] => c = d

\* SECURITY.md: within one process a confirmed call is deduplicated for 24
\* hours.  Two owners of one key in one process are more than the TTL apart,
\* unless the earlier one failed and its Core keeps a durable receipt.
DeduplicatedWithinTTL ==
  \A c, d \in started :
    c # d /\ key[c] = key[d] =>
      \/ createdAt[d] - createdAt[c] > WriteReplayTTL
      \/ createdAt[c] - createdAt[d] > WriteReplayTTL
      \/ HasDurableRetry(key[c]) /\ (outcome[c] = "error" \/ outcome[d] = "error")

\* A cached answer repeats the result of a call of the same user, tool and
\* key whose payload was the same (fingerprint check in begin).
CachedReplaysFirstResult ==
  \A c \in Calls :
    pc[c] = "cached" =>
      /\ source[c] # None
      /\ key[source[c]] = key[c]
      /\ payload[source[c]] = payload[c]
      /\ outcome[source[c]] = outcome[c]

\* When the first attempt of an owner-replay tool succeeded, the repeated
\* handler run of a later or concurrent call never writes again.
OwnerReplayAfterSuccess ==
  \A c \in Calls :
    /\ pc[c] \in {"replaying", "owner"}
    /\ outcome[source[c]] = "ok"
    => c \notin mutated

\* The answer "Durable owner replay: ... no additional mutation" (types.go)
\* is given only by a call whose own handler run changed nothing.
OwnerReplayWritesNothing ==
  \A c \in Calls : pc[c] = "owner" /\ outcome[c] = "ok" => c \notin mutated

\* A begin that finds the store full grows it only when every entry is still
\* in flight: completed results never push it past writeReplayMax.
GrowsPastCapOnlyInFlight ==
  [][ Cardinality(Held(entries')) > Cardinality(Held(entries))
        /\ Cardinality(Held(entries)) >= WriteReplayMax
      => Evictable(entries) = {} ]_vars

\* A waiting call is answered: by the entry it waits for, by its own handler
\* run at the Core, by its cancellation, or by the end of the process.
WaitersAnswered ==
  \A c \in Calls : pc[c] = "waiting" ~> pc[c] \in Answered

\* A failed attempt of a durable tool does not block its key: its entry is
\* gone in the end, so that a retry runs the handler again.
FailedDurableKeyFreed ==
  \A c \in Calls, k \in DurableKeys \cup OwnerKeys :
    (entries[k] = c /\ outcome[c] = "error") ~> (entries[k] # c)

----------------------------------------------------------------------------
(* The inductive invariant behind the proofs of WriteReplayProofs.         *)

\* A call that has not arrived has left no trace; one that has keeps its key.
ArrivalInv ==
  \A c \in Calls :
    IF pc[c] = "idle"
    THEN /\ key[c] = None /\ payload[c] = None /\ outcome[c] = "none"
         /\ request[c] = "none" /\ c \notin mutated /\ c \notin started
    ELSE key[c] \in Keys /\ payload[c] \in Payloads

\* An entry belongs to a call of its key that ran as owner in this process.
EntryInv ==
  /\ \A k \in Keys : entries[k] # None =>
       entries[k] \in started /\ key[entries[k]] = k
  /\ \A c \in started : pc[c] \in {"running", "forgetting", "fresh"}

\* The owner's entry stays in the map, open, while its handler runs; a call
\* about to forget its entry failed under a durable key.
OwnerInv ==
  \A c \in Calls :
    /\ pc[c] = "running" => entries[key[c]] = c /\ outcome[c] = "none"
    /\ pc[c] = "forgetting" => outcome[c] = "error" /\ HasDurableRetry(key[c])

\* A waiting or answered call points at an owner of its key and payload.
SourceInv ==
  \A c \in Calls :
    /\ pc[c] \in {"waiting", "replaying", "cached", "owner"} => source[c] # None
    /\ source[c] # None =>
         /\ pc[source[c]] \in {"running", "forgetting", "fresh", "dropped"}
         /\ key[source[c]] = key[c]
         /\ payload[source[c]] = payload[c]
    /\ pc[c] \in {"waiting", "replaying"} => outcome[c] = "none"
    /\ pc[c] = "cached" => Done(c) /\ outcome[c] = outcome[source[c]]

\* In one process the map has each owner's entry until it expires or fails.
RetentionInv ==
  \A c \in started :
    \/ entries[key[c]] = c
    \/ now - createdAt[c] > WriteReplayTTL
    \/ HasDurableRetry(key[c]) /\ outcome[c] = "error"

\* Requests carry their call's key, and a durable Core's record is the payload
\* of the one call that wrote under that key.
ReceiptInv ==
  /\ \A k \in Keys : receipt[k] # None => \E d \in mutated : key[d] = k
  /\ \A c \in Calls :
       /\ request[c] # "none" => header[c] = key[c]
       /\ c \in mutated => request[c] = "applied"
       /\ Durable(c) /\ (request[c] = "applied" \/ outcome[c] = "ok") =>
            \E d \in mutated : key[d] = key[c] /\ payload[d] = payload[c]
       /\ Durable(c) /\ c \in mutated =>
            /\ receipt[key[c]] = payload[c]
            /\ \A d \in mutated : key[d] = key[c] => d = c

\* A repeated handler run starts after the entry it waited for is done, and
\* finds the receipt when that first run succeeded.
RepeatInv ==
  \A c \in Calls :
    /\ pc[c] = "waiting" => request[c] = "none"
    /\ pc[c] \in {"replaying", "owner"} =>
         /\ key[c] \in OwnerKeys
         /\ Done(source[c])
         /\ outcome[source[c]] = "ok" => c \notin mutated

ReplayInv ==
  /\ TypeOK
  /\ ArrivalInv
  /\ EntryInv
  /\ OwnerInv
  /\ SourceInv
  /\ ReceiptInv
  /\ RepeatInv
=============================================================================
