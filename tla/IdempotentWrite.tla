-------------------------- MODULE IdempotentWrite --------------------------
(***************************************************************************)
(* What the guarded write path promises for the tools whose Core keeps a   *)
(* durable receipt (the comment on hasDurableWarehouseRetry in             *)
(* write_guard.go): "successful or ambiguous commits replay at the target  *)
(* instead of creating another record".  However calls repeat, overlap,    *)
(* time out or meet a restart, one idempotency key writes business data at *)
(* most once, and a call is told of success only when the write it asked   *)
(* for, with its payload, is the one that was made.                        *)
(***************************************************************************)
CONSTANTS Calls, Keys, Payloads, None

VARIABLES
  askedKey,      \* call -> its idempotency key, None before it arrives
  askedPayload,  \* call -> its payload, None before it arrives
  effects,       \* the calls whose request wrote business data
  confirmed      \* the calls that were told of success

vars == <<askedKey, askedPayload, effects, confirmed>>

Init ==
  /\ askedKey = [c \in Calls |-> None]
  /\ askedPayload = [c \in Calls |-> None]
  /\ effects = {}
  /\ confirmed = {}

Ask(c, k, p) ==
  /\ askedKey[c] = None
  /\ askedKey' = [askedKey EXCEPT ![c] = k]
  /\ askedPayload' = [askedPayload EXCEPT ![c] = p]
  /\ UNCHANGED <<effects, confirmed>>

Write(c) ==
  /\ askedKey[c] # None
  /\ \A d \in effects : askedKey[d] # askedKey[c]
  /\ effects' = effects \cup {c}
  /\ UNCHANGED <<askedKey, askedPayload, confirmed>>

Confirm(c) ==
  /\ askedKey[c] # None
  /\ \E d \in effects :
       askedKey[d] = askedKey[c] /\ askedPayload[d] = askedPayload[c]
  /\ confirmed' = confirmed \cup {c}
  /\ UNCHANGED <<askedKey, askedPayload, effects>>

Next ==
  \E c \in Calls :
    \/ \E k \in Keys, p \in Payloads : Ask(c, k, p)
    \/ Write(c)
    \/ Confirm(c)

Spec == Init /\ [][Next]_vars
=============================================================================
