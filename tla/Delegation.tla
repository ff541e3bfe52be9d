----------------------------- MODULE Delegation -----------------------------
(***************************************************************************)
(* What the authorization server promises the users of the suite (the      *)
(* section on OAuth in docs/SECURITY.md): a client acts for a user only    *)
(* with a grant that descends from what the user approved in the browser,  *)
(* exchanged once by the client it was approved for, and every exchange,   *)
(* refresh and call is made at a moment when the user is active, a call    *)
(* with the role the user has at that very moment.  There are no codes in  *)
(* memory, no signatures, no expiry and no requests that stop between two  *)
(* lookups; an answer on its way may be lost at a restart, and nothing is  *)
(* gained otherwise.                                                       *)
(***************************************************************************)
CONSTANTS
  Codes, Requests, Users, None,   \* see OAuthServer
  Consents,      \* what a user can have approved: client, user and choices
  WriteScopes,
  Approved(_)    \* the scopes that such a choice means

VARIABLES
  consents,  \* code -> what its user approved in the browser, or None
  spent,     \* codes that were exchanged, or lost in the attempt
  held,      \* request -> the grant its client got: root, client, user, scopes
  acts,      \* request -> the grant and the role it acts with, or None
  active, admin,
  writes     \* the running process allows writes

vars == <<consents, spent, held, acts, active, admin, writes>>

Init ==
  /\ consents = [c \in Codes |-> None]
  /\ spent = {}
  /\ held = [r \in Requests |-> None]
  /\ acts = [r \in Requests |-> None]
  /\ active \in [Users -> BOOLEAN]
  /\ admin \in [Users -> BOOLEAN]
  /\ writes \in BOOLEAN

Allowed(scopes) == scopes \cap WriteScopes # {} => writes

Agree(c) ==
  /\ consents[c] = None
  /\ \E consent \in Consents :
       /\ Allowed(Approved(consent))
       /\ consents' = [consents EXCEPT ![c] = consent]
  /\ UNCHANGED <<spent, held, acts, active, admin, writes>>

\* The client that was approved gets what was approved.
Exchange(r, c) ==
  /\ consents[c] # None /\ c \notin spent
  /\ held[r] = None
  /\ active[consents[c].user]
  /\ Allowed(Approved(consents[c]))
  /\ spent' = spent \cup {c}
  /\ held' = [held EXCEPT ![r] =
       [root |-> c, client |-> consents[c].client, user |-> consents[c].user,
        scopes |-> Approved(consents[c])]]
  /\ UNCHANGED <<consents, acts, active, admin, writes>>

\* An exchange that fails uses the code up.
Void(c) ==
  /\ consents[c] # None
  /\ spent' = spent \cup {c}
  /\ UNCHANGED <<consents, held, acts, active, admin, writes>>

\* With what s got: all scopes are kept or, without writes, all but the writes.
Refresh(r, s) ==
  /\ held[r] = None /\ held[s] # None
  /\ active[held[s].user]
  /\ held' = [held EXCEPT ![r] =
       [held[s] EXCEPT !.scopes = IF writes THEN @ ELSE @ \ WriteScopes]]
  /\ UNCHANGED <<consents, spent, acts, active, admin, writes>>

\* An API request, with what s got.
Act(r, s) ==
  /\ acts[r] = None /\ held[s] # None
  /\ active[held[s].user]
  /\ acts' = [acts EXCEPT ![r] = [grant |-> held[s], admin |-> admin[held[s].user]]]
  /\ UNCHANGED <<consents, spent, held, active, admin, writes>>

ChangeUser(u) ==
  /\ \E isActive, isAdmin \in BOOLEAN :
       /\ active' = [active EXCEPT ![u] = isActive]
       /\ admin' = [admin EXCEPT ![u] = isAdmin]
  /\ UNCHANGED <<consents, spent, held, acts, writes>>

\* Answers on their way are lost.
Restart ==
  /\ writes' \in BOOLEAN
  /\ spent \subseteq spent' /\ spent' \in SUBSET Codes
  /\ \E lost \in SUBSET Requests :
       held' = [r \in Requests |-> IF r \in lost THEN None ELSE held[r]]
  /\ UNCHANGED <<consents, acts, active, admin>>

Next ==
  \/ \E c \in Codes : Agree(c) \/ Void(c) \/ \E r \in Requests : Exchange(r, c)
  \/ \E r, s \in Requests : Refresh(r, s) \/ Act(r, s)
  \/ \E u \in Users : ChangeUser(u)
  \/ Restart

Spec == Init /\ [][Next]_vars
=============================================================================
