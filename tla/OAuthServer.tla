---------------------------- MODULE OAuthServer ----------------------------
(***************************************************************************)
(* The authorization server of the MCP endpoint (internal/authn/oauth.go): *)
(* a browser consent becomes a one-time code, the code a token pair, the   *)
(* refresh token further pairs, and an access token the identity and the   *)
(* scopes of an API request.                                               *)
(*                                                                         *)
(* Tokens are signed statements that the client keeps; the server stores   *)
(* only the unexchanged codes, in process memory.  Every request is a      *)
(* goroutine of its own: it reads the user's current state from the suite  *)
(* database between the steps that touch the codes or the claims, while    *)
(* an administrator may change the user and the process may restart, with  *)
(* writes enabled or not.                                                  *)
(***************************************************************************)
EXTENDS Integers, FiniteSets

CONSTANTS
  Users, Clients,
  Requests,       \* HTTP requests, each served by one goroutine
  Codes,          \* authorization codes, random and therefore distinct
  DataScopes,     \* granularDataScopes
  WriteScopes,    \* granularWriteScopes and the general write scope
  ReadScope,      \* cores:read
  GeneralWrite,   \* cores:write
  Askable,        \* the scope parameters clients send
  None,
  CodeLife,       \* 5 minutes
  AccessLife,     \* 1 hour
  RefreshLife,    \* 30 days
  MaxTime, MaxChanges, MaxRestarts   \* bounds (model only)

Scopes == {ReadScope} \cup DataScopes \cup WriteScopes

ASSUME ScopeAssumption ==
  /\ GeneralWrite \in WriteScopes
  /\ ReadScope \notin DataScopes \cup WriteScopes
  /\ DataScopes \cap WriteScopes = {}
ASSUME LifeAssumption ==
  CodeLife \in Nat /\ AccessLife \in Nat /\ RefreshLife \in Nat

VARIABLES
  codes,         \* OAuthServer.codes: code -> its grant and issue time, or None
  consents,      \* code -> what the user approved in the browser (history)
  redeemers,     \* code -> requests that exchanged it (history)
  tokens,        \* the token pairs handed out: grant and issue time
  pc,            \* request -> where its goroutine stands
  work,          \* request -> the grant it is working on
  wasActive,     \* request -> its user was active at some moment since it began
  wasAdmin,      \* request -> the admin flags its user has had since it began
  active, admin, \* suite database: users.is_active, users.is_admin
  writesEnabled, \* MCP_ENABLE_WRITES of the running process
  now, changes, restarts

local == <<pc, work, wasActive, wasAdmin>>
users == <<active, admin, changes>>
vars  == <<codes, consents, redeemers, tokens, pc, work, wasActive, wasAdmin,
           active, admin, writesEnabled, now, changes, restarts>>

\* A grant is the content of a code and of the claims of a token; root names
\* the code it descends from, which neither of them contains.
Grants  == [root: Codes, client: Clients, user: Users, admin: BOOLEAN,
            scopes: SUBSET Scopes]
Stamped == [grant: Grants, time: Nat]
Consents == [client: Clients, user: Users, asked: SUBSET Scopes,
             mode: {"read", "write"}, financial: BOOLEAN]

\* A grant without the admin flag, which only a lookup decides.
PlainGrants == [root: Codes, client: Clients, user: Users, scopes: SUBSET Scopes]

ASSUME NoneAssumption == None \notin Grants \cup PlainGrants \cup Stamped \cup Consents

Authorizing == {"approving", "storing"}
Exchanging  == {"checking", "issuing"}
Verifying   == {"verifying", "rights"}
InFlight    == Authorizing \cup Exchanging \cup Verifying
Answered    == {"stored", "issued", "granted", "refused", "dropped"}

TypeOK ==
  /\ codes \in [Codes -> Stamped \cup {None}]
  /\ consents \in [Codes -> Consents \cup {None}]
  /\ redeemers \in [Codes -> SUBSET Requests]
  /\ tokens \in SUBSET Stamped
  /\ pc \in [Requests -> {"idle"} \cup InFlight \cup Answered]
  /\ work \in [Requests -> Grants \cup {None}]
  /\ wasActive \in [Requests -> BOOLEAN]
  /\ wasAdmin \in [Requests -> SUBSET BOOLEAN]
  /\ active \in [Users -> BOOLEAN]
  /\ admin \in [Users -> BOOLEAN]
  /\ writesEnabled \in BOOLEAN
  /\ now \in Nat /\ changes \in Nat /\ restarts \in Nat

Init ==
  /\ codes = [c \in Codes |-> None]
  /\ consents = [c \in Codes |-> None]
  /\ redeemers = [c \in Codes |-> {}]
  /\ tokens = {}
  /\ pc = [r \in Requests |-> "idle"]
  /\ work = [r \in Requests |-> None]
  /\ wasActive = [r \in Requests |-> FALSE]
  /\ wasAdmin = [r \in Requests |-> {}]
  /\ active \in [Users -> BOOLEAN]
  /\ admin \in [Users -> BOOLEAN]
  /\ writesEnabled \in BOOLEAN
  /\ now = 0 /\ changes = 0 /\ restarts = 0

----------------------------------------------------------------------------
(* Scopes.                                                                 *)

\* Mutant: data scopes are added together with the write scopes.
RequestedScopes_DataWithWrites(asked, enable) ==
  {ReadScope} \cup (IF enable THEN asked \cap (DataScopes \cup WriteScopes) ELSE {})

\* requestedScopes: read always, data scopes as asked, writes when enabled.
RequestedScopes(asked, enable) ==
  {ReadScope} \cup (asked \cap DataScopes)
    \cup (IF enable THEN asked \cap WriteScopes ELSE {})

\* The scope loop of validateAuthorizationRequest.
Supported(asked) ==
  asked \subseteq {ReadScope} \cup DataScopes
                   \cup (IF writesEnabled THEN WriteScopes ELSE {})

\* Mutant: the general write scope is added to granular ones.
ConsentScopes_AlwaysGeneral(asked, mode) ==
  IF mode = "read" THEN RequestedScopes(asked, FALSE)
  ELSE RequestedScopes(asked, TRUE) \cup {GeneralWrite}

\* consentScopes: the choice on the consent page decides about writes.
ConsentScopes(asked, mode) ==
  IF mode = "read" THEN RequestedScopes(asked, FALSE)
  ELSE LET scopes == RequestedScopes(asked, TRUE)
       IN IF scopes \cap WriteScopes = {} THEN scopes \cup {GeneralWrite} ELSE scopes

\* The filter of authorize: data scopes only with the separate permission.
Filtered(asked, financial) == IF financial THEN asked ELSE asked \ DataScopes

----------------------------------------------------------------------------
(* Requests: arrival and the user lookups all of them share.               *)

\* A request begins; the history variables start from the user of its grant.
Arrive(r, g, next) ==
  /\ pc[r] = "idle"
  /\ pc' = [pc EXCEPT ![r] = next]
  /\ work' = [work EXCEPT ![r] = g]
  /\ wasActive' = [wasActive EXCEPT ![r] = active[g.user]]
  /\ wasAdmin' = [wasAdmin EXCEPT ![r] = {admin[g.user]}]
  /\ UNCHANGED <<users, writesEnabled, now, restarts>>

\* A request fails on its own input or on a lookup; nothing else changes.
Refuse(r) ==
  /\ pc[r] \in {"approving", "checking", "verifying", "rights"}
  /\ pc' = [pc EXCEPT ![r] = "refused"]
  /\ UNCHANGED <<codes, consents, redeemers, tokens, work, wasActive, wasAdmin, users,
                 writesEnabled, now, restarts>>

\* Mutant: only a database error refuses.
MayProceed_Any(u) == TRUE

\* validateUser found the user, active.
MayProceed(u) == active[u]

\* The successor of a user lookup (a database error or an inactive user is
\* Refuse).
AfterLookup(p) ==
  CASE p = "approving" -> "storing"
    [] p = "checking"  -> "issuing"
    [] p = "verifying" -> "rights"

ValidateUser(r) ==
  /\ pc[r] \in {"approving", "checking", "verifying"}
  /\ MayProceed(work[r].user)
  /\ pc' = [pc EXCEPT ![r] = AfterLookup(pc[r])]
  /\ UNCHANGED <<codes, consents, redeemers, tokens, work, wasActive, wasAdmin, users,
                 writesEnabled, now, restarts>>

----------------------------------------------------------------------------
(* POST /oauth/authorize.                                                  *)

\* The decision arrives with the user of the suite cookie, whose admin flag
\* may be old.  A registered client asked, with scopes this process supports,
\* and the process grants the access mode.  The code is chosen later; naming
\* it here names the grant.
Approve(r, c, cl, u, asked, mode, financial, cookieAdmin) ==
  /\ consents[c] = None
  /\ Supported(asked)
  /\ mode = "write" => writesEnabled
  /\ consents' = [consents EXCEPT ![c] =
       [client |-> cl, user |-> u, asked |-> asked, mode |-> mode,
        financial |-> financial]]
  /\ Arrive(r, [root |-> c, client |-> cl, user |-> u, admin |-> cookieAdmin,
                scopes |-> ConsentScopes(Filtered(asked, financial), mode)],
            "approving")
  /\ UNCHANGED <<codes, redeemers, tokens>>

\* now.After(code.ExpiresAt)
CodeExpired(s) == now > s.time + CodeLife

\* pruneCodesLocked and the insertion, one critical section.
StoreCode(r) ==
  /\ pc[r] = "storing"
  /\ codes' = [c \in Codes |->
       IF c = work[r].root THEN [grant |-> work[r], time |-> now]
       ELSE IF codes[c] # None /\ CodeExpired(codes[c]) THEN None
       ELSE codes[c]]
  /\ pc' = [pc EXCEPT ![r] = "stored"]
  /\ UNCHANGED <<consents, redeemers, tokens, work, wasActive, wasAdmin, users,
                 writesEnabled, now, restarts>>

----------------------------------------------------------------------------
(* POST /oauth/token.                                                      *)

\* Mutant: the code is deleted only after the tokens were written.
WithoutCode_Kept(c) == codes

\* exchangeCode reads and deletes the code in one critical section.
WithoutCode(c) == [codes EXCEPT ![c] = None]

\* The code belongs to the authenticated client and has not expired.
Redeemable(s, cl) == ~CodeExpired(s) /\ s.grant.client = cl

\* exchangeCode up to the user check; proved: the redirect URI and the PKCE
\* verifier match.  A failed attempt has used the code up.
TakeCode(r, c, cl, proved) ==
  /\ codes[c] # None
  /\ codes' = WithoutCode(c)
  /\ LET redeemed == Redeemable(codes[c], cl) /\ proved
     IN /\ Arrive(r, [codes[c].grant EXCEPT !.client = cl],
                  IF redeemed THEN "checking" ELSE "refused")
        /\ redeemers' = IF redeemed THEN [redeemers EXCEPT ![c] = @ \cup {r}]
                        ELSE redeemers
  /\ UNCHANGED <<consents, tokens>>

\* claims.ID = client.ID
OwnRefreshToken(t, cl) == t.grant.client = cl

\* exchangeRefreshToken up to the user check: a token of this client, not
\* expired; the new scopes are those that this process still supports.
StartRefresh(r, t, cl) ==
  /\ OwnRefreshToken(t, cl)
  /\ now < t.time + RefreshLife
  /\ Arrive(r, [t.grant EXCEPT !.client = cl,
                               !.scopes = RequestedScopes(@, writesEnabled)],
            "checking")
  /\ UNCHANGED <<codes, consents, redeemers, tokens>>

\* writeTokens: one access and one refresh token with the same claims.
WriteTokens(r) ==
  /\ pc[r] = "issuing"
  /\ tokens' = tokens \cup {[grant |-> work[r], time |-> now]}
  /\ pc' = [pc EXCEPT ![r] = "issued"]
  /\ UNCHANGED <<codes, consents, redeemers, work, wasActive, wasAdmin, users,
                 writesEnabled, now, restarts>>

----------------------------------------------------------------------------
(* VerifyToken, before every request to /mcp.                              *)

StartVerify(r, t) ==
  /\ now < t.time + AccessLife
  /\ Arrive(r, t.grant, "verifying")
  /\ UNCHANGED <<codes, consents, redeemers, tokens>>

\* Mutant: the admin flag of the claims is used.
CurrentAdmin_Claims(r) == work[r].admin

\* userRights: the user's current role replaces the one in the claims.
CurrentAdmin(r) == admin[work[r].user]

LookupRights(r) ==
  /\ pc[r] = "rights"
  /\ MayProceed(work[r].user)
  /\ work' = [work EXCEPT ![r].admin = CurrentAdmin(r)]
  /\ pc' = [pc EXCEPT ![r] = "granted"]
  /\ UNCHANGED <<codes, consents, redeemers, tokens, wasActive, wasAdmin, users,
                 writesEnabled, now, restarts>>

----------------------------------------------------------------------------
(* The environment.                                                        *)

\* An administrator changes the user in the suite; the history of the requests
\* at work on that user follows.
ChangeUser(u, isActive, isAdmin) ==
  /\ changes < MaxChanges
  /\ active' = [active EXCEPT ![u] = isActive]
  /\ admin' = [admin EXCEPT ![u] = isAdmin]
  /\ changes' = changes + 1
  /\ wasActive' = [r \in Requests |->
       wasActive[r] \/ (pc[r] \in InFlight /\ work[r].user = u /\ isActive)]
  /\ wasAdmin' = [r \in Requests |->
       IF pc[r] \in InFlight /\ work[r].user = u
       THEN wasAdmin[r] \cup {isAdmin} ELSE wasAdmin[r]]
  /\ UNCHANGED <<codes, consents, redeemers, tokens, pc, work, writesEnabled, now, restarts>>

\* Mutant: the codes are kept in a store that outlives the process.
CodesAfterRestart_Kept == codes

\* make(map[string]authorizationCode) in NewOAuthServer
CodesAfterRestart == [c \in Codes |-> None]

\* The process stops and starts again, with writes enabled or not.
Restart(enable) ==
  /\ restarts < MaxRestarts
  /\ restarts' = restarts + 1
  /\ writesEnabled' = enable
  /\ codes' = CodesAfterRestart
  /\ pc' = [r \in Requests |-> IF pc[r] \in InFlight THEN "dropped" ELSE pc[r]]
  /\ UNCHANGED <<consents, redeemers, tokens, work, wasActive, wasAdmin, users, now>>

Tick ==
  /\ now < MaxTime
  /\ now' = now + 1
  /\ UNCHANGED <<codes, consents, redeemers, tokens, local, users, writesEnabled, restarts>>

Browser(r) ==
  \/ \E c \in Codes, cl \in Clients, u \in Users, asked \in Askable,
        mode \in {"read", "write"}, financial, cookieAdmin \in BOOLEAN :
       Approve(r, c, cl, u, asked, mode, financial, cookieAdmin)
  \/ StoreCode(r)

Client(r) ==
  \/ \E c \in Codes, cl \in Clients, proved \in BOOLEAN : TakeCode(r, c, cl, proved)
  \/ \E t \in tokens, cl \in Clients : StartRefresh(r, t, cl)
  \/ \E t \in tokens : StartVerify(r, t)
  \/ WriteTokens(r)

Lookup(r) == ValidateUser(r) \/ LookupRights(r) \/ Refuse(r)

Next ==
  \/ \E r \in Requests : Browser(r) \/ Client(r) \/ Lookup(r)
  \/ \E u \in Users, isActive, isAdmin \in BOOLEAN : ChangeUser(u, isActive, isAdmin)
  \/ \E enable \in BOOLEAN : Restart(enable)
  \/ Tick

Spec == Init /\ [][Next]_vars

----------------------------------------------------------------------------
(* The abstract specification.                                             *)

\* What the user saw and chose: read, the financial access if allowed, and
\* under "read and write" the writes asked for, or the general one if none was.
Approved(c) ==
  {ReadScope}
    \cup (IF c.financial THEN c.asked \cap DataScopes ELSE {})
    \cup (IF c.mode = "read" THEN {}
          ELSE IF c.asked \cap WriteScopes = {} THEN {GeneralWrite}
          ELSE c.asked \cap WriteScopes)

Plain(g) == [root |-> g.root, client |-> g.client, user |-> g.user, scopes |-> g.scopes]

\* The user check is the moment of an exchange or a refresh, also of one that
\* fails, and the lookup of the rights that of an API request.
Spent == {c \in Codes : \E r \in redeemers[c] : pc[r] # "checking"}

Held == [r \in Requests |->
           IF pc[r] \in {"issuing", "issued"} THEN Plain(work[r]) ELSE None]

Acts == [r \in Requests |->
           IF pc[r] = "granted"
           THEN [grant |-> Plain(work[r]), admin |-> work[r].admin] ELSE None]

Promise == INSTANCE Delegation WITH
  spent <- Spent, held <- Held, acts <- Acts, writes <- writesEnabled

\* Codes in memory, one-time exchange, signed claims and two separate lookups
\* amount to this: nothing is granted but what a user approved in the browser,
\* and each step is taken as if at one moment, with the rights of that moment,
\* while other requests, administrators and restarts come between (SECURITY.md:
\* one-time codes; the account is checked on access, exchange and refresh).
DelegatesAsApproved == Promise!Spec

----------------------------------------------------------------------------
(* Properties.                                                             *)

\* No chain of exchanges and refreshes gives a token, or an API request, more
\* than its user approved in the browser, nor to another client or user.
ScopeCeiling ==
  LET Within(g) == /\ consents[g.root] # None
                   /\ g.client = consents[g.root].client
                   /\ g.user = consents[g.root].user
                   /\ g.scopes \subseteq Approved(consents[g.root])
  IN /\ \A t \in tokens : Within(t.grant)
     /\ \A r \in Requests : pc[r] = "granted" => Within(work[r])

\* A refresh keeps all that was granted but the writes, and those it keeps or
\* drops together: only a process without writes narrows a token.
RefreshKeepsScopes ==
  \A t \in tokens :
    LET approved == Approved(consents[t.grant.root])
    IN \/ t.grant.scopes = approved
       \/ t.grant.scopes = approved \ WriteScopes /\ restarts > 0

\* A code is exchanged at most once: SECURITY.md's one-time codes, also when
\* two requests present it together or the first exchange fails.
OneExchangePerCode ==
  \A c \in Codes : \A r, s \in redeemers[c] : r = s

\* A process without writes hands out no write scope, whatever earlier
\* processes granted (codes in memory, requestedScopes on refresh).
NoWritesWhileDisabled ==
  [][ \A t \in tokens' \ tokens :
        t.grant.scopes \cap WriteScopes # {} => writesEnabled ]_vars

\* SECURITY.md: the account is checked on every API access, code exchange and
\* refresh.  A request that succeeds had an active user at some moment of its
\* own life, and an API request acts with a role the user had during it.
RightsCurrentDuringRequest ==
  \A r \in Requests :
    /\ pc[r] \in {"stored", "issued", "granted"} => wasActive[r]
    /\ pc[r] = "granted" => work[r].admin \in wasAdmin[r]

----------------------------------------------------------------------------
(* The inductive invariant behind the proofs of OAuthServerProofs.         *)

\* A request that has begun works on a grant that the browser approved.
WorkInv ==
  \A r \in Requests :
    pc[r] # "idle" => work[r] \in Grants /\ consents[work[r].root] # None

\* A grant is its consent, or its consent without the writes.
OfConsent(g) ==
  LET consent == consents[g.root]
  IN /\ consent # None
     /\ g.client = consent.client
     /\ g.user = consent.user
     /\ \/ g.scopes = Approved(consent)
        \/ g.scopes = Approved(consent) \ WriteScopes /\ restarts > 0

\* Codes, tokens and the requests that may still succeed carry such grants.
GrantInv ==
  /\ \A c \in Codes : codes[c] # None => OfConsent(codes[c].grant)
  /\ \A t \in tokens : OfConsent(t.grant)
  /\ \A r \in Requests :
       pc[r] \in InFlight \cup {"granted"} => OfConsent(work[r])

\* A code is being stored by one request, or it is in the map, or it was
\* exchanged by one request.
CodeInv ==
  /\ \A c \in Codes :
       codes[c] # None => codes[c].grant.root = c /\ redeemers[c] = {}
  /\ \A c \in Codes : redeemers[c] # {} => consents[c] # None
  /\ \A c \in Codes : \A r, s \in redeemers[c] : r = s
  /\ \A r \in Requests :
       pc[r] \in Authorizing =>
         /\ codes[work[r].root] = None
         /\ redeemers[work[r].root] = {}
         /\ \A s \in Requests :
              pc[s] \in Authorizing /\ work[s].root = work[r].root => s = r

\* In a process without writes no code and no request on its way to a code or
\* to tokens has a write scope; before the first restart no consent has one.
WriteInv ==
  ~writesEnabled =>
    /\ \A c \in Codes : codes[c] # None => codes[c].grant.scopes \cap WriteScopes = {}
    /\ \A r \in Requests :
         pc[r] \in Authorizing \cup Exchanging => work[r].scopes \cap WriteScopes = {}
    /\ restarts = 0 =>
         \A c \in Codes : consents[c] # None => consents[c].mode = "read"

\* The history variables know the user's present state, and what passed a
\* lookup met an active user.
RightsInv ==
  \A r \in Requests :
    /\ pc[r] \in InFlight =>
         /\ active[work[r].user] => wasActive[r]
         /\ admin[work[r].user] \in wasAdmin[r]
    /\ pc[r] \in {"storing", "issuing", "rights", "stored", "issued", "granted"}
         => wasActive[r]
    /\ pc[r] = "granted" => work[r].admin \in wasAdmin[r]

CodesComplete ==
  \A c \in Codes : codes[c] # None => codes[c].grant.scopes = Approved(consents[c])

\* Who exchanged a code works on its grant, and on nothing else.
Redeeming ==
  \A c \in Codes : \A r \in redeemers[c] :
    /\ pc[r] \in {"checking", "issuing", "issued", "refused", "dropped"}
    /\ work[r].root = c

\* Until its user is checked a request works on all that was approved, or on
\* the grant of a token, less what this process does not support.
Descends(r) ==
  /\ pc[r] \in Authorizing => work[r].scopes = Approved(consents[work[r].root])
  /\ pc[r] = "checking" =>
       IF r \in redeemers[work[r].root]
       THEN work[r].scopes = Approved(consents[work[r].root])
       ELSE \E t \in tokens :
              work[r] = [t.grant EXCEPT !.scopes = RequestedScopes(@, writesEnabled)]
  /\ pc[r] \in Verifying => \E t \in tokens : work[r] = t.grant

Issued == \A t \in tokens : \E r \in Requests : pc[r] = "issued" /\ work[r] = t.grant

DescentInv ==
  /\ CodesComplete
  /\ Redeeming
  /\ \A r \in Requests : Descends(r)
  /\ Issued

ServerInv ==
  /\ TypeOK
  /\ WorkInv
  /\ GrantInv
  /\ CodeInv
  /\ WriteInv
  /\ RightsInv

OAuthInv == ServerInv /\ DescentInv
=============================================================================
