------------------------- MODULE OAuthServerProofs -------------------------
(***************************************************************************)
(* Proofs about the authorization server for any number of users, clients, *)
(* codes and requests, any scopes, and any sequence of restarts.           *)
(* At the end, proofs about the client that is challenged before a tool    *)
(* call and comes back here for a consent (ToolScopes).                    *)
(***************************************************************************)
EXTENDS OAuthServer, ToolScopes, TLAPS

----------------------------------------------------------------------------
(* Scopes.                                                                 *)

\* consentScopes and the filter of authorize grant what the page promised.
LEMMA ConsentGrantsApproved ==
  ASSUME NEW consent \in Consents
  PROVE  ConsentScopes(Filtered(consent.asked, consent.financial), consent.mode)
           = Approved(consent)
BY ScopeAssumption
   DEF ConsentScopes, RequestedScopes, Filtered, Approved, Consents, Scopes

\* requestedScopes on a refresh keeps a consent's scopes, or drops its writes.
LEMMA RefreshOfApproved ==
  ASSUME NEW consent \in Consents, NEW enable \in BOOLEAN,
         NEW scopes,
         scopes = Approved(consent) \/ scopes = Approved(consent) \ WriteScopes
  PROVE  /\ RequestedScopes(scopes, enable) \subseteq Scopes
         /\ enable => RequestedScopes(scopes, enable) = scopes
         /\ ~enable => RequestedScopes(scopes, enable) = Approved(consent) \ WriteScopes
BY ScopeAssumption DEF RequestedScopes, Approved, Consents, Scopes

\* Nothing approved under "read only" is a write scope.
LEMMA ReadOnlyApproval ==
  ASSUME NEW consent \in Consents
  PROVE  /\ Approved(consent) \subseteq Scopes
         /\ consent.mode = "read" => Approved(consent) \cap WriteScopes = {}
         /\ (Approved(consent) \ WriteScopes) \cap WriteScopes = {}
BY ScopeAssumption DEF Approved, Consents, Scopes

----------------------------------------------------------------------------
(* The invariant holds initially and is preserved by each action.          *)

LEMMA InitInv == Init => ServerInv
<1> SUFFICES ASSUME Init PROVE ServerInv
  OBVIOUS
<1>1. TypeOK
  BY DEF Init, TypeOK
<1>2. WorkInv /\ GrantInv /\ CodeInv /\ RightsInv
  BY DEF Init, WorkInv, GrantInv, CodeInv, RightsInv, InFlight, Authorizing,
         Exchanging, Verifying
<1>3. WriteInv
  BY DEF Init, WriteInv, Authorizing, Exchanging
<1>4. QED
  BY <1>1, <1>2, <1>3 DEF ServerInv

LEMMA ApproveInv ==
  ASSUME ServerInv,
         NEW r \in Requests, NEW c \in Codes, NEW cl \in Clients,
         NEW u \in Users, NEW asked \in Askable, NEW mode \in {"read", "write"},
         NEW financial \in BOOLEAN, NEW cookieAdmin \in BOOLEAN,
         Approve(r, c, cl, u, asked, mode, financial, cookieAdmin)
  PROVE  ServerInv'
<1> DEFINE consent == [client |-> cl, user |-> u, asked |-> asked, mode |-> mode,
                       financial |-> financial]
           g == [root |-> c, client |-> cl, user |-> u, admin |-> cookieAdmin,
                 scopes |-> ConsentScopes(Filtered(asked, financial), mode)]
<1> USE DEF ServerInv
<1>1. consent \in Consents
  BY DEF Approve, Supported, Consents, Scopes
<1>2. g.scopes = Approved(consent) /\ g \in Grants
  BY <1>1, ConsentGrantsApproved, ReadOnlyApproval DEF Grants
<1>3. /\ consents[c] = None
      /\ consents' = [consents EXCEPT ![c] = consent]
      /\ pc[r] = "idle"
      /\ pc' = [pc EXCEPT ![r] = "approving"]
      /\ work' = [work EXCEPT ![r] = g]
      /\ wasActive' = [wasActive EXCEPT ![r] = active[u]]
      /\ wasAdmin' = [wasAdmin EXCEPT ![r] = {admin[u]}]
      /\ UNCHANGED <<codes, redeemers, tokens, active, admin, changes,
                     writesEnabled, now, restarts>>
      /\ mode = "write" => writesEnabled
  BY DEF Approve, Arrive, users
<1> HIDE DEF consent, g
<1>4. g.root = c /\ g.client = cl /\ g.user = u
  BY DEF g
<1>5. consent.client = cl /\ consent.user = u /\ consent.mode = mode
  BY DEF consent
<1>6. TypeOK'
  BY <1>1, <1>2, <1>3 DEF TypeOK, InFlight, Authorizing
<1>7. consents' \in [Codes -> Consents \cup {None}] /\ consents \in [Codes -> Consents \cup {None}]
  BY <1>6 DEF TypeOK
<1>8. consent # None /\ consents'[c] = consent
  BY <1>1, <1>3, <1>7, NoneAssumption
<1>9. ASSUME NEW h, h.root \in Codes, OfConsent(h)
      PROVE  OfConsent(h)'
  BY <1>9, <1>3, <1>7 DEF OfConsent
<1>10. OfConsent(g)'
  BY <1>2, <1>4, <1>5, <1>8 DEF OfConsent
<1>11. \A s \in Requests : s # r =>
         pc'[s] = pc[s] /\ work'[s] = work[s] /\ wasActive'[s] = wasActive[s]
           /\ wasAdmin'[s] = wasAdmin[s]
  BY <1>3 DEF TypeOK
<1>12. /\ pc'[r] = "approving" /\ work'[r] = g
       /\ wasActive'[r] = active[u] /\ wasAdmin'[r] = {admin[u]}
  BY <1>3 DEF TypeOK
<1>13. WorkInv'
  BY <1>2, <1>3, <1>4, <1>7, <1>8, <1>11, <1>12 DEF WorkInv, Grants
<1>14. GrantInv'
  <2>1. \A d \in Codes : codes[d] # None => codes[d].grant.root \in Codes
    BY DEF CodeInv
  <2>2. \A t \in tokens : t.grant.root \in Codes
    BY DEF TypeOK, Stamped, Grants
  <2>3. \A s \in Requests : pc[s] # "idle" => work[s].root \in Codes
    BY DEF WorkInv, Grants
  <2>4. \A d \in Codes : codes'[d] # None => OfConsent(codes[d].grant)'
    BY <1>3, <1>9, <2>1 DEF GrantInv
  <2>5. \A t \in tokens' : OfConsent(t.grant)'
    BY <1>3, <1>9, <2>2 DEF GrantInv
  <2>6. ASSUME NEW s \in Requests, s # r, pc[s] \in InFlight \cup {"granted"}
        PROVE  OfConsent(work[s])'
    BY <2>6, <1>9, <1>11, <2>3 DEF GrantInv, InFlight, Authorizing, Exchanging, Verifying
  <2>7. QED
    BY <1>3, <1>10, <1>11, <1>12, <2>4, <2>5, <2>6 DEF GrantInv
<1>15. CodeInv'
  <2>1. codes[c] = None /\ redeemers[c] = {}
    BY <1>3 DEF CodeInv, GrantInv, OfConsent
  <2>2. \A s \in Requests : pc[s] \in Authorizing => work[s].root # c
    BY <1>3 DEF WorkInv, Authorizing
  <2>3. \A d \in Codes : redeemers'[d] # {} => consents'[d] # None
    BY <1>3, <1>7, <2>1 DEF CodeInv
  <2>4. ASSUME NEW s \in Requests, pc'[s] \in Authorizing
        PROVE  /\ codes'[work'[s].root] = None
               /\ redeemers'[work'[s].root] = {}
               /\ \A q \in Requests :
                    pc'[q] \in Authorizing /\ work'[q].root = work'[s].root => q = s
    <3>1. ASSUME NEW q \in Requests, q # r, pc'[q] \in Authorizing
          PROVE  pc[q] \in Authorizing /\ work'[q] = work[q] /\ work[q].root # c
      BY <3>1, <1>11, <2>2
    <3>2. work'[r].root = c
      BY <1>4, <1>12
    <3>3. CASE s = r
      BY <3>1, <3>2, <3>3, <1>3, <2>1
    <3>4. CASE s # r
      <4>1. /\ codes[work[s].root] = None
            /\ redeemers[work[s].root] = {}
            /\ \A q \in Requests :
                 pc[q] \in Authorizing /\ work[q].root = work[s].root => q = s
        BY <3>1, <3>4, <2>4 DEF CodeInv
      <4>2. QED
        BY <4>1, <3>1, <3>2, <3>4, <1>3, <2>4
    <3>5. QED
      BY <3>3, <3>4
  <2>5. QED
    <3>1. \A d \in Codes :
            codes[d] # None => codes[d].grant.root = d /\ redeemers[d] = {}
      BY DEF CodeInv
    <3>2. \A d \in Codes : \A x, y \in redeemers[d] : x = y
      BY DEF CodeInv
    <3>3. codes' = codes /\ redeemers' = redeemers
      BY <1>3
    <3>4. QED
      BY <3>1, <3>2, <3>3, <2>3, <2>4 DEF CodeInv
<1>16. WriteInv'
  <2>1. ~writesEnabled => consent.mode = "read" /\ g.scopes \cap WriteScopes = {}
    BY <1>1, <1>2, <1>3, <1>5, ReadOnlyApproval
  <2>2. \A d \in Codes : d # c => consents'[d] = consents[d]
    BY <1>3, <1>7
  <2>3. QED
    BY <1>3, <1>8, <1>11, <1>12, <2>1, <2>2
       DEF WriteInv, Authorizing, Exchanging
<1>17. RightsInv'
  BY <1>3, <1>4, <1>11, <1>12 DEF RightsInv, InFlight, Authorizing
<1>18. QED
  BY <1>6, <1>13, <1>14, <1>15, <1>16, <1>17

LEMMA StoreCodeInv ==
  ASSUME ServerInv, NEW r \in Requests, StoreCode(r)
  PROVE  ServerInv'
<1> DEFINE root == work[r].root
<1> USE DEF ServerInv
<1>1. /\ pc[r] = "storing" /\ pc' = [pc EXCEPT ![r] = "stored"]
      /\ UNCHANGED <<consents, redeemers, tokens, work, wasActive, wasAdmin,
                     active, admin, changes, writesEnabled, now, restarts>>
  BY DEF StoreCode, users
<1>2. work[r] \in Grants /\ root \in Codes /\ OfConsent(work[r])
      /\ codes[root] = None /\ redeemers[root] = {}
  BY <1>1 DEF WorkInv, GrantInv, CodeInv, Grants, InFlight, Authorizing
<1>3. \A c \in Codes :
        IF c = root THEN codes'[c] = [grant |-> work[r], time |-> now]
        ELSE codes'[c] = None \/ codes'[c] = codes[c]
  BY DEF StoreCode
<1>4. /\ \A s \in Requests : s # r => pc'[s] = pc[s]
      /\ pc'[r] = "stored"
  BY <1>1 DEF TypeOK
<1>5. TypeOK'
  <2>1. [grant |-> work[r], time |-> now] \in Stamped
    BY <1>2 DEF Stamped, TypeOK
  <2>2. codes' \in [Codes -> Stamped \cup {None}]
    BY <2>1, <1>2 DEF StoreCode, TypeOK
  <2>3. QED
    BY <1>1, <2>2 DEF TypeOK, Answered
<1>6. WorkInv'
  BY <1>1, <1>4 DEF WorkInv
<1>7. GrantInv'
  <2>1. \A h : OfConsent(h) => OfConsent(h)'
    BY <1>1 DEF OfConsent
  <2>2. QED
    BY <1>1, <1>2, <1>3, <1>4, <2>1
       DEF GrantInv, InFlight, Authorizing, Exchanging, Verifying
<1>8. CodeInv'
  <2>1. \A c \in Codes :
          codes'[c] # None => codes'[c].grant.root = c /\ redeemers'[c] = {}
    <3>1. codes'[root].grant = work[r]
      BY <1>2, <1>3
    <3>2. \A c \in Codes : c # root => codes'[c] = None \/ codes'[c] = codes[c]
      BY <1>3
    <3>3. \A c \in Codes :
            codes[c] # None => codes[c].grant.root = c /\ redeemers[c] = {}
      BY DEF CodeInv
    <3>4. redeemers' = redeemers /\ redeemers[root] = {}
      BY <1>1, <1>2
    <3>5. QED
      BY <3>1, <3>2, <3>3, <3>4
  <2>2. ASSUME NEW s \in Requests, pc'[s] \in Authorizing
        PROVE  s # r /\ pc[s] \in Authorizing /\ work[s].root # root
    <3>1. s # r /\ pc[s] \in Authorizing /\ pc[r] \in Authorizing
      BY <2>2, <1>1, <1>4 DEF Authorizing
    <3>2. \A q \in Requests :
            pc[q] \in Authorizing /\ work[q].root = work[r].root => q = r
      BY <3>1 DEF CodeInv
    <3>3. QED
      BY <3>1, <3>2
  <2>3. ASSUME NEW s \in Requests, pc'[s] \in Authorizing
        PROVE  /\ codes'[work'[s].root] = None
               /\ redeemers'[work'[s].root] = {}
    <3>1. work[s].root \in Codes /\ codes[work[s].root] = None
          /\ redeemers[work[s].root] = {}
      BY <2>2, <2>3 DEF CodeInv, WorkInv, Grants, Authorizing
    <3>2. QED
      BY <3>1, <1>1, <1>3, <2>2, <2>3
  <2>4. \A s, q \in Requests :
          pc'[s] \in Authorizing /\ pc'[q] \in Authorizing
            /\ work'[q].root = work'[s].root => q = s
    BY <2>2, <1>1 DEF CodeInv
  <2>5. QED
    BY <1>1, <2>1, <2>3, <2>4 DEF CodeInv
<1>9. WriteInv'
  BY <1>1, <1>3, <1>4 DEF WriteInv, Authorizing, Exchanging
<1>10. RightsInv'
  BY <1>1, <1>4 DEF RightsInv, InFlight, Authorizing, Exchanging, Verifying
<1>11. QED
  BY <1>5, <1>6, <1>7, <1>8, <1>9, <1>10

\* Codes are only removed, exchanges not recorded, and nobody starts to
\* authorize: what is known of the codes stays.
LEMMA CodeFrame ==
  ASSUME ServerInv,
         consents' = consents, redeemers' = redeemers,
         \A c \in Codes : codes'[c] = None \/ codes'[c] = codes[c],
         \A s \in Requests : pc'[s] \in Authorizing =>
           pc[s] \in Authorizing /\ work'[s] = work[s]
  PROVE  CodeInv'
<1> USE DEF ServerInv
<1>1. /\ \A c \in Codes :
           codes'[c] # None => codes'[c].grant.root = c /\ redeemers'[c] = {}
      /\ \A c \in Codes : redeemers'[c] # {} => consents'[c] # None
      /\ \A c \in Codes : \A x, y \in redeemers'[c] : x = y
  BY DEF CodeInv
<1>2. \A s \in Requests : pc'[s] \in Authorizing => work[s].root \in Codes
  BY DEF WorkInv, Grants, Authorizing
<1>3. \A s \in Requests : pc'[s] \in Authorizing =>
        /\ codes'[work'[s].root] = None
        /\ redeemers'[work'[s].root] = {}
  BY <1>2 DEF CodeInv
<1>4. \A s, q \in Requests :
        pc'[s] \in Authorizing /\ pc'[q] \in Authorizing
          /\ work'[q].root = work'[s].root => q = s
  BY DEF CodeInv
<1>5. QED
  BY <1>1, <1>3, <1>4 DEF CodeInv

\* The requests that begin at the token endpoint or at /mcp.
LEMMA ArriveInv ==
  ASSUME ServerInv, NEW r \in Requests, NEW g \in Grants,
         NEW next \in {"checking", "verifying", "refused"}, Arrive(r, g, next),
         consents' = consents, tokens' = tokens,
         codes' \in [Codes -> Stamped \cup {None}],
         \A c \in Codes : codes'[c] = None \/ codes'[c] = codes[c],
         redeemers' \in [Codes -> SUBSET Requests],
         consents[g.root] # None, next # "refused" => OfConsent(g),
         next = "checking" /\ ~writesEnabled => g.scopes \cap WriteScopes = {}
  PROVE  /\ CodeInv' => ServerInv'
         /\ \A s \in Requests : pc'[s] \in Authorizing =>
              s # r /\ pc[s] \in Authorizing /\ work'[s] = work[s]
<1> USE DEF ServerInv
<1>1. /\ pc[r] = "idle" /\ pc' = [pc EXCEPT ![r] = next]
      /\ work' = [work EXCEPT ![r] = g]
      /\ wasActive' = [wasActive EXCEPT ![r] = active[g.user]]
      /\ wasAdmin' = [wasAdmin EXCEPT ![r] = {admin[g.user]}]
      /\ UNCHANGED <<active, admin, changes, writesEnabled, now, restarts>>
  BY DEF Arrive, users
<1>2. /\ pc'[r] = next /\ work'[r] = g
      /\ wasActive'[r] = active[g.user] /\ wasAdmin'[r] = {admin[g.user]}
      /\ \A s \in Requests : s # r =>
           pc'[s] = pc[s] /\ work'[s] = work[s] /\ wasActive'[s] = wasActive[s]
             /\ wasAdmin'[s] = wasAdmin[s]
  BY <1>1 DEF TypeOK
<1>3. TypeOK'
  <2>1. pc' \in [Requests -> {"idle"} \cup InFlight \cup Answered]
    BY <1>1 DEF TypeOK, InFlight, Exchanging, Verifying, Answered
  <2>2. active[g.user] \in BOOLEAN /\ admin[g.user] \in BOOLEAN
    BY DEF TypeOK, Grants
  <2>3. wasActive' \in [Requests -> BOOLEAN] /\ wasAdmin' \in [Requests -> SUBSET BOOLEAN]
    BY <1>1, <2>2 DEF TypeOK
  <2>4. QED
    BY <1>1, <2>1, <2>3 DEF TypeOK
<1>4. WorkInv'
  BY <1>2 DEF WorkInv
<1>5. GrantInv'
  <2>1. \A h : OfConsent(h) => OfConsent(h)'
    BY <1>1 DEF OfConsent
  <2>2. \A s \in Requests :
          pc'[s] \in InFlight \cup {"granted"} => OfConsent(work'[s])
    BY <1>2 DEF GrantInv, InFlight, Authorizing, Exchanging, Verifying
  <2>3. \A c \in Codes : codes'[c] # None => OfConsent(codes'[c].grant)
    BY DEF GrantInv
  <2>4. QED
    BY <2>1, <2>2, <2>3 DEF GrantInv
<1>6. WriteInv'
  BY <1>1, <1>2 DEF WriteInv, Authorizing, Exchanging
<1>7. RightsInv'
  BY <1>1, <1>2 DEF RightsInv
<1>8. \A s \in Requests : pc'[s] \in Authorizing =>
        s # r /\ pc[s] \in Authorizing /\ work'[s] = work[s]
  BY <1>2 DEF Authorizing
<1>9. QED
  BY <1>3, <1>4, <1>5, <1>6, <1>7, <1>8

LEMMA StartInv ==
  ASSUME ServerInv, NEW r \in Requests, NEW t \in tokens, NEW cl \in Clients,
         StartRefresh(r, t, cl) \/ StartVerify(r, t)
  PROVE  ServerInv'
<1> USE DEF ServerInv
<1> DEFINE g == [t.grant EXCEPT !.client = cl,
                                !.scopes = RequestedScopes(@, writesEnabled)]
<1>1. t.grant \in Grants /\ OfConsent(t.grant)
      /\ consents[t.grant.root] \in Consents
  BY DEF TypeOK, Stamped, GrantInv, OfConsent, Grants
<1>2. UNCHANGED <<codes, consents, redeemers, tokens>>
  BY DEF StartRefresh, StartVerify
<1>3. CodeInv' => ServerInv'
  <2>1. CASE StartVerify(r, t)
    BY <1>1, <1>2, <2>1, ArriveInv DEF StartVerify, TypeOK, OfConsent
  <2>2. CASE StartRefresh(r, t, cl)
    <3>1. LET scopes == RequestedScopes(t.grant.scopes, writesEnabled)
              approved == Approved(consents[t.grant.root])
          IN /\ scopes \subseteq Scopes
             /\ writesEnabled => scopes = t.grant.scopes
             /\ ~writesEnabled => scopes = approved \ WriteScopes
      BY <1>1, RefreshOfApproved DEF OfConsent, TypeOK
    <3>2. g \in Grants
      BY <1>1, <3>1 DEF Grants
    <3>3. ~writesEnabled /\ restarts = 0
            => Approved(consents[t.grant.root]) \cap WriteScopes = {}
      BY <1>1, ReadOnlyApproval DEF WriteInv, Grants, OfConsent
    <3>4. /\ g.root = t.grant.root /\ g.user = t.grant.user /\ g.client = t.grant.client
          /\ g.scopes = RequestedScopes(t.grant.scopes, writesEnabled)
      BY <1>1, <2>2 DEF Grants, StartRefresh, OwnRefreshToken
    <3>5. restarts \in Nat /\ writesEnabled \in BOOLEAN
      BY DEF TypeOK
    <3>6. OfConsent(g)
      BY <1>1, <3>1, <3>3, <3>4, <3>5 DEF OfConsent
    <3>7. ~writesEnabled => g.scopes \cap WriteScopes = {}
      BY <3>1, <3>4
    <3>8. Arrive(r, g, "checking")
      BY <2>2 DEF StartRefresh
    <3> HIDE DEF g
    <3>9. QED
      BY <1>2, <3>2, <3>6, <3>7, <3>8, ArriveInv DEF TypeOK, OfConsent
  <2>3. QED
    BY <2>1, <2>2
<1>4. \A s \in Requests : pc'[s] \in Authorizing =>
        pc[s] \in Authorizing /\ work'[s] = work[s]
  BY DEF StartRefresh, StartVerify, Arrive, TypeOK, Authorizing
<1>5. QED
  BY <1>2, <1>3, <1>4, CodeFrame

LEMMA TakeCodeInv ==
  ASSUME ServerInv, NEW r \in Requests, NEW c \in Codes, NEW cl \in Clients,
         NEW proved \in BOOLEAN, TakeCode(r, c, cl, proved)
  PROVE  ServerInv'
<1> USE DEF ServerInv
<1> DEFINE g == [codes[c].grant EXCEPT !.client = cl]
           redeemed == Redeemable(codes[c], cl) /\ proved
           next == IF redeemed THEN "checking" ELSE "refused"
<1>1. /\ codes[c] # None /\ codes' = [codes EXCEPT ![c] = None]
      /\ Arrive(r, g, next)
      /\ redeemers' = IF redeemed THEN [redeemers EXCEPT ![c] = @ \cup {r}] ELSE redeemers
      /\ consents' = consents /\ tokens' = tokens
  BY DEF TakeCode, WithoutCode
<1>2. /\ codes[c].grant \in Grants /\ codes[c].grant.root = c
      /\ OfConsent(codes[c].grant) /\ redeemers[c] = {}
  BY <1>1 DEF TypeOK, Stamped, GrantInv, CodeInv
<1>3. /\ g \in Grants /\ g.root = c /\ g.user = codes[c].grant.user
      /\ g.scopes = codes[c].grant.scopes
      /\ redeemed => g.client = codes[c].grant.client
  BY <1>2 DEF Grants, Redeemable
<1>4. /\ codes' \in [Codes -> Stamped \cup {None}]
      /\ codes'[c] = None
      /\ \A d \in Codes : codes'[d] = None \/ codes'[d] = codes[d]
  BY <1>1 DEF TypeOK
<1>5. /\ redeemers' \in [Codes -> SUBSET Requests]
      /\ \A d \in Codes : d # c => redeemers'[d] = redeemers[d]
      /\ \A x \in redeemers'[c] : x = r
  BY <1>1, <1>2 DEF TypeOK
<1>6. ~writesEnabled => g.scopes \cap WriteScopes = {}
  BY <1>1, <1>3 DEF WriteInv
<1> HIDE DEF g
<1>7. /\ \A s \in Requests : pc'[s] \in Authorizing =>
           s # r /\ pc[s] \in Authorizing /\ work'[s] = work[s]
  BY <1>1 DEF Arrive, TypeOK, Authorizing
<1>8. \A s \in Requests : pc'[s] \in Authorizing => work[s].root # c /\ work[s].root \in Codes
  BY <1>1, <1>7 DEF CodeInv, WorkInv, Grants, Authorizing
<1>9. CodeInv'
  <2>1. \A d \in Codes :
          codes'[d] # None => codes'[d].grant.root = d /\ redeemers'[d] = {}
    <3>1. \A d \in Codes :
            codes[d] # None => codes[d].grant.root = d /\ redeemers[d] = {}
      BY DEF CodeInv
    <3>2. QED
      BY <3>1, <1>4, <1>5
  <2>2. \A d \in Codes : redeemers'[d] # {} => consents'[d] # None
    BY <1>1, <1>2, <1>5 DEF CodeInv, OfConsent
  <2>3. \A d \in Codes : \A x, y \in redeemers'[d] : x = y
    <3>1. \A d \in Codes : \A x, y \in redeemers[d] : x = y
      BY DEF CodeInv
    <3>2. \A x \in redeemers'[c] : x = r
      BY <1>5
    <3>3. QED
      BY <3>1, <3>2, <1>5
  <2>4. \A s \in Requests : pc'[s] \in Authorizing =>
          /\ codes'[work'[s].root] = None
          /\ redeemers'[work'[s].root] = {}
    <3>1. \A s \in Requests : pc[s] \in Authorizing =>
            codes[work[s].root] = None /\ redeemers[work[s].root] = {}
      BY DEF CodeInv
    <3>2. QED
      BY <3>1, <1>4, <1>5, <1>7, <1>8
  <2>5. \A s, q \in Requests :
          pc'[s] \in Authorizing /\ pc'[q] \in Authorizing
            /\ work'[q].root = work'[s].root => q = s
    BY <1>7 DEF CodeInv
  <2>6. QED
    BY <2>1, <2>2, <2>3, <2>4, <2>5 DEF CodeInv
<1>10. CASE redeemed
  <2>1. OfConsent(g)
    BY <1>2, <1>3, <1>10 DEF OfConsent
  <2>2. Arrive(r, g, "checking") /\ consents[g.root] # None
    BY <1>1, <1>10, <2>1 DEF OfConsent
  <2>3. QED
    BY <1>1, <1>3, <1>4, <1>5, <1>6, <1>9, <2>1, <2>2, ArriveInv
<1>11. CASE ~redeemed
  <2>1. consents[g.root] # None
    BY <1>2, <1>3 DEF OfConsent
  <2>2. QED
    BY <1>1, <1>3, <1>4, <1>5, <1>9, <1>11, <2>1, ArriveInv
<1>12. QED
  BY <1>10, <1>11

\* The steps of a request that has begun at a token endpoint or at /mcp, and
\* the user lookup of all three.
LEMMA ProceedInv ==
  ASSUME ServerInv, NEW r \in Requests,
         WriteTokens(r) \/ ValidateUser(r) \/ Refuse(r) \/ LookupRights(r)
  PROVE  ServerInv'
<1> USE DEF ServerInv
<1>1. UNCHANGED <<codes, consents, redeemers, wasActive, wasAdmin, active, admin,
                  changes, writesEnabled, now, restarts>>
  BY DEF WriteTokens, ValidateUser, Refuse, LookupRights, users
<1>2. /\ pc[r] \in {"issuing", "approving", "checking", "verifying", "rights"}
      /\ \A s \in Requests : s # r => pc'[s] = pc[s] /\ work'[s] = work[s]
  BY DEF WriteTokens, ValidateUser, Refuse, LookupRights, TypeOK
<1>3. work[r] \in Grants /\ OfConsent(work[r]) /\ work[r].user \in Users
  BY <1>2 DEF WorkInv, GrantInv, Grants, InFlight, Authorizing, Exchanging, Verifying
<1>4. \A h : OfConsent(h) => OfConsent(h)'
  BY <1>1 DEF OfConsent
<1>5. CASE WriteTokens(r)
  <2>1. /\ pc[r] = "issuing" /\ pc' = [pc EXCEPT ![r] = "issued"] /\ pc'[r] = "issued"
        /\ tokens' = tokens \cup {[grant |-> work[r], time |-> now]}
        /\ work' = work
    BY <1>5 DEF WriteTokens, TypeOK
  <2>2. TypeOK'
    BY <1>1, <1>3, <2>1 DEF TypeOK, Stamped, Answered
  <2>3. WorkInv' /\ RightsInv' /\ WriteInv'
    BY <1>1, <1>2, <2>1 DEF WorkInv, RightsInv, WriteInv, InFlight, Authorizing,
                            Exchanging, Verifying
  <2>4. GrantInv'
    BY <1>1, <1>2, <1>3, <1>4, <2>1 DEF GrantInv, InFlight, Authorizing,
                                         Exchanging, Verifying
  <2>5. CodeInv'
    BY <1>1, <1>2, <2>1, CodeFrame DEF Authorizing
  <2>6. QED
    BY <2>2, <2>3, <2>4, <2>5
<1>6. CASE Refuse(r)
  <2>1. /\ pc' = [pc EXCEPT ![r] = "refused"] /\ pc'[r] = "refused"
        /\ work' = work /\ tokens' = tokens
    BY <1>6 DEF Refuse, TypeOK
  <2>2. TypeOK'
    BY <1>1, <2>1 DEF TypeOK, Answered
  <2>3. WorkInv' /\ RightsInv' /\ WriteInv'
    BY <1>1, <1>2, <2>1 DEF WorkInv, RightsInv, WriteInv, InFlight, Authorizing,
                            Exchanging, Verifying
  <2>4. GrantInv'
    BY <1>1, <1>2, <1>4, <2>1 DEF GrantInv, InFlight, Authorizing, Exchanging, Verifying
  <2>5. CodeInv'
    BY <1>1, <1>2, <2>1, CodeFrame DEF Authorizing
  <2>6. QED
    BY <2>2, <2>3, <2>4, <2>5
<1>7. CASE ValidateUser(r)
  <2>1. /\ pc' = [pc EXCEPT ![r] = AfterLookup(pc[r])]
        /\ work' = work /\ tokens' = tokens
        /\ pc[r] \in {"approving", "checking", "verifying"}
        /\ active[work[r].user]
    BY <1>7 DEF ValidateUser, MayProceed
  <2>2. \/ pc[r] = "approving" /\ pc'[r] = "storing"
        \/ pc[r] = "checking" /\ pc'[r] = "issuing"
        \/ pc[r] = "verifying" /\ pc'[r] = "rights"
    BY <2>1 DEF AfterLookup, TypeOK
  <2>3. TypeOK'
    <3>1. AfterLookup(pc[r]) \in InFlight
      BY <2>1 DEF AfterLookup, InFlight, Authorizing, Exchanging, Verifying
    <3>2. QED
      BY <1>1, <2>1, <3>1 DEF TypeOK
  <2>4. wasActive[r]
    BY <2>1 DEF RightsInv, InFlight, Authorizing, Exchanging, Verifying
  <2>5. WorkInv' /\ RightsInv'
    BY <1>1, <1>2, <2>1, <2>2, <2>4
       DEF WorkInv, RightsInv, InFlight, Authorizing, Exchanging, Verifying
  <2>6. WriteInv'
    BY <1>1, <1>2, <2>1, <2>2 DEF WriteInv, Authorizing, Exchanging
  <2>7. GrantInv'
    BY <1>1, <1>2, <1>3, <1>4, <2>1 DEF GrantInv
  <2>8. CodeInv'
    BY <1>1, <1>2, <2>1, <2>2, CodeFrame DEF Authorizing
  <2>9. QED
    BY <2>3, <2>5, <2>6, <2>7, <2>8
<1>8. CASE LookupRights(r)
  <2>1. /\ pc[r] = "rights" /\ pc' = [pc EXCEPT ![r] = "granted"] /\ pc'[r] = "granted"
        /\ work' = [work EXCEPT ![r].admin = admin[work[r].user]]
        /\ tokens' = tokens
    BY <1>8 DEF LookupRights, CurrentAdmin, TypeOK
  <2>2. /\ work'[r] = [work[r] EXCEPT !.admin = admin[work[r].user]]
        /\ work'[r] \in Grants
        /\ work'[r].root = work[r].root /\ work'[r].client = work[r].client
        /\ work'[r].user = work[r].user /\ work'[r].scopes = work[r].scopes
        /\ work'[r].admin = admin[work[r].user]
    BY <1>3, <2>1 DEF TypeOK, Grants
  <2>3. TypeOK'
    <3>1. pc' \in [Requests -> {"idle"} \cup InFlight \cup Answered]
      BY <2>1 DEF TypeOK, Answered
    <3>2. work' \in [Requests -> Grants \cup {None}]
      BY <2>1, <2>2 DEF TypeOK
    <3>3. QED
      BY <1>1, <2>1, <3>1, <3>2 DEF TypeOK
  <2>4. WorkInv'
    BY <1>1, <1>2, <2>1, <2>2 DEF WorkInv
  <2>5. RightsInv'
    BY <1>1, <1>2, <2>1, <2>2 DEF RightsInv, InFlight, Authorizing, Exchanging, Verifying
  <2>6. WriteInv'
    BY <1>1, <1>2, <2>1 DEF WriteInv, Authorizing, Exchanging
  <2>7. GrantInv'
    <3>1. OfConsent(work'[r])
      BY <1>3, <2>2 DEF OfConsent
    <3>2. QED
      BY <1>1, <1>2, <1>4, <2>1, <3>1 DEF GrantInv
  <2>8. CodeInv'
    BY <1>1, <1>2, <2>1, CodeFrame DEF Authorizing
  <2>9. QED
    BY <2>3, <2>4, <2>5, <2>6, <2>7, <2>8
<1>9. QED
  BY <1>5, <1>6, <1>7, <1>8

LEMMA ChangeUserInv ==
  ASSUME ServerInv, NEW u \in Users, NEW isActive \in BOOLEAN, NEW isAdmin \in BOOLEAN,
         ChangeUser(u, isActive, isAdmin)
  PROVE  ServerInv'
<1> USE DEF ServerInv
<1>1. /\ UNCHANGED <<codes, consents, redeemers, tokens, pc, work, writesEnabled,
                     now, restarts>>
      /\ active' = [active EXCEPT ![u] = isActive]
      /\ admin' = [admin EXCEPT ![u] = isAdmin]
      /\ changes' = changes + 1
      /\ wasActive' = [r \in Requests |->
           wasActive[r] \/ (pc[r] \in InFlight /\ work[r].user = u /\ isActive)]
      /\ wasAdmin' = [r \in Requests |->
           IF pc[r] \in InFlight /\ work[r].user = u
           THEN wasAdmin[r] \cup {isAdmin} ELSE wasAdmin[r]]
  BY DEF ChangeUser
<1>2. TypeOK'
  <2>1. wasActive' \in [Requests -> BOOLEAN]
    BY <1>1 DEF TypeOK
  <2>2. wasAdmin' \in [Requests -> SUBSET BOOLEAN]
    BY <1>1 DEF TypeOK
  <2>3. active' \in [Users -> BOOLEAN] /\ admin' \in [Users -> BOOLEAN] /\ changes' \in Nat
    BY <1>1 DEF TypeOK
  <2>4. QED
    BY <1>1, <2>1, <2>2, <2>3 DEF TypeOK
<1>3. WorkInv' /\ GrantInv' /\ CodeInv' /\ WriteInv'
  BY <1>1 DEF WorkInv, GrantInv, OfConsent, CodeInv, WriteInv
<1>4. RightsInv'
  <2> SUFFICES ASSUME NEW r \in Requests
               PROVE  /\ pc[r] \in InFlight =>
                           /\ active'[work[r].user] => wasActive'[r]
                           /\ admin'[work[r].user] \in wasAdmin'[r]
                      /\ pc[r] \in {"storing", "issuing", "rights", "stored",
                                    "issued", "granted"} => wasActive'[r]
                      /\ pc[r] = "granted" => work[r].admin \in wasAdmin'[r]
    BY <1>1 DEF RightsInv
  <2>1. /\ pc[r] \in InFlight =>
             /\ active[work[r].user] => wasActive[r]
             /\ admin[work[r].user] \in wasAdmin[r]
        /\ pc[r] \in {"storing", "issuing", "rights", "stored",
                      "issued", "granted"} => wasActive[r]
        /\ pc[r] = "granted" => work[r].admin \in wasAdmin[r]
    BY DEF RightsInv
  <2>2. pc[r] \in InFlight => work[r].user \in Users
    BY DEF WorkInv, Grants, InFlight, Authorizing, Exchanging, Verifying
  <2>3. /\ \A v \in Users : v # u => active'[v] = active[v] /\ admin'[v] = admin[v]
        /\ active'[u] = isActive /\ admin'[u] = isAdmin
    BY <1>1 DEF TypeOK
  <2>4. wasActive[r] => wasActive'[r]
    BY <1>1
  <2>5. wasAdmin[r] \subseteq wasAdmin'[r]
    BY <1>1
  <2>6. CASE pc[r] \in InFlight /\ work[r].user = u
    BY <1>1, <2>1, <2>3, <2>4, <2>5, <2>6
  <2>7. CASE ~(pc[r] \in InFlight /\ work[r].user = u)
    BY <2>1, <2>2, <2>3, <2>4, <2>5, <2>7
  <2>8. QED
    BY <2>6, <2>7
<1>5. QED
  BY <1>2, <1>3, <1>4

LEMMA RestartInv ==
  ASSUME ServerInv, NEW enable \in BOOLEAN, Restart(enable)
  PROVE  ServerInv'
<1> USE DEF ServerInv
<1>1. /\ UNCHANGED <<consents, redeemers, tokens, work, wasActive, wasAdmin,
                     active, admin, changes, now>>
      /\ codes' = [c \in Codes |-> None]
      /\ writesEnabled' = enable
      /\ restarts' = restarts + 1
      /\ pc' = [r \in Requests |-> IF pc[r] \in InFlight THEN "dropped" ELSE pc[r]]
  BY DEF Restart, CodesAfterRestart, users
<1>2. \A r \in Requests : pc'[r] \notin InFlight /\ (pc'[r] # "dropped" => pc'[r] = pc[r])
                          /\ (pc'[r] = "idle" => pc[r] = "idle")
  BY <1>1 DEF InFlight, Authorizing, Exchanging, Verifying
<1>3. TypeOK'
  <2>1. pc' \in [Requests -> {"idle"} \cup InFlight \cup Answered]
    BY <1>1 DEF TypeOK, Answered
  <2>2. codes' \in [Codes -> Stamped \cup {None}]
    BY <1>1
  <2>3. writesEnabled' \in BOOLEAN
    BY <1>1, Zenon
  <2>4. QED
    BY <1>1, <2>1, <2>2, <2>3 DEF TypeOK
<1>4. WorkInv'
  <2>1. \A r \in Requests : pc'[r] # "idle" => pc[r] # "idle"
    BY <1>1 DEF InFlight, Authorizing, Exchanging, Verifying
  <2>2. QED
    BY <1>1, <2>1 DEF WorkInv
<1>5. GrantInv'
  <2>1. restarts \in Nat
    BY DEF TypeOK
  <2>2. \A h : OfConsent(h) => OfConsent(h)'
    BY <1>1, <2>1 DEF OfConsent
  <2>3. QED
    BY <1>1, <1>2, <2>2 DEF GrantInv
<1>6. CodeInv'
  BY <1>1, <1>2, CodeFrame DEF InFlight
<1>7. WriteInv'
  BY <1>1, <1>2 DEF WriteInv, InFlight, TypeOK
<1>8. RightsInv'
  BY <1>1, <1>2 DEF RightsInv
<1>9. QED
  BY <1>3, <1>4, <1>5, <1>6, <1>7, <1>8

LEMMA StepInv == ServerInv /\ [Next]_vars => ServerInv'
<1> SUFFICES ASSUME ServerInv, [Next]_vars PROVE ServerInv'
  OBVIOUS
<1>1. ASSUME NEW r \in Requests, Browser(r) \/ Client(r) \/ Lookup(r)
      PROVE  ServerInv'
  <2>1. CASE Browser(r)
    <3>1. ASSUME NEW c \in Codes, NEW cl \in Clients, NEW u \in Users,
                 NEW asked \in Askable, NEW mode \in {"read", "write"},
                 NEW financial \in BOOLEAN, NEW cookieAdmin \in BOOLEAN,
                 Approve(r, c, cl, u, asked, mode, financial, cookieAdmin)
          PROVE  ServerInv'
      BY <3>1, ApproveInv
    <3>2. CASE StoreCode(r)
      BY <3>2, StoreCodeInv
    <3>3. QED
      BY <2>1, <3>1, <3>2 DEF Browser
  <2>2. CASE Client(r)
    <3>1. ASSUME NEW c \in Codes, NEW cl \in Clients, NEW proved \in BOOLEAN,
                 TakeCode(r, c, cl, proved)
          PROVE  ServerInv'
      BY <3>1, TakeCodeInv
    <3>2. ASSUME NEW t \in tokens, NEW cl \in Clients, StartRefresh(r, t, cl)
          PROVE  ServerInv'
      BY <3>2, StartInv
    <3>3. ASSUME NEW t \in tokens, StartVerify(r, t)
          PROVE  ServerInv'
      <4>1. t.grant.client \in Clients
        BY DEF ServerInv, TypeOK, Stamped, Grants
      <4>2. QED
        BY <3>3, <4>1, StartInv
    <3>4. CASE WriteTokens(r)
      BY <3>4, ProceedInv
    <3>5. QED
      BY <2>2, <3>1, <3>2, <3>3, <3>4 DEF Client
  <2>3. CASE Lookup(r)
    BY <2>3, ProceedInv DEF Lookup
  <2>4. QED
    BY <1>1, <2>1, <2>2, <2>3
<1>2. CASE \E u \in Users, isActive, isAdmin \in BOOLEAN : ChangeUser(u, isActive, isAdmin)
  BY <1>2, ChangeUserInv
<1>3. CASE \E enable \in BOOLEAN : Restart(enable)
  BY <1>3, RestartInv
<1>4. CASE Tick \/ UNCHANGED vars
  <2>1. /\ UNCHANGED <<codes, consents, redeemers, tokens, pc, work, wasActive, wasAdmin,
                       active, admin, writesEnabled, changes, restarts>>
        /\ now' = now \/ now' = now + 1
    BY <1>4 DEF Tick, vars, local, users
  <2>2. TypeOK'
    BY <2>1 DEF ServerInv, TypeOK
  <2>3. QED
    BY <2>1, <2>2 DEF ServerInv, WorkInv, GrantInv, OfConsent, CodeInv, WriteInv, RightsInv
<1>5. QED
  BY <1>1, <1>2, <1>3, <1>4 DEF Next

----------------------------------------------------------------------------
(* Where the grants that requests work on come from.                       *)

\* What a step of one request must keep for DescentInv to be kept.
LEMMA DescentFrame ==
  ASSUME ServerInv, DescentInv, NEW r \in Requests,
         \A s \in Requests : s # r => pc'[s] = pc[s] /\ work'[s] = work[s],
         pc[r] # "issued", writesEnabled' = writesEnabled, tokens \subseteq tokens',
         \A c \in Codes : consents[c] # None => consents'[c] = consents[c],
         \A c \in Codes : redeemers'[c] = redeemers[c] \/ redeemers'[c] = redeemers[c] \cup {r},
         \A c \in Codes : \/ codes'[c] = None
                          \/ codes'[c] = codes[c]
                          \/ codes'[c].grant.scopes = Approved(consents'[c]),
         \A t \in tokens' : t \in tokens \/ (pc'[r] = "issued" /\ work'[r] = t.grant),
         \A c \in Codes : r \in redeemers'[c] =>
           /\ pc'[r] \in {"checking", "issuing", "issued", "refused", "dropped"}
           /\ work'[r].root = c,
         Descends(r)'
  PROVE  DescentInv'
<1> USE DEF DescentInv
<1>1. CodesComplete'
  <2> SUFFICES ASSUME NEW c \in Codes, codes'[c] # None
               PROVE  codes'[c].grant.scopes = Approved(consents'[c])
    BY DEF CodesComplete
  <2>1. CASE codes'[c] = codes[c]
    <3>1. codes[c].grant.scopes = Approved(consents[c])
      BY <2>1 DEF CodesComplete
    <3>2. consents'[c] = consents[c]
      BY <2>1 DEF ServerInv, CodeInv, GrantInv, OfConsent
    <3>3. QED
      BY <2>1, <3>1, <3>2
  <2>2. QED
    BY <2>1
<1>2. Redeeming'
  <2> SUFFICES ASSUME NEW c \in Codes, NEW s \in redeemers'[c]
               PROVE  /\ pc'[s] \in {"checking", "issuing", "issued", "refused", "dropped"}
                      /\ work'[s].root = c
    BY DEF Redeeming
  <2>1. CASE s = r
    BY <2>1
  <2>2. CASE s # r
    <3>1. s \in redeemers[c] /\ s \in Requests
      BY <2>2 DEF ServerInv, TypeOK
    <3>2. QED
      BY <2>2, <3>1 DEF Redeeming
  <2>3. QED
    BY <2>1, <2>2
<1>3. \A s \in Requests : Descends(s)'
  <2> SUFFICES ASSUME NEW s \in Requests, s # r PROVE Descends(s)'
    OBVIOUS
  <2>1. pc'[s] = pc[s] /\ work'[s] = work[s]
    OBVIOUS
  <2>2. ASSUME pc[s] # "idle"
        PROVE  /\ work[s].root \in Codes
               /\ consents'[work[s].root] = consents[work[s].root]
    BY <2>2 DEF ServerInv, WorkInv, Grants
  <2>3. ASSUME pc[s] # "idle"
        PROVE  s \in redeemers'[work[s].root] <=> s \in redeemers[work[s].root]
    BY <2>2, <2>3
  <2>4. ASSUME pc[s] \in Authorizing
        PROVE  work'[s].scopes = Approved(consents'[work'[s].root])
    BY <2>1, <2>2, <2>4 DEF Descends, Authorizing
  <2>5. ASSUME pc[s] = "checking"
        PROVE  IF s \in redeemers'[work'[s].root]
               THEN work'[s].scopes = Approved(consents'[work'[s].root])
               ELSE \E t \in tokens' :
                      work'[s] = [t.grant EXCEPT !.scopes = RequestedScopes(@, writesEnabled')]
    <3>1. s \in redeemers'[work'[s].root] <=> s \in redeemers[work[s].root]
      BY <2>1, <2>3, <2>5
    <3>2. CASE s \in redeemers[work[s].root]
      <4>1. work[s].scopes = Approved(consents[work[s].root])
        BY <2>5, <3>2 DEF Descends
      <4>2. QED
        BY <2>1, <2>2, <2>5, <3>1, <3>2, <4>1
    <3>3. CASE s \notin redeemers[work[s].root]
      <4>1. PICK t \in tokens :
              work[s] = [t.grant EXCEPT !.scopes = RequestedScopes(@, writesEnabled)]
        BY <2>5, <3>3 DEF Descends
      <4>2. t \in tokens' /\ writesEnabled' = writesEnabled
        OBVIOUS
      <4>3. work'[s] = [t.grant EXCEPT !.scopes = RequestedScopes(@, writesEnabled')]
        BY <2>1, <4>1, <4>2
      <4>4. QED
        BY <3>1, <3>3, <4>2, <4>3
    <3>4. QED
      BY <3>2, <3>3
  <2>6. ASSUME pc[s] \in Verifying
        PROVE  \E t \in tokens' : work'[s] = t.grant
    BY <2>1, <2>6 DEF Descends
  <2>7. QED
    BY <2>1, <2>4, <2>5, <2>6 DEF Descends
<1>4. Issued'
  BY DEF Issued
<1>5. QED
  BY <1>1, <1>2, <1>3, <1>4

\* A request that is not one of the exchanges is in no redeemers.
LEMMA NotRedeeming ==
  ASSUME DescentInv, NEW r \in Requests,
         pc[r] \in {"idle", "approving", "storing", "verifying", "rights"}
  PROVE  \A c \in Codes : r \notin redeemers[c]
BY DEF DescentInv, Redeeming

LEMMA DescentBrowser ==
  ASSUME ServerInv, DescentInv, NEW r \in Requests, Browser(r)
  PROVE  DescentInv'
<1>1. ASSUME NEW c \in Codes, NEW cl \in Clients, NEW u \in Users, NEW asked \in Askable,
             NEW mode \in {"read", "write"}, NEW financial \in BOOLEAN,
             NEW cookieAdmin \in BOOLEAN,
             Approve(r, c, cl, u, asked, mode, financial, cookieAdmin)
      PROVE  DescentInv'
  <2> DEFINE consent == [client |-> cl, user |-> u, asked |-> asked, mode |-> mode,
                         financial |-> financial]
             g == [root |-> c, client |-> cl, user |-> u, admin |-> cookieAdmin,
                   scopes |-> ConsentScopes(Filtered(asked, financial), mode)]
  <2>1. consent \in Consents
    BY <1>1 DEF Approve, Supported, Consents, Scopes
  <2>2. g.scopes = Approved(consent) /\ g.root = c
    BY <2>1, ConsentGrantsApproved
  <2> HIDE DEF consent, g
  <2>3. /\ consents[c] = None /\ consents' = [consents EXCEPT ![c] = consent]
        /\ pc[r] = "idle" /\ pc' = [pc EXCEPT ![r] = "approving"]
        /\ work' = [work EXCEPT ![r] = g]
        /\ UNCHANGED <<codes, redeemers, tokens, writesEnabled>>
    BY <1>1 DEF Approve, Arrive, consent, g
  <2>4. /\ \A s \in Requests : s # r => pc'[s] = pc[s] /\ work'[s] = work[s]
        /\ pc'[r] = "approving" /\ work'[r] = g
        /\ consents'[c] = consent
        /\ \A d \in Codes : consents[d] # None => consents'[d] = consents[d]
    BY <2>3 DEF ServerInv, TypeOK
  <2>5. Descends(r)'
    BY <2>2, <2>4 DEF Descends, Authorizing, Verifying
  <2>6. \A d \in Codes : r \notin redeemers'[d]
    BY <2>3, NotRedeeming
  <2>7. QED
    BY <2>3, <2>4, <2>5, <2>6, DescentFrame
<1>2. CASE StoreCode(r)
  <2>1. /\ pc[r] = "storing" /\ pc' = [pc EXCEPT ![r] = "stored"]
        /\ UNCHANGED <<consents, redeemers, tokens, work, writesEnabled>>
    BY <1>2 DEF StoreCode
  <2>2. /\ \A s \in Requests : s # r => pc'[s] = pc[s]
        /\ pc'[r] = "stored"
    BY <2>1 DEF ServerInv, TypeOK
  <2>3. work[r].scopes = Approved(consents[work[r].root])
    BY <2>1 DEF DescentInv, Descends, Authorizing
  <2>4. \A c \in Codes : \/ codes'[c] = None
                         \/ codes'[c] = codes[c]
                         \/ codes'[c].grant.scopes = Approved(consents'[c])
    BY <1>2, <2>1, <2>3 DEF StoreCode
  <2>5. Descends(r)'
    BY <2>2 DEF Descends, Authorizing, Verifying
  <2>6. \A d \in Codes : r \notin redeemers'[d]
    BY <2>1, NotRedeeming
  <2>7. QED
    BY <2>1, <2>2, <2>4, <2>5, <2>6, DescentFrame
<1>3. QED
  BY <1>1, <1>2 DEF Browser

LEMMA DescentClient ==
  ASSUME ServerInv, DescentInv, NEW r \in Requests, Client(r)
  PROVE  DescentInv'
<1>1. ASSUME NEW c \in Codes, NEW cl \in Clients, NEW proved \in BOOLEAN,
             TakeCode(r, c, cl, proved)
      PROVE  DescentInv'
  <2> DEFINE g == [codes[c].grant EXCEPT !.client = cl]
             redeemed == Redeemable(codes[c], cl) /\ proved
  <2>1. /\ codes[c] # None /\ codes' = [codes EXCEPT ![c] = None]
        /\ pc[r] = "idle" /\ work' = [work EXCEPT ![r] = g]
        /\ pc' = [pc EXCEPT ![r] = IF redeemed THEN "checking" ELSE "refused"]
        /\ redeemers' = IF redeemed THEN [redeemers EXCEPT ![c] = @ \cup {r}] ELSE redeemers
        /\ UNCHANGED <<consents, tokens, writesEnabled>>
    BY <1>1 DEF TakeCode, WithoutCode, Arrive
  <2>2. g.root = c /\ g.scopes = Approved(consents[c])
    <3>1. codes[c].grant \in Grants /\ codes[c].grant.root = c
          /\ codes[c].grant.scopes = Approved(consents[c])
      BY <2>1 DEF ServerInv, TypeOK, Stamped, CodeInv, DescentInv, CodesComplete
    <3>2. QED
      BY <3>1 DEF Grants
  <2> HIDE DEF g, redeemed
  <2>3. /\ \A s \in Requests : s # r => pc'[s] = pc[s] /\ work'[s] = work[s]
        /\ pc'[r] = (IF redeemed THEN "checking" ELSE "refused") /\ work'[r] = g
        /\ \A d \in Codes : codes'[d] = None \/ codes'[d] = codes[d]
    BY <2>1 DEF ServerInv, TypeOK
  <2>4. \A d \in Codes : r \notin redeemers[d]
    BY <2>1, NotRedeeming
  <2>5. \A d \in Codes : redeemers'[d] = redeemers[d] \/ redeemers'[d] = redeemers[d] \cup {r}
    BY <2>1 DEF ServerInv, TypeOK
  <2>6. \A d \in Codes : r \in redeemers'[d] => redeemed /\ d = c
    BY <2>1, <2>4 DEF ServerInv, TypeOK
  <2>7. redeemed => r \in redeemers'[c]
    BY <2>1 DEF ServerInv, TypeOK
  <2>8. Descends(r)'
    BY <2>1, <2>2, <2>3, <2>7 DEF Descends, Authorizing, Verifying
  <2>9. QED
    BY <2>1, <2>2, <2>3, <2>5, <2>6, <2>8, DescentFrame
<1>2. ASSUME NEW t \in tokens, NEW cl \in Clients, StartRefresh(r, t, cl)
      PROVE  DescentInv'
  <2> DEFINE g == [t.grant EXCEPT !.client = cl, !.scopes = RequestedScopes(@, writesEnabled)]
  <2>1. /\ pc[r] = "idle" /\ work' = [work EXCEPT ![r] = g]
        /\ pc' = [pc EXCEPT ![r] = "checking"]
        /\ UNCHANGED <<codes, consents, redeemers, tokens, writesEnabled>>
    BY <1>2 DEF StartRefresh, Arrive
  <2>2. g = [t.grant EXCEPT !.scopes = RequestedScopes(@, writesEnabled)]
    <3>1. t.grant \in Grants /\ t.grant.client = cl
      BY <1>2 DEF StartRefresh, OwnRefreshToken, ServerInv, TypeOK, Stamped
    <3>2. QED
      BY <3>1 DEF Grants
  <2> HIDE DEF g
  <2>3. /\ \A s \in Requests : s # r => pc'[s] = pc[s] /\ work'[s] = work[s]
        /\ pc'[r] = "checking" /\ work'[r] = g
    BY <2>1 DEF ServerInv, TypeOK
  <2>4. \A d \in Codes : r \notin redeemers'[d]
    BY <2>1, NotRedeeming
  <2>5. g.root \in Codes
    BY <2>2 DEF ServerInv, TypeOK, Stamped, Grants
  <2>6. Descends(r)'
    BY <2>1, <2>2, <2>3, <2>4, <2>5 DEF Descends, Authorizing, Verifying
  <2>7. QED
    BY <2>1, <2>3, <2>4, <2>6, DescentFrame
<1>3. ASSUME NEW t \in tokens, StartVerify(r, t) PROVE DescentInv'
  <2>1. /\ pc[r] = "idle" /\ work' = [work EXCEPT ![r] = t.grant]
        /\ pc' = [pc EXCEPT ![r] = "verifying"]
        /\ UNCHANGED <<codes, consents, redeemers, tokens, writesEnabled>>
    BY <1>3 DEF StartVerify, Arrive
  <2>2. /\ \A s \in Requests : s # r => pc'[s] = pc[s] /\ work'[s] = work[s]
        /\ pc'[r] = "verifying" /\ work'[r] = t.grant
    BY <2>1 DEF ServerInv, TypeOK
  <2>3. Descends(r)'
    BY <2>1, <2>2 DEF Descends, Authorizing
  <2>4. \A d \in Codes : r \notin redeemers'[d]
    BY <2>1, NotRedeeming
  <2>5. QED
    BY <2>1, <2>2, <2>3, <2>4, DescentFrame
<1>4. CASE WriteTokens(r)
  <2>1. /\ pc[r] = "issuing" /\ pc' = [pc EXCEPT ![r] = "issued"]
        /\ tokens' = tokens \cup {[grant |-> work[r], time |-> now]}
        /\ UNCHANGED <<codes, consents, redeemers, work, writesEnabled>>
    BY <1>4 DEF WriteTokens
  <2>2. /\ \A s \in Requests : s # r => pc'[s] = pc[s]
        /\ pc'[r] = "issued"
    BY <2>1 DEF ServerInv, TypeOK
  <2>3. Descends(r)'
    BY <2>2 DEF Descends, Authorizing, Verifying
  <2>4. \A d \in Codes : r \in redeemers'[d] => work'[r].root = d
    BY <2>1 DEF DescentInv, Redeeming
  <2>5. \A t \in tokens' : t \in tokens \/ work'[r] = t.grant
    BY <2>1
  <2>6. QED
    BY <2>1, <2>2, <2>3, <2>4, <2>5, DescentFrame
<1>5. QED
  BY <1>1, <1>2, <1>3, <1>4 DEF Client

LEMMA DescentLookup ==
  ASSUME ServerInv, DescentInv, NEW r \in Requests, Lookup(r)
  PROVE  DescentInv'
<1>1. /\ pc[r] \in {"approving", "checking", "verifying", "rights"}
      /\ UNCHANGED <<codes, consents, redeemers, tokens, writesEnabled>>
  BY DEF Lookup, ValidateUser, LookupRights, Refuse
<1>2. /\ \A s \in Requests : s # r => pc'[s] = pc[s] /\ work'[s] = work[s]
      /\ \/ pc'[r] \in {"refused", "granted", "issuing"}
         \/ pc[r] = "approving" /\ pc'[r] = "storing" /\ work'[r] = work[r]
         \/ pc[r] = "verifying" /\ pc'[r] = "rights" /\ work'[r] = work[r]
      /\ pc[r] = "checking" => pc'[r] \in {"refused", "issuing"} /\ work'[r] = work[r]
  BY DEF Lookup, ValidateUser, LookupRights, Refuse, AfterLookup, ServerInv, TypeOK
<1>3. Descends(r)'
  BY <1>1, <1>2 DEF DescentInv, Descends, Authorizing, Verifying
<1>4. \A d \in Codes : r \in redeemers'[d] =>
        pc[r] = "checking" /\ work[r].root = d
  BY <1>1 DEF DescentInv, Redeeming
<1>5. QED
  BY <1>1, <1>2, <1>3, <1>4, DescentFrame

LEMMA DescentRestart ==
  ASSUME ServerInv, DescentInv, NEW enable \in BOOLEAN, Restart(enable)
  PROVE  DescentInv'
<1>1. /\ codes' = [c \in Codes |-> None]
      /\ pc' = [r \in Requests |-> IF pc[r] \in InFlight THEN "dropped" ELSE pc[r]]
      /\ UNCHANGED <<consents, redeemers, tokens, work>>
  BY DEF Restart, CodesAfterRestart
<1>2. \A r \in Requests : redeemers \in [Codes -> SUBSET Requests] /\ pc'[r] \notin InFlight
  BY <1>1 DEF ServerInv, TypeOK, InFlight, Authorizing, Exchanging, Verifying
<1>3. Redeeming'
  BY <1>1, <1>2 DEF DescentInv, Redeeming, ServerInv, TypeOK
<1>4. \A r \in Requests : Descends(r)'
  BY <1>2 DEF Descends, InFlight, Exchanging
<1>5. Issued'
  BY <1>1 DEF DescentInv, Issued, InFlight, Authorizing, Exchanging, Verifying
<1>6. QED
  BY <1>1, <1>3, <1>4, <1>5 DEF DescentInv, CodesComplete

LEMMA DescentStep == ServerInv /\ DescentInv /\ [Next]_vars => DescentInv'
<1> SUFFICES ASSUME ServerInv, DescentInv, [Next]_vars PROVE DescentInv'
  OBVIOUS
<1>1. ASSUME NEW u \in Users, NEW isActive \in BOOLEAN, NEW isAdmin \in BOOLEAN,
             ChangeUser(u, isActive, isAdmin)
      PROVE  DescentInv'
  <2>1. UNCHANGED <<codes, consents, redeemers, tokens, pc, work, writesEnabled>>
    BY <1>1 DEF ChangeUser
  <2>2. QED
    BY <2>1 DEF DescentInv, CodesComplete, Redeeming, Descends, Issued
<1>2. CASE Tick \/ UNCHANGED vars
  <2>1. UNCHANGED <<codes, consents, redeemers, tokens, pc, work, writesEnabled>>
    BY <1>2 DEF Tick, local, vars
  <2>2. QED
    BY <2>1 DEF DescentInv, CodesComplete, Redeeming, Descends, Issued
<1>3. QED
  BY <1>1, <1>2, DescentBrowser, DescentClient, DescentLookup, DescentRestart DEF Next

LEMMA DescentInit == Init => DescentInv
BY DEF Init, DescentInv, CodesComplete, Redeeming, Descends, Issued, Authorizing, Verifying

----------------------------------------------------------------------------
(* The theorems.                                                           *)

\* Type correctness and the relation of codes, requests and tokens to what was
\* approved in the browser.
THEOREM OAuthInvariant == Spec => []OAuthInv
<1>1. OAuthInv /\ [Next]_vars => OAuthInv'
  BY StepInv, DescentStep DEF OAuthInv
<1>2. Init => OAuthInv
  BY InitInv, DescentInit DEF OAuthInv
<1>3. QED
  BY <1>1, <1>2, PTL DEF Spec

\* consentScopes, requestedScopes, exchangeCode, exchangeRefreshToken,
\* VerifyToken: no chain of them adds a scope or changes client or user.
THEOREM Ceiling == Spec => []ScopeCeiling
<1>1. OAuthInv => ScopeCeiling
  BY DEF OAuthInv, ServerInv, GrantInv, OfConsent, ScopeCeiling
<1>2. QED
  BY <1>1, OAuthInvariant, PTL

\* requestedScopes on refresh: everything but the writes is kept, and the
\* writes are kept or dropped together.
THEOREM RefreshKeeps == Spec => []RefreshKeepsScopes
<1>1. OAuthInv => RefreshKeepsScopes
  BY DEF OAuthInv, ServerInv, GrantInv, OfConsent, RefreshKeepsScopes
<1>2. QED
  BY <1>1, OAuthInvariant, PTL

\* exchangeCode: a code is exchanged at most once.
THEOREM OneExchange == Spec => []OneExchangePerCode
<1>1. OAuthInv => OneExchangePerCode
  BY DEF OAuthInv, ServerInv, CodeInv, OneExchangePerCode
<1>2. QED
  BY <1>1, OAuthInvariant, PTL

\* VerifyToken, exchangeCode, exchangeRefreshToken, authorize: success needs a
\* user who was active during the request, and acts with a role of that time.
THEOREM RightsCurrent == Spec => []RightsCurrentDuringRequest
<1>1. OAuthInv => RightsCurrentDuringRequest
  BY DEF OAuthInv, ServerInv, RightsInv, RightsCurrentDuringRequest
<1>2. QED
  BY <1>1, OAuthInvariant, PTL

\* writeTokens in a process without writes hands out no write scope.
THEOREM NoWrites == Spec => NoWritesWhileDisabled
<1>1. OAuthInv /\ [Next]_vars =>
        [\A t \in tokens' \ tokens : t.grant.scopes \cap WriteScopes # {} => writesEnabled]_vars
  <2> SUFFICES ASSUME OAuthInv, [Next]_vars, NEW t \in tokens' \ tokens,
                      t.grant.scopes \cap WriteScopes # {}
               PROVE  writesEnabled
    OBVIOUS
  <2>1. PICK r \in Requests : WriteTokens(r)
    <3>1. ASSUME NEW r \in Requests, Browser(r) \/ Client(r) \/ Lookup(r), ~WriteTokens(r)
          PROVE  tokens' = tokens
      <4>1. CASE Browser(r)
        <5>1. ASSUME NEW c \in Codes, NEW cl \in Clients, NEW u \in Users,
                     NEW asked \in Askable, NEW mode \in {"read", "write"},
                     NEW financial \in BOOLEAN, NEW cookieAdmin \in BOOLEAN,
                     Approve(r, c, cl, u, asked, mode, financial, cookieAdmin)
              PROVE  tokens' = tokens
          BY <5>1 DEF Approve
        <5>2. CASE StoreCode(r)
          BY <5>2 DEF StoreCode
        <5>3. QED
          BY <4>1, <5>1, <5>2 DEF Browser
      <4>2. CASE Client(r)
        BY <4>2, <3>1 DEF Client, TakeCode, StartRefresh, StartVerify
      <4>3. CASE Lookup(r)
        BY <4>3 DEF Lookup, ValidateUser, LookupRights, Refuse
      <4>4. QED
        BY <3>1, <4>1, <4>2, <4>3
    <3>2. CASE \/ \E u \in Users, isActive, isAdmin \in BOOLEAN :
                   ChangeUser(u, isActive, isAdmin)
               \/ \E enable \in BOOLEAN : Restart(enable)
               \/ Tick
               \/ UNCHANGED vars
      <4>1. tokens' = tokens
        BY <3>2 DEF ChangeUser, Restart, Tick, vars
      <4>2. QED
        BY <4>1
    <3>3. QED
      BY <3>1, <3>2 DEF Next
  <2>2. t = [grant |-> work[r], time |-> now] /\ pc[r] \in Exchanging
    BY <2>1 DEF WriteTokens, Exchanging
  <2>3. QED
    BY <2>2 DEF OAuthInv, ServerInv, WriteInv
<1>2. QED
  BY <1>1, OAuthInvariant, PTL DEF Spec, NoWritesWhileDisabled

----------------------------------------------------------------------------
(* The server implements Delegation.                                       *)

LEMMA PlainIsSome ==
  ASSUME NEW g \in Grants
  PROVE  Plain(g) # None
BY NoneAssumption DEF Plain, Grants, PlainGrants

\* A step of one request leaves what the others hold and do.
LEMMA OthersKeep ==
  ASSUME OAuthInv, NEW r \in Requests,
         \A s \in Requests : s # r => pc'[s] = pc[s] /\ work'[s] = work[s]
  PROVE  /\ \A h : Held'[r] = h => Held' = [Held EXCEPT ![r] = h]
         /\ \A a : Acts'[r] = a => Acts' = [Acts EXCEPT ![r] = a]
         /\ Held'[r] = Held[r] => Held' = Held
         /\ Acts'[r] = Acts[r] => Acts' = Acts
<1>1. \A s \in Requests : s # r => Held'[s] = Held[s] /\ Acts'[s] = Acts[s]
  BY DEF Held, Acts, Plain
<1>2. /\ Held = [s \in Requests |-> Held[s]] /\ Held' = [s \in Requests |-> Held'[s]]
      /\ Acts = [s \in Requests |-> Acts[s]] /\ Acts' = [s \in Requests |-> Acts'[s]]
  BY DEF Held, Acts
<1>3. \A h : Held'[r] = h => Held' = [Held EXCEPT ![r] = h]
  BY <1>1, <1>2
<1>4. \A a : Acts'[r] = a => Acts' = [Acts EXCEPT ![r] = a]
  BY <1>1, <1>2
<1>5. QED
  BY <1>1, <1>2, <1>3, <1>4

\* A step of a request that exchanges nothing leaves the codes as spent as they are.
LEMMA SpentKept ==
  ASSUME OAuthInv, NEW r \in Requests,
         \A s \in Requests : s # r => pc'[s] = pc[s],
         \A c \in Codes : redeemers'[c] \ {r} = redeemers[c] \ {r},
         \A c \in Codes : r \in redeemers[c] => pc[r] # "checking" /\ r \in redeemers'[c],
         \A c \in Codes : r \in redeemers'[c] /\ r \notin redeemers[c] => pc'[r] = "checking",
         \A c \in Codes : r \in redeemers[c] => pc'[r] # "checking"
  PROVE  Spent' = Spent
<1>1. \A c \in Codes : redeemers[c] \subseteq Requests
  BY DEF OAuthInv, ServerInv, TypeOK
<1>2. ASSUME NEW c \in Codes
      PROVE  (\E s \in redeemers'[c] : pc'[s] # "checking")
               <=> (\E s \in redeemers[c] : pc[s] # "checking")
  <2>1. \A s : s # r => (s \in redeemers'[c] <=> s \in redeemers[c])
    BY DEF OAuthInv
  <2>2. \A s \in redeemers[c] : s # r => pc'[s] = pc[s]
    BY <1>1
  <2>3. QED
    BY <2>1, <2>2
<1>3. QED
  BY <1>2 DEF Spent

LEMMA PromiseInit == Init => Promise!Init
<1> SUFFICES ASSUME Init PROVE Promise!Init
  OBVIOUS
<1>1. Spent = {}
  BY DEF Init, Spent
<1>2. /\ Held = [r \in Requests |-> None]
      /\ Acts = [r \in Requests |-> None]
  BY DEF Init, Held, Acts
<1>3. QED
  BY <1>1, <1>2 DEF Init, Promise!Init

LEMMA PromiseBrowser ==
  ASSUME OAuthInv, NEW r \in Requests, Browser(r)
  PROVE  [Promise!Next]_Promise!vars
<1> USE DEF OAuthInv
<1>1. /\ UNCHANGED <<redeemers, active, admin, writesEnabled>>
      /\ pc[r] \in {"idle", "storing"}
      /\ pc'[r] \in {"approving", "stored"}
      /\ \A s \in Requests : s # r => pc'[s] = pc[s] /\ work'[s] = work[s]
  <2>1. ASSUME NEW c \in Codes, NEW cl \in Clients, NEW u \in Users, NEW asked \in Askable,
               NEW mode \in {"read", "write"}, NEW financial \in BOOLEAN,
               NEW cookieAdmin \in BOOLEAN,
               Approve(r, c, cl, u, asked, mode, financial, cookieAdmin)
        PROVE  /\ UNCHANGED <<redeemers, active, admin, writesEnabled>>
               /\ pc[r] = "idle" /\ pc' = [pc EXCEPT ![r] = "approving"]
               /\ \E g : work' = [work EXCEPT ![r] = g]
    BY <2>1 DEF Approve, Arrive, users
  <2>2. ASSUME StoreCode(r)
        PROVE  /\ UNCHANGED <<redeemers, active, admin, writesEnabled, work>>
               /\ pc[r] = "storing" /\ pc' = [pc EXCEPT ![r] = "stored"]
    BY <2>2 DEF StoreCode, users
  <2>3. CASE StoreCode(r)
    BY <2>2, <2>3 DEF ServerInv, TypeOK
  <2>4. CASE ~StoreCode(r)
    BY <2>1, <2>4 DEF Browser, ServerInv, TypeOK
  <2>5. QED
    BY <2>3, <2>4
<1>2. Held' = Held /\ Acts' = Acts
  <2>1. Held'[r] = Held[r] /\ Acts'[r] = Acts[r]
    BY <1>1 DEF Held, Acts
  <2>2. QED
    BY <1>1, <2>1, OthersKeep
<1>3. Spent' = Spent
  BY <1>1, NotRedeeming, SpentKept
<1>4. CASE StoreCode(r)
  BY <1>1, <1>2, <1>3, <1>4 DEF StoreCode, Promise!vars
<1>5. ASSUME NEW c \in Codes, NEW cl \in Clients, NEW u \in Users, NEW asked \in Askable,
             NEW mode \in {"read", "write"}, NEW financial \in BOOLEAN,
             NEW cookieAdmin \in BOOLEAN,
             Approve(r, c, cl, u, asked, mode, financial, cookieAdmin)
      PROVE  Promise!Agree(c)
  <2> DEFINE consent == [client |-> cl, user |-> u, asked |-> asked, mode |-> mode,
                         financial |-> financial]
  <2>1. consent \in Consents
    BY <1>5 DEF Approve, Supported, Consents, Scopes
  <2>2. /\ consents[c] = None /\ consents' = [consents EXCEPT ![c] = consent]
        /\ mode = "write" => writesEnabled
    BY <1>5 DEF Approve
  <2>3. consent.mode = mode
    OBVIOUS
  <2> HIDE DEF consent
  <2>4. Promise!Allowed(Approved(consent))
    BY <2>1, <2>2, <2>3, ReadOnlyApproval DEF Promise!Allowed
  <2>5. QED
    BY <1>1, <1>2, <1>3, <2>1, <2>2, <2>4 DEF Promise!Agree
<1>6. QED
  BY <1>4, <1>5 DEF Browser, Promise!Next

\* What a request at the token endpoint or at /mcp starts with is held already.
LEMMA PromiseClient ==
  ASSUME OAuthInv, OAuthInv', NEW r \in Requests, Client(r)
  PROVE  UNCHANGED Promise!vars
<1> USE DEF OAuthInv
<1>1. CASE WriteTokens(r)
  <2>1. /\ pc[r] = "issuing" /\ pc' = [pc EXCEPT ![r] = "issued"]
        /\ UNCHANGED <<consents, redeemers, work, active, admin, writesEnabled>>
    BY <1>1 DEF WriteTokens, users
  <2>2. /\ \A s \in Requests : s # r => pc'[s] = pc[s] /\ work'[s] = work[s]
        /\ pc'[r] = "issued"
    BY <2>1 DEF ServerInv, TypeOK
  <2>3. Held'[r] = Held[r] /\ Acts'[r] = Acts[r]
    BY <2>1, <2>2 DEF Held, Acts
  <2>4. Spent' = Spent
    BY <2>1, <2>2, SpentKept
  <2>5. QED
    BY <2>1, <2>2, <2>3, <2>4, OthersKeep DEF Promise!vars
<1>2. ASSUME \/ \E c \in Codes, cl \in Clients, proved \in BOOLEAN : TakeCode(r, c, cl, proved)
             \/ \E t \in tokens, cl \in Clients : StartRefresh(r, t, cl)
             \/ \E t \in tokens : StartVerify(r, t)
      PROVE  UNCHANGED Promise!vars
  <2>1. /\ pc[r] = "idle" /\ UNCHANGED <<consents, active, admin, writesEnabled>>
        /\ pc'[r] \in {"checking", "refused", "verifying"}
        /\ \A s \in Requests : s # r => pc'[s] = pc[s] /\ work'[s] = work[s]
    <3>1. ASSUME NEW c \in Codes, NEW cl \in Clients, NEW proved \in BOOLEAN,
                 TakeCode(r, c, cl, proved)
          PROVE  /\ consents' = consents
                 /\ \E g, next : next \in {"checking", "refused"} /\ Arrive(r, g, next)
      BY <3>1 DEF TakeCode
    <3>2. ASSUME NEW t \in tokens, NEW cl \in Clients, StartRefresh(r, t, cl)
          PROVE  /\ consents' = consents
                 /\ \E g, next : next \in {"checking", "verifying"} /\ Arrive(r, g, next)
      BY <3>2 DEF StartRefresh
    <3>3. ASSUME NEW t \in tokens, StartVerify(r, t)
          PROVE  /\ consents' = consents
                 /\ \E g, next : next \in {"checking", "verifying"} /\ Arrive(r, g, next)
      BY <3>3 DEF StartVerify
    <3>4. /\ consents' = consents
          /\ \E g, next : next \in {"checking", "refused", "verifying"} /\ Arrive(r, g, next)
      BY <1>2, <3>1, <3>2, <3>3
    <3>5. QED
      BY <3>4 DEF Arrive, users, ServerInv, TypeOK
  <2>2. \A c \in Codes : \/ redeemers'[c] = redeemers[c]
                         \/ redeemers'[c] = redeemers[c] \cup {r} /\ pc'[r] = "checking"
    <3>1. ASSUME NEW c \in Codes, NEW cl \in Clients, NEW proved \in BOOLEAN,
                 TakeCode(r, c, cl, proved)
          PROVE  \/ redeemers' = redeemers
                 \/ redeemers' = [redeemers EXCEPT ![c] = @ \cup {r}] /\ pc'[r] = "checking"
      BY <2>1, <3>1 DEF TakeCode, Arrive, ServerInv, TypeOK
    <3>2. ASSUME NEW t \in tokens, NEW cl \in Clients, StartRefresh(r, t, cl)
          PROVE  redeemers' = redeemers
      BY <3>2 DEF StartRefresh
    <3>3. ASSUME NEW t \in tokens, StartVerify(r, t)
          PROVE  redeemers' = redeemers
      BY <3>3 DEF StartVerify
    <3>4. \/ redeemers' = redeemers
          \/ \E c \in Codes : /\ redeemers' = [redeemers EXCEPT ![c] = @ \cup {r}]
                             /\ pc'[r] = "checking"
      BY <1>2, <3>1, <3>2, <3>3
    <3>5. QED
      BY <3>4 DEF ServerInv, TypeOK
  <2>3. \A c \in Codes : r \notin redeemers[c]
    BY <2>1, NotRedeeming
  <2>4. Spent' = Spent
    BY <2>1, <2>2, <2>3, SpentKept
  <2>5. Held'[r] = Held[r] /\ Acts'[r] = Acts[r]
    BY <2>1 DEF Held, Acts
  <2>6. QED
    BY <2>1, <2>4, <2>5, OthersKeep DEF Promise!vars
<1>3. QED
  BY <1>1, <1>2 DEF Client

\* After the check of its user an exchange, also a refused one, has used its
\* code up.
LEMMA CodeSpent ==
  ASSUME OAuthInv, NEW r \in Requests, NEW c \in Codes, r \in redeemers[c],
         pc[r] = "checking", pc'[r] \in {"issuing", "refused"}, redeemers' = redeemers,
         \A s \in Requests : s # r => pc'[s] = pc[s]
  PROVE  c \notin Spent /\ Spent' = Spent \cup {c}
<1>1. redeemers[c] = {r} /\ \A d \in Codes : d # c => r \notin redeemers[d]
  BY DEF OAuthInv, ServerInv, CodeInv, DescentInv, Redeeming
<1>2. c \notin Spent /\ c \in Spent'
  BY <1>1 DEF Spent
<1>3. \A d \in Codes : redeemers[d] \subseteq Requests
  BY DEF OAuthInv, ServerInv, TypeOK
<1>4. ASSUME NEW d \in Codes, d # c
      PROVE  d \in Spent' <=> d \in Spent
  <2>1. \A s \in redeemers[d] : pc'[s] = pc[s]
    BY <1>1, <1>3, <1>4
  <2>2. QED
    BY <2>1 DEF Spent
<1>5. QED
  BY <1>2, <1>4 DEF Spent

\* A refresh gives what the token had, or all of it but the writes.
LEMMA RefreshKeepsPlain ==
  ASSUME OAuthInv, NEW t \in tokens, NEW g \in Grants,
         g = [t.grant EXCEPT !.scopes = RequestedScopes(@, writesEnabled)]
  PROVE  Plain(g) = [Plain(t.grant) EXCEPT
                       !.scopes = IF writesEnabled THEN @ ELSE @ \ WriteScopes]
<1> DEFINE consent == consents[t.grant.root]
<1>1. t.grant \in Grants /\ writesEnabled \in BOOLEAN
  BY DEF OAuthInv, ServerInv, TypeOK, Stamped
<1>2. consent \in Consents
      /\ (t.grant.scopes = Approved(consent) \/ t.grant.scopes = Approved(consent) \ WriteScopes)
  BY <1>1 DEF OAuthInv, ServerInv, TypeOK, GrantInv, OfConsent, Grants
<1>3. /\ writesEnabled => RequestedScopes(t.grant.scopes, writesEnabled) = t.grant.scopes
      /\ ~writesEnabled => RequestedScopes(t.grant.scopes, writesEnabled)
                            = t.grant.scopes \ WriteScopes
  BY <1>1, <1>2, RefreshOfApproved
<1>4. /\ g.root = t.grant.root /\ g.client = t.grant.client /\ g.user = t.grant.user
      /\ g.scopes = RequestedScopes(t.grant.scopes, writesEnabled)
  BY <1>1 DEF Grants
<1>5. QED
  BY <1>3, <1>4 DEF Plain

LEMMA PromiseValidate ==
  ASSUME OAuthInv, NEW r \in Requests, ValidateUser(r)
  PROVE  [Promise!Next]_Promise!vars
<1>1. /\ pc[r] \in {"approving", "checking", "verifying"}
      /\ active[work[r].user]
      /\ UNCHANGED <<codes, consents, redeemers, tokens, work, active, admin, writesEnabled>>
      /\ pc'[r] = AfterLookup(pc[r])
      /\ \A s \in Requests : s # r => pc'[s] = pc[s] /\ work'[s] = work[s]
  BY DEF ValidateUser, MayProceed, users, OAuthInv, ServerInv, TypeOK
<1>2. CASE pc[r] # "checking"
  <2>1. pc'[r] \in {"storing", "rights"}
    BY <1>1, <1>2 DEF AfterLookup
  <2>2. Held'[r] = Held[r] /\ Acts'[r] = Acts[r]
    BY <1>1, <2>1 DEF Held, Acts
  <2>3. Spent' = Spent
    BY <1>1, <1>2, <2>1, NotRedeeming, SpentKept DEF OAuthInv
  <2>4. QED
    BY <1>1, <2>2, <2>3, OthersKeep DEF Promise!vars
<1>3. CASE pc[r] = "checking"
  <2> DEFINE c == work[r].root
  <2>1. pc'[r] = "issuing"
    BY <1>1, <1>3 DEF AfterLookup
  <2>2. /\ c \in Codes /\ work[r] \in Grants /\ consents[c] # None /\ consents[c] \in Consents
        /\ work[r].client = consents[c].client /\ work[r].user = consents[c].user
    BY <1>3 DEF OAuthInv, ServerInv, TypeOK, WorkInv, GrantInv, OfConsent, Grants, InFlight,
                Exchanging
  <2>3. /\ Held[r] = None /\ Held'[r] = Plain(work[r])
        /\ Acts'[r] = Acts[r]
    BY <1>1, <1>3, <2>1 DEF Held, Acts
  <2>4. Held' = [Held EXCEPT ![r] = Plain(work[r])] /\ Acts' = Acts
    BY <1>1, <2>3, OthersKeep
  <2>5. CASE r \in redeemers[c]
    <3>1. c \notin Spent /\ Spent' = Spent \cup {c}
      BY <1>1, <1>3, <2>1, <2>2, <2>5, CodeSpent
    <3>2. work[r].scopes = Approved(consents[c])
      BY <1>3, <2>5 DEF OAuthInv, DescentInv, Descends
    <3>3. Promise!Allowed(Approved(consents[c]))
      BY <1>3, <3>2 DEF Promise!Allowed, OAuthInv, ServerInv, WriteInv, Exchanging
    <3>4. Plain(work[r]) = [root |-> c, client |-> consents[c].client,
                            user |-> consents[c].user, scopes |-> Approved(consents[c])]
      BY <2>2, <3>2 DEF Plain
    <3>5. Promise!Exchange(r, c)
      BY <1>1, <2>2, <2>3, <2>4, <3>1, <3>3, <3>4 DEF Promise!Exchange
    <3>6. QED
      BY <2>2, <3>5 DEF Promise!Next
  <2>6. CASE r \notin redeemers[c]
    <3>1. PICK t \in tokens :
            work[r] = [t.grant EXCEPT !.scopes = RequestedScopes(@, writesEnabled)]
      BY <1>3, <2>6 DEF OAuthInv, DescentInv, Descends
    <3>2. PICK s \in Requests : pc[s] = "issued" /\ work[s] = t.grant
      BY DEF OAuthInv, DescentInv, Issued
    <3>3. t.grant \in Grants
      BY DEF OAuthInv, ServerInv, TypeOK, Stamped
    <3>4. Held[s] = Plain(t.grant) /\ Held[s] # None
      BY <3>2, <3>3, PlainIsSome DEF Held
    <3>5. Held[s].user = work[r].user
      BY <3>1, <3>3, <3>4 DEF Plain, Grants
    <3>6. Plain(work[r]) = [Held[s] EXCEPT !.scopes = IF writesEnabled THEN @ ELSE @ \ WriteScopes]
      <4>1. Plain(work[r]) = [Plain(t.grant) EXCEPT
                                !.scopes = IF writesEnabled THEN @ ELSE @ \ WriteScopes]
        BY <2>2, <3>1, RefreshKeepsPlain
      <4>2. QED
        BY <3>4, <4>1
    <3>7. Spent' = Spent
      <4>1. \A d \in Codes : r \notin redeemers[d]
        BY <2>6 DEF OAuthInv, DescentInv, Redeeming
      <4>2. QED
        BY <1>1, <4>1, SpentKept
    <3>8. Promise!Refresh(r, s)
      BY <1>1, <2>3, <2>4, <3>4, <3>5, <3>6, <3>7 DEF Promise!Refresh
    <3>9. QED
      BY <3>8 DEF Promise!Next
  <2>7. QED
    BY <2>5, <2>6
<1>4. QED
  BY <1>2, <1>3

LEMMA PromiseRefuse ==
  ASSUME OAuthInv, NEW r \in Requests, Refuse(r)
  PROVE  [Promise!Next]_Promise!vars
<1>1. /\ pc[r] \in {"approving", "checking", "verifying", "rights"} /\ pc'[r] = "refused"
      /\ UNCHANGED <<codes, consents, redeemers, tokens, work, active, admin, writesEnabled>>
      /\ \A s \in Requests : s # r => pc'[s] = pc[s] /\ work'[s] = work[s]
  BY DEF Refuse, users, OAuthInv, ServerInv, TypeOK
<1>2. Held'[r] = Held[r] /\ Acts'[r] = Acts[r]
  BY <1>1 DEF Held, Acts
<1>3. Held' = Held /\ Acts' = Acts
  BY <1>1, <1>2, OthersKeep
<1>4. CASE \A c \in Codes : r \notin redeemers[c]
  <2>1. Spent' = Spent
    BY <1>1, <1>4, SpentKept
  <2>2. QED
    BY <1>1, <1>3, <2>1 DEF Promise!vars
<1>5. ASSUME NEW c \in Codes, r \in redeemers[c]
      PROVE  Promise!Void(c)
  <2>1. pc[r] = "checking" /\ consents[c] # None
    BY <1>1, <1>5 DEF OAuthInv, DescentInv, Redeeming, ServerInv, CodeInv
  <2>2. Spent' = Spent \cup {c}
    BY <1>1, <1>5, <2>1, CodeSpent
  <2>3. QED
    BY <1>1, <1>3, <2>1, <2>2 DEF Promise!Void
<1>6. QED
  BY <1>4, <1>5 DEF Promise!Next

\* The lookup of the rights is the moment at which the call acts.
LEMMA PromiseRights ==
  ASSUME OAuthInv, NEW r \in Requests, LookupRights(r)
  PROVE  Promise!Next
<1>1. /\ pc[r] = "rights" /\ active[work[r].user] /\ pc'[r] = "granted"
      /\ work' = [work EXCEPT ![r].admin = admin[work[r].user]]
      /\ UNCHANGED <<codes, consents, redeemers, tokens, active, admin, writesEnabled>>
      /\ \A s \in Requests : s # r => pc'[s] = pc[s]
  BY DEF LookupRights, MayProceed, CurrentAdmin, users, OAuthInv, ServerInv, TypeOK
<1>2. \A s \in Requests : s # r => work'[s] = work[s]
  BY <1>1 DEF OAuthInv, ServerInv, TypeOK
<1>3. PICK t \in tokens : work[r] = t.grant
  BY <1>1 DEF OAuthInv, DescentInv, Descends, Verifying
<1>4. PICK s \in Requests : pc[s] = "issued" /\ work[s] = t.grant
  BY DEF OAuthInv, DescentInv, Issued
<1>5. t.grant \in Grants
  BY DEF OAuthInv, ServerInv, TypeOK, Stamped
<1>6. Held[s] = Plain(t.grant) /\ Held[s] # None /\ Held[s].user = work[r].user
  BY <1>3, <1>4, <1>5, PlainIsSome DEF Held, Plain
<1>7. work'[r] = [work[r] EXCEPT !.admin = admin[work[r].user]]
  BY <1>1 DEF OAuthInv, ServerInv, TypeOK
<1>8. Plain(work'[r]) = Plain(work[r]) /\ work'[r].admin = admin[work[r].user]
  BY <1>3, <1>5, <1>7 DEF Plain, Grants
<1>9. Acts[r] = None
  BY <1>1 DEF Acts
<1>10. Acts'[r] = [grant |-> Held[s], admin |-> admin[Held[s].user]]
  BY <1>1, <1>3, <1>6, <1>8 DEF Acts
<1>11. Held'[r] = Held[r]
  BY <1>1 DEF Held
<1>12. Held' = Held /\ Acts' = [Acts EXCEPT ![r] = [grant |-> Held[s], admin |-> admin[Held[s].user]]]
  BY <1>1, <1>2, <1>10, <1>11, OthersKeep
<1>13. Spent' = Spent
  BY <1>1, NotRedeeming, SpentKept DEF OAuthInv
<1>14. Promise!Act(r, s)
  BY <1>1, <1>6, <1>9, <1>12, <1>13 DEF Promise!Act
<1>15. QED
  BY <1>14 DEF Promise!Next

LEMMA PromiseRestart ==
  ASSUME OAuthInv, NEW enable \in BOOLEAN, Restart(enable)
  PROVE  Promise!Restart
<1>1. /\ writesEnabled' = enable
      /\ pc' = [r \in Requests |-> IF pc[r] \in InFlight THEN "dropped" ELSE pc[r]]
      /\ UNCHANGED <<consents, redeemers, tokens, work, active, admin>>
  BY DEF Restart, users
<1>2. Acts' = Acts
  BY <1>1 DEF Acts, InFlight, Authorizing, Exchanging, Verifying
<1>3. \A r \in Requests : pc[r] # "checking" => pc'[r] # "checking"
  BY <1>1
<1>4. Spent \subseteq Spent' /\ Spent' \in SUBSET Codes
  BY <1>1, <1>3 DEF Spent, OAuthInv, ServerInv, TypeOK
<1>5. Held' = [r \in Requests |-> IF r \in {s \in Requests : pc[s] = "issuing"}
                                  THEN None ELSE Held[r]]
  BY <1>1 DEF Held, InFlight, Authorizing, Exchanging, Verifying
<1>6. QED
  BY <1>1, <1>2, <1>4, <1>5 DEF Promise!Restart

LEMMA PromiseChangeUser ==
  ASSUME OAuthInv, NEW u \in Users, NEW isActive \in BOOLEAN, NEW isAdmin \in BOOLEAN,
         ChangeUser(u, isActive, isAdmin)
  PROVE  Promise!ChangeUser(u)
<1>1. /\ active' = [active EXCEPT ![u] = isActive] /\ admin' = [admin EXCEPT ![u] = isAdmin]
      /\ UNCHANGED <<consents, redeemers, pc, work, writesEnabled>>
  BY DEF ChangeUser
<1>2. Spent' = Spent /\ Held' = Held /\ Acts' = Acts
  BY <1>1 DEF Spent, Held, Acts
<1>3. QED
  BY <1>1, <1>2 DEF Promise!ChangeUser

LEMMA PromiseStep == OAuthInv /\ OAuthInv' /\ [Next]_vars => [Promise!Next]_Promise!vars
<1> SUFFICES ASSUME OAuthInv, OAuthInv', [Next]_vars PROVE [Promise!Next]_Promise!vars
  OBVIOUS
<1>1. ASSUME NEW r \in Requests, Browser(r) \/ Client(r) \/ Lookup(r)
      PROVE  [Promise!Next]_Promise!vars
  BY <1>1, PromiseBrowser, PromiseClient, PromiseValidate, PromiseRefuse, PromiseRights
     DEF Lookup
<1>2. ASSUME NEW u \in Users, NEW isActive \in BOOLEAN, NEW isAdmin \in BOOLEAN,
             ChangeUser(u, isActive, isAdmin)
      PROVE  [Promise!Next]_Promise!vars
  BY <1>2, PromiseChangeUser DEF Promise!Next
<1>3. ASSUME NEW enable \in BOOLEAN, Restart(enable)
      PROVE  [Promise!Next]_Promise!vars
  BY <1>3, PromiseRestart DEF Promise!Next
<1>4. CASE Tick \/ UNCHANGED vars
  <2>1. UNCHANGED <<consents, redeemers, pc, work, active, admin, writesEnabled>>
    BY <1>4 DEF Tick, local, users, vars
  <2>2. Spent' = Spent /\ Held' = Held /\ Acts' = Acts
    BY <2>1 DEF Spent, Held, Acts
  <2>3. QED
    BY <2>1, <2>2 DEF Promise!vars
<1>5. QED
  BY <1>1, <1>2, <1>3, <1>4 DEF Next

\* The codes in memory, the exchange, the refresh and the two lookups of
\* VerifyToken implement Delegation: each takes effect as at one moment, with
\* the user's state of that moment, and nothing exceeds what was approved.
THEOREM Delegates == Spec => DelegatesAsApproved
<1>1. QED
  BY PromiseInit, PromiseStep, OAuthInvariant, PTL
     DEF Spec, DelegatesAsApproved, Promise!Spec

----------------------------------------------------------------------------
(* ToolScopes: the challenge before a tool call and the consent it asks for. *)
(* The client there meets this server: SameConsentPage says that both        *)
(* modules mean the same consent.                                            *)

\* The scopes of ToolScopes are those the authorization server knows.
SameScopes ==
  /\ ReadScope = Read /\ GeneralWrite = Write
  /\ DataScopes = FinancialScopes
  /\ WriteScopes = {Write} \cup GranularWrites

\* With these scopes, the client of ToolScopes gets from the consent page what
\* consentScopes gives, and its challenge is accepted by the very loop that
\* authorize runs: ToolScopes abstracts this server truly.
THEOREM SameConsentPage ==
  ASSUME SameScopes, NEW asked, NEW writing \in BOOLEAN, NEW money \in BOOLEAN
  PROVE  /\ Granted(asked, writing, money)
              = ConsentScopes(Filtered(asked, money), IF writing THEN "write" ELSE "read")
         /\ Supported(asked) <=> asked \subseteq SupportedScopes(writesEnabled)
<1>1. Supported(asked) <=> asked \subseteq SupportedScopes(writesEnabled)
  BY DEF SameScopes, Supported, SupportedScopes
<1>2. Filtered(asked, money) \cap WriteScopes = asked \cap WriteScopes
  BY ScopeAssumption DEF Filtered
<1>3. Filtered(asked, money) \cap DataScopes = IF money THEN asked \cap DataScopes ELSE {}
  BY DEF Filtered
<1>4. ({ReadScope} \cup (Filtered(asked, money) \cap DataScopes)) \cap WriteScopes = {}
  BY ScopeAssumption
<1>5. CASE ~writing
  BY <1>1, <1>3, <1>5
     DEF SameScopes, Granted, ConsentScopes, RequestedScopes
<1>6. CASE writing
  <2>1. RequestedScopes(Filtered(asked, money), TRUE) \cap WriteScopes = asked \cap WriteScopes
    BY <1>2, <1>4 DEF RequestedScopes
  <2>2. RequestedScopes(Filtered(asked, money), TRUE)
          = {ReadScope} \cup (IF money THEN asked \cap DataScopes ELSE {})
              \cup (asked \cap WriteScopes)
    BY <1>2, <1>3 DEF RequestedScopes
  <2>3. QED
    BY <1>1, <1>6, <2>1, <2>2 DEF SameScopes, Granted, ConsentScopes
<1>7. QED
  BY <1>5, <1>6

\* A call about to be made with any token that the server has ever issued, so
\* also with scopes that are for other tools.
AnyToken ==
  /\ tool \in Tools /\ (tool \in MutationTools => writes)
  /\ token \in SUBSET ({Read, Write} \cup FinancialScopes \cup GranularWrites)
  /\ writes \in BOOLEAN /\ reply = "none" /\ challenge = {}

\* requiredMutationScope names a write scope for every mutation tool.
LEMMA MutationScopes ==
  ASSUME NEW t \in MutationTools
  PROVE  RequiredScope(t) \in {Write} \cup GranularWrites
<1>1. SuffixAction(t) \in {"create", "update", "archive"}
  BY DEF SuffixAction
<1>2. WarehouseScope(t) \in {Write} \cup GranularWrites
  BY <1>1 DEF WarehouseScope, GranularWrites
<1>3. ProcurementScope(t) \in {Write} \cup GranularWrites
  BY DEF ProcurementScope, GranularWrites
<1>4. QED
  BY <1>1, <1>2, <1>3 DEF RequiredScope, GranularWrites

\* A read tool needs cores:read and financial scopes only.
LEMMA ReadsScopes ==
  ASSUME NEW t
  PROVE  ReadScopes(t) \subseteq {Read} \cup FinancialScopes
BY DEF ReadScopes, FinancialScopes

\* What a challenge names is in the table of scopes that authorize accepts.
LEMMA ChallengeSupported ==
  ASSUME NEW t \in Tools, t \in MutationTools => writes
  PROVE  ChallengeScopes(t) \subseteq SupportedScopes(writes)
<1>1. {Financial("rental"), Financial("procurement")} \subseteq FinancialScopes
  BY DEF FinancialScopes, FinancialReads
<1>2. CASE t \in ReadTools
  BY <1>2, ReadsScopes DEF ChallengeScopes, SupportedScopes
<1>3. CASE t \notin ReadTools
  <2>1. t \in MutationTools /\ writes
    BY <1>3 DEF Tools
  <2>2. {Read, RequiredScope(t)} \subseteq SupportedScopes(writes)
    BY <2>1, MutationScopes DEF SupportedScopes
  <2>3. {Financial("rental"), Financial("procurement")} \subseteq SupportedScopes(writes)
    BY <1>1 DEF SupportedScopes
  <2>4. ChallengeScopes(t) \subseteq {Read, RequiredScope(t),
           Financial("rental"), Financial("procurement")}
    BY <1>3 DEF ChallengeScopes
  <2>5. QED
    BY <2>2, <2>3, <2>4
<1>4. QED
  BY <1>2, <1>3

\* What is granted once the challenge is.
Covered(scopes) ==
  /\ ChallengeScopes(tool) # {}
  /\ \A s \in ChallengeScopes(tool) :
       \/ s \in scopes
       \/ /\ tool \in MutationTools /\ s = RequiredScope(tool)
          /\ ~Explicit(tool) /\ Write \in scopes

\* Inductive.  A challenge covers its tool, and asks again for what the token
\* had; both have to last from the challenge to the call after the consent.
ScopesInv ==
  /\ tool \in Tools /\ (tool \in MutationTools => writes)
  /\ challenge \subseteq SupportedScopes(writes)
  /\ reply \in {"challenge", "consented"} => Covered(challenge)
  /\ reply = "challenge" => token \cap SupportedScopes(writes) \subseteq challenge

\* Every step of the client keeps ScopesInv.
LEMMA ScopesStep == ScopesInv /\ [ToolNext]_toolVars => ScopesInv'
<1> SUFFICES ASSUME ScopesInv, [ToolNext]_toolVars PROVE ScopesInv'
  OBVIOUS
<1>1. CASE Call
  <2>1. UNCHANGED <<tool, input, token, byAdmin, writes>>
    BY <1>1 DEF Call
  <2>3. CASE Missing(tool) # {}
    <3>1. reply' = "challenge" /\ challenge' = Requested(tool)
      BY <1>1, <2>3 DEF Call
    <3>2. Missing(tool) \subseteq ChallengeScopes(tool)
      BY DEF Missing
    <3>3. ChallengeScopes(tool) \subseteq SupportedScopes(writes)
      BY ChallengeSupported DEF ScopesInv
    <3>4. challenge' = (token \cap SupportedScopes(writes)) \cup Missing(tool)
      BY <3>1 DEF Requested
    <3>5. Covered(challenge')
      <4>1. ASSUME NEW s \in ChallengeScopes(tool), s \notin challenge'
            PROVE  /\ tool \in MutationTools /\ s = RequiredScope(tool)
                   /\ ~Explicit(tool) /\ Write \in challenge'
        <5>1. s \notin token
          BY <3>3, <3>4, <4>1
        <5>2. /\ tool \in MutationTools /\ s = RequiredScope(tool)
              /\ ~Explicit(tool) /\ Write \in token
          BY <3>4, <4>1, <5>1 DEF Missing
        <5>3. Write \in SupportedScopes(writes)
          BY <5>2 DEF SupportedScopes, ScopesInv
        <5>4. QED
          BY <3>4, <5>2, <5>3
      <4>2. QED
        BY <2>3, <3>2, <4>1 DEF Covered
    <3>6. Covered(challenge)'
      BY <3>5, <2>1 DEF Covered, ChallengeScopes, RentalMoney, ProcurementMoney
    <3>7. QED
      BY <2>1, <3>1, <3>2, <3>3, <3>4, <3>6 DEF ScopesInv
  <2>4. CASE Missing(tool) = {}
    <3>1. reply' = Decision(tool) /\ challenge' = challenge
      BY <1>1, <2>4 DEF Call
    <3>2. Decision(tool) \in {"scope", "role", "run"}
      BY DEF Decision
    <3>3. QED
      BY <2>1, <3>1, <3>2 DEF ScopesInv
  <2>5. QED
    BY <2>3, <2>4
<1>2. CASE Consent
  <2>1. /\ reply = "challenge" /\ reply' = "consented"
        /\ UNCHANGED <<tool, input, byAdmin, writes, challenge>>
    BY <1>2 DEF Consent
  <2>2. Covered(challenge)'
    BY <2>1 DEF ScopesInv, Covered, ChallengeScopes
  <2>3. QED
    BY <2>1, <2>2 DEF ScopesInv
<1>3. CASE UNCHANGED toolVars
  BY <1>3 DEF ScopesInv, Covered, toolVars, ChallengeScopes
<1>4. QED
  BY <1>1, <1>2, <1>3 DEF ToolNext

\* A tool whose challenge is not empty is asked for all that its call checks.
LEMMA ChallengeComplete ==
  ASSUME NEW t \in Tools, ChallengeScopes(t) # {}, NEW scopes,
         \A s \in ChallengeScopes(t) :
           \/ s \in scopes
           \/ /\ t \in MutationTools /\ s = RequiredScope(t)
              /\ ~Explicit(t) /\ Write \in scopes,
         scopes \subseteq token
  PROVE  Decision(t) \in {"role", "run"}
<1>1. ASSUME NEW x, Financial(x) \in ChallengeScopes(t)
      PROVE  Financial(x) \in token
  <2>1. t \in MutationTools => Financial(x) # RequiredScope(t)
    BY MutationScopes DEF Financial, Write, GranularWrites
  <2>2. QED
    BY <1>1, <2>1
<1>2. CASE t \in ReadTools
  <2>1. \A x \in DOMAIN FinancialReads :
          t \in FinancialReads[x] => Financial(x) \in ChallengeScopes(t)
    BY <1>2 DEF ChallengeScopes, ReadScopes
  <2>2. QED
    BY <1>1, <1>2, <2>1 DEF Decision
<1>3. CASE t \notin ReadTools
  <2>1. t \in MutationTools
    BY <1>3 DEF Tools
  <2>2. RequiredScope(t) \in ChallengeScopes(t)
    BY <1>3 DEF ChallengeScopes
  <2>3. Authorized(t)
    BY <2>2 DEF Authorized
  <2>4. ~(t[1] \in PlannerEntities \cup {"rental.staffing"} /\ RentalMoney(t, input = "money"))
    BY DEF RentalMoney, PlannerEntities
  <2>5. ~(t[1] \in PlannerEntities \cup {"rental.staffing", "rental.jobs"}
          /\ ProcurementMoney(t, input = "money"))
    BY DEF ProcurementMoney, PlannerEntities
  <2>6. ~(RentalMoney(t, input # "plain") /\ ProcurementMoney(t, input = "money"))
    BY DEF ProcurementMoney, RentalMoney
  <2>7. /\ RentalMoney(t, input = "money") => RentalMoney(t, input # "plain")
        /\ ProcurementMoney(t, input = "money") => ProcurementMoney(t, input # "plain")
    BY DEF ProcurementMoney, RentalMoney
  <2>8. RentalMoney(t, input = "money") => Financial("rental") \in token
    BY <1>1, <1>3, <2>4, <2>7 DEF ChallengeScopes
  <2>9. ProcurementMoney(t, input = "money") => Financial("procurement") \in token
    BY <1>1, <1>3, <2>5, <2>6, <2>7 DEF ChallengeScopes
  <2>10. ~CostChecked(t)
    <3> SUFFICES ASSUME CostChecked(t) PROVE FALSE
      OBVIOUS
    <3>1. t[1] \notin PlannerEntities \cup {"rental.staffing", "rental.jobs"}
      BY DEF CostChecked, PlannerEntities, CategoryEntities, OrderEntities
    <3>2. ~RentalMoney(t, input # "plain")
      BY DEF CostChecked, RentalMoney, CategoryEntities, OrderEntities
    <3>3. ~ProcurementMoney(t, input # "plain")
      BY DEF CostChecked, ProcurementMoney, CategoryEntities, OrderEntities
    <3>4. QED
      BY <1>3, <3>1, <3>2, <3>3 DEF ChallengeScopes
  <2>11. QED
    BY <1>3, <2>3, <2>8, <2>9, <2>10 DEF Decision
<1>4. QED
  BY <1>2, <1>3

\* ScopesInv holds at the start of the specification ...
LEMMA ScopesInitially == ToolInit => ScopesInv
BY DEF ToolInit, ScopesInv, Tools, ReadTools

\* ... and at the start with any token.
LEMMA AnyTokenInitially == AnyToken => ScopesInv
BY DEF AnyToken, ScopesInv

\* toolOAuthMiddleware challenges only with scopes that
\* validateAuthorizationRequest accepts in the same process.
THEOREM Grantable == ToolSpec => []ChallengeGrantable
<1>1. ScopesInv => ChallengeGrantable
  BY DEF ScopesInv, ChallengeGrantable
<1>2. QED
  BY <1>1, ScopesInitially, ScopesStep, PTL DEF ToolSpec

\* The call after a full consent passes the challenge and the checks for scopes.
LEMMA OneConsentStep ==
  ASSUME ScopesInv, Call, reply = "consented", challenge \subseteq token
  PROVE  reply' \in {"role", "run"}
<1>1. tool \in Tools /\ Covered(challenge)
  BY DEF ScopesInv
<1>2. Missing(tool) = {}
  BY <1>1 DEF Covered, Missing
<1>3. Decision(tool) \in {"role", "run"}
  BY <1>1, ChallengeComplete DEF Covered
<1>4. QED
  BY <1>2, <1>3 DEF Call

\* positionOAuthScopes and the checks of executeMutationTool and addTool agree
\* on every tool: who grants the whole challenge is not asked again.
THEOREM ConsentSuffices == ToolSpec => OneConsentSuffices
<1>1. ScopesInv /\ [ToolNext]_toolVars
      => [Call /\ reply = "consented" /\ challenge \subseteq token
            => reply' \in {"role", "run"}]_toolVars
  BY OneConsentStep
<1>2. QED
  BY <1>1, ScopesInitially, ScopesStep, PTL DEF ToolSpec, OneConsentSuffices

\* A consent that leaves nothing out keeps what the token had.
LEMMA GrantsStep ==
  ASSUME ScopesInv, Consent, challenge \subseteq token'
  PROVE  token \cap SupportedScopes(writes) \subseteq token'
BY DEF ScopesInv, Consent

\* positionOAuthChallenge asks again for the scopes of the old token, so that
\* its replacement loses none the user does not take away.
THEOREM GrantsStay == ToolSpec => GrantsKept
<1>1. ScopesInv /\ [ToolNext]_toolVars
      => [Consent /\ challenge \subseteq token'
            => token \cap SupportedScopes(writes) \subseteq token']_toolVars
  BY GrantsStep
<1>2. QED
  BY <1>1, ScopesInitially, ScopesStep, PTL DEF ToolSpec, GrantsKept

\* The list of executeMutationTool is a part of that of hasDurableWarehouseRetry.
LEMMA ReplayTables == ASSUME NEW t, OwnerReplay(t) PROVE DurableRetry(t)
BY DEF OwnerReplay, DurableRetry

\* A tool whose handler a retry repeats (executeMutationTool) is one whose
\* failed attempts the store forgets (hasDurableWarehouseRetry).
THEOREM Retriable == ToolSpec => []ReplayRetriable
<1>1. ReplayRetriable
  BY ReplayTables DEF ReplayRetriable
<1>2. QED
  BY <1>1, PTL

\* The three properties of the challenge for a client that comes with any
\* token, not only with the scopes that its tool tells apart.
THEOREM AnyTokenSuffices ==
  AnyToken /\ [][ToolNext]_toolVars
    => []ChallengeGrantable /\ OneConsentSuffices /\ GrantsKept
<1>1. ScopesInv => ChallengeGrantable
  BY DEF ScopesInv, ChallengeGrantable
<1>2. ScopesInv /\ [ToolNext]_toolVars
      => [Call /\ reply = "consented" /\ challenge \subseteq token
            => reply' \in {"role", "run"}]_toolVars
  BY OneConsentStep
<1>3. ScopesInv /\ [ToolNext]_toolVars
      => [Consent /\ challenge \subseteq token'
            => token \cap SupportedScopes(writes) \subseteq token']_toolVars
  BY GrantsStep
<1>4. QED
  BY <1>1, <1>2, <1>3, AnyTokenInitially, ScopesStep, PTL
     DEF OneConsentSuffices, GrantsKept
=============================================================================
