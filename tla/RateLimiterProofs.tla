------------------------- MODULE RateLimiterProofs -------------------------
(* Proofs about the rate limiter, for any number of requests, addresses    *)
(* and entries, any limit, and any wait for the lock up to one window.     *)
EXTENDS RateLimiter, FiniteSetTheorems, TLAPS

\* One request counts the same way in entries that differ by a deletion.
LEMMA CountedEntry ==
  ASSUME NEW e \in Entry \cup {None}, NEW t \in Nat
  PROVE  /\ Counted(e, t) \in Entry
         /\ e # None /\ t - e.window >= Window => Counted(e, t) = Counted(None, t)
         /\ Counted(None, t) = [window |-> t, count |-> 1]
BY NoneAssumption, LimiterAssumption DEF Counted, Entry

LEMMA InitInv == Init => LimiterInv
BY NoneAssumption DEF Init, LimiterInv, TypeOK

LEMMA ReadClockInv ==
  ASSUME LimiterInv, NEW r \in Requests, NEW a \in Addresses, ReadClock(r, a)
  PROVE  LimiterInv'
<1> USE DEF LimiterInv
<1>1. /\ pc[r] = "new" /\ pc' = [pc EXCEPT ![r] = "timed"]
      /\ address' = [address EXCEPT ![r] = a]
      /\ time' = [time EXCEPT ![r] = now]
      /\ entries' = entries /\ kept' = kept /\ now' = now
  BY DEF ReadClock
<1>2. TypeOK'
  BY <1>1 DEF TypeOK
<1>3. \A q \in Requests :
        /\ q # r => pc'[q] = pc[q] /\ address'[q] = address[q] /\ time'[q] = time[q]
        /\ q = r => pc'[q] = "timed" /\ address'[q] = a /\ time'[q] = now
  BY <1>1 DEF TypeOK
<1>4. \A q \in Requests : pc'[q] = "timed" =>
        address'[q] \in Addresses /\ time'[q] <= now' /\ now' <= time'[q] + MaxStall
  BY <1>1, <1>3, LimiterAssumption DEF TypeOK
<1>5. TimesAhead' \subseteq TimesAhead
  BY <1>1, <1>3 DEF TimesAhead
<1>6. QED
  BY <1>1, <1>2, <1>4, <1>5

LEMMA CountInv ==
  ASSUME LimiterInv, NEW r \in Requests, Count(r)
  PROVE  LimiterInv'
<1> USE DEF LimiterInv
<1> DEFINE a == address[r]
           t == time[r]
           e == [entries EXCEPT ![a] = Counted(entries[a], t)]
<1>1. /\ pc[r] = "timed" /\ a \in Addresses /\ t \in Nat /\ t <= now
      /\ now <= t + MaxStall /\ t \in TimesAhead
  BY DEF Count, TypeOK, TimesAhead
<1>2. /\ entries' = Swept(e, t)
      /\ kept' = [kept EXCEPT ![a] = Counted(kept[a], t)]
      /\ address' = address /\ time' = time /\ now' = now
      /\ \A q \in Requests : pc'[q] = "timed" => pc[q] = "timed"
      /\ pc' \in [Requests -> {"new", "timed", "allowed", "rejected"}]
  BY DEF Count, TypeOK
<1>3. entries[a] \in Entry \cup {None} /\ kept[a] \in Entry \cup {None}
  BY <1>1 DEF TypeOK
<1>4. Counted(entries[a], t) = Counted(kept[a], t) /\ Counted(entries[a], t) \in Entry
  BY <1>1, <1>3, CountedEntry
<1>5. e \in [Addresses -> Entry \cup {None}] /\ kept' \in [Addresses -> Entry \cup {None}]
  BY <1>1, <1>2, <1>4 DEF TypeOK
<1>6. e[a] = kept'[a] /\ \A b \in Addresses : b # a => e[b] = entries[b] /\ kept'[b] = kept[b]
  BY <1>1, <1>2, <1>4 DEF TypeOK
<1> HIDE DEF e
<1>7. \A b \in Addresses :
        entries'[b] = e[b] \/ (entries'[b] = None /\ e[b] # None /\ t - e[b].window > 2 * Window)
  BY <1>2, <1>5 DEF Swept, Stale
<1>8. TypeOK'
  <2>1. entries' \in [Addresses -> Entry \cup {None}]
    BY <1>2, <1>5 DEF Swept
  <2>2. QED
    BY <1>2, <1>5, <2>1 DEF TypeOK
<1>9. TimesAhead' \subseteq TimesAhead
  BY <1>2 DEF TimesAhead
<1>10. ASSUME NEW b \in Addresses
       PROVE  \/ entries'[b] = kept'[b]
              \/ /\ entries'[b] = None
                 /\ kept'[b] # None
                 /\ \A u \in TimesAhead' : u - kept'[b].window >= Window
  <2>1. CASE e[b] = kept'[b] /\ entries'[b] = None /\ e[b] # None
             /\ t - e[b].window > 2 * Window
    <3>1. e[b] \in Entry /\ e[b].window \in Nat
      BY <1>5, <2>1 DEF Entry
    <3>2. \A u \in TimesAhead : u \in Nat /\ u + MaxStall >= now
      BY LimiterAssumption DEF TimesAhead, TypeOK
    <3>3. \A u \in TimesAhead : u - e[b].window >= Window
      BY <1>1, <2>1, <3>1, <3>2, LimiterAssumption DEF TypeOK
    <3>4. QED
      BY <1>9, <2>1, <3>3
  <2>2. CASE e[b] = kept'[b] /\ entries'[b] = e[b]
    BY <2>2
  <2>3. CASE e[b] # kept'[b]
    BY <1>6, <1>7, <1>9, <2>3
  <2>4. QED
    BY <1>7, <2>1, <2>2, <2>3
<1>11. QED
  BY <1>2, <1>8, <1>10

LEMMA TickInv == ASSUME LimiterInv, Tick PROVE LimiterInv'
<1> USE DEF LimiterInv
<1>1. /\ now' = now + 1 /\ entries' = entries /\ kept' = kept
      /\ pc' = pc /\ address' = address /\ time' = time
      /\ \A r \in Requests : pc[r] = "timed" => now - time[r] < MaxStall
  BY DEF Tick
<1>2. TypeOK'
  BY <1>1 DEF TypeOK
<1>3. \A r \in Requests : pc'[r] = "timed" =>
        address'[r] \in Addresses /\ time'[r] <= now' /\ now' <= time'[r] + MaxStall
  BY <1>1, LimiterAssumption DEF TypeOK
<1>4. ASSUME NEW a \in Addresses, kept[a] # None,
             \A t \in TimesAhead : t - kept[a].window >= Window
      PROVE  \A t \in TimesAhead' : t - kept[a].window >= Window
  <2>1. kept[a].window \in Nat /\ now \in Nat
    BY <1>4 DEF TypeOK, Entry
  <2>2. now - kept[a].window >= Window
    BY <1>4 DEF TimesAhead
  <2>3. \A t \in TimesAhead' : t = now + 1 \/ t \in TimesAhead
    BY <1>1 DEF TimesAhead
  <2>4. QED
    BY <1>4, <2>1, <2>2, <2>3, LimiterAssumption
<1>5. QED
  BY <1>1, <1>2, <1>3, <1>4

LEMMA StepInv == LimiterInv /\ [Next]_vars => LimiterInv'
<1>1. ASSUME LimiterInv, UNCHANGED vars PROVE LimiterInv'
  BY <1>1 DEF vars, LimiterInv, TypeOK, TimesAhead
<1>2. QED
  BY <1>1, ReadClockInv, CountInv, TickInv DEF Next

\* The inductive invariant of the counters.
THEOREM LimiterInvariant == Spec => []LimiterInv
<1>1. QED
  BY InitInv, StepInv, PTL DEF Spec

\* An entry that was deleted counts a request as the entry kept would.
LEMMA InvHidesDeletion == LimiterInv => DeletionInvisible
<1> SUFFICES ASSUME LimiterInv, NEW a \in Addresses, NEW t \in TimesAhead
             PROVE  Counted(entries[a], t) = Counted(kept[a], t)
  BY DEF DeletionInvisible
<1>1. t \in Nat /\ kept[a] \in Entry \cup {None}
  BY DEF LimiterInv, TypeOK, TimesAhead
<1> QED BY <1>1, CountedEntry DEF LimiterInv

\* RateLimiter.Middleware: deleting old entries above MaxEntries never changes
\* a decision.
THEOREM DeletionUnseen == Spec => []DeletionInvisible
BY InvHidesDeletion, LimiterInvariant, PTL

----------------------------------------------------------------------------
(* The window that counted each request.                                   *)

Decided == {r \in Requests : pc[r] \in {"allowed", "rejected"}}

\* The requests of a that the window starting at w allowed, when opened tells
\* for each request the start of the window that counted it.
InWindow(opened, a, w) ==
  {r \in Requests : pc[r] = "allowed" /\ address[r] = a /\ opened[r] = w}

\* Requests were counted in a window that had not ended, or began meanwhile.
Timely(opened) ==
  \A r \in Decided :
    /\ address[r] \in Addresses /\ kept[address[r]] # None
    /\ time[r] <= now
    /\ time[r] < opened[r] + Window
    /\ opened[r] <= time[r] + MaxStall

\* Two windows of an address do not overlap; the one being counted is the last.
Apart(opened) ==
  /\ \A q, r \in Decided : address[q] = address[r] =>
       \/ opened[q] = opened[r]
       \/ opened[q] + Window <= opened[r]
       \/ opened[r] + Window <= opened[q]
  /\ \A r \in Decided :
       \/ opened[r] = kept[address[r]].window
       \/ opened[r] + Window <= kept[address[r]].window

\* The request that opened a window was allowed in it.
Openers(opened) ==
  /\ \A r \in Decided : \E q \in InWindow(opened, address[r], opened[r]) : time[q] = opened[r]
  /\ \A a \in Addresses : kept[a] # None =>
       \E q \in InWindow(opened, a, kept[a].window) : time[q] = kept[a].window

\* The count of the last window tells how many it allowed; no window allowed more.
Filled(opened) ==
  /\ \A a \in Addresses : kept[a] # None =>
       Cardinality(InWindow(opened, a, kept[a].window)) =
         IF kept[a].count <= Limit THEN kept[a].count ELSE Limit
  /\ \A a \in Addresses, w \in Nat : Cardinality(InWindow(opened, a, w)) <= Limit

\* A window that rejected was full, with requests counted before.
Full(opened) ==
  \A r \in Requests : pc[r] = "rejected" =>
    /\ Cardinality(InWindow(opened, address[r], opened[r])) = Limit
    /\ \A q \in InWindow(opened, address[r], opened[r]) : time[q] <= time[r] + MaxStall
    /\ opened[r] = kept[address[r]].window => kept[address[r]].count > Limit

Accounted(opened) ==
  /\ Timely(opened) /\ Apart(opened) /\ Openers(opened) /\ Filled(opened) /\ Full(opened)

\* The strengthening the two properties about counting rest on.
LedgerInv ==
  /\ LimiterInv
  /\ IsFiniteSet(Decided)
  /\ \E opened \in [Requests -> Nat] : Accounted(opened)

LEMMA InWindowIsDecided ==
  ASSUME NEW f, NEW a, NEW w, IsFiniteSet(Decided)
  PROVE  /\ InWindow(f, a, w) \subseteq Decided
         /\ IsFiniteSet(InWindow(f, a, w)) /\ Cardinality(InWindow(f, a, w)) \in Nat
<1>1. InWindow(f, a, w) \subseteq Decided
  BY DEF InWindow, Decided
<1> QED BY <1>1, FS_Subset, FS_CardinalityType

LEMMA LedgerInit == Init => LedgerInv
<1> SUFFICES ASSUME Init PROVE LedgerInv
  OBVIOUS
<1>1. Decided = {} /\ \A a \in Addresses : kept[a] = None
  BY DEF Init, Decided
<1>2. IsFiniteSet(Decided)
  BY <1>1, FS_EmptySet
<1>3. PICK f \in [Requests -> Nat] : f = [r \in Requests |-> 0]
  OBVIOUS
<1>4. \A a \in Addresses, w \in Nat : Cardinality(InWindow(f, a, w)) <= Limit
  <2>1. \A a, w : InWindow(f, a, w) = {}
    BY <1>1 DEF InWindow, Decided
  <2> QED BY <2>1, FS_EmptySet, LimiterAssumption
<1>5. Full(f)
  BY <1>1 DEF Full, Decided
<1>6. Accounted(f)
  BY <1>1, <1>4, <1>5 DEF Accounted, Timely, Apart, Openers, Filled
<1> QED BY <1>2, <1>6, InitInv DEF LedgerInv

\* Steps that count no request leave the ledger as it is.
LEMMA LedgerKept ==
  ASSUME LedgerInv, kept' = kept, now \in Nat, now' \in Nat, now <= now',
         Decided' = Decided,
         \A r \in Requests :
           /\ pc'[r] = pc[r] \/ (pc[r] = "new" /\ pc'[r] = "timed")
           /\ r \in Decided => address'[r] = address[r] /\ time'[r] = time[r]
  PROVE  (\E opened \in [Requests -> Nat] : Accounted(opened))'
<1>1. PICK f \in [Requests -> Nat] : Accounted(f)
  BY DEF LedgerInv
<1>2. ASSUME NEW a, NEW w PROVE InWindow(f, a, w)' = InWindow(f, a, w)
  BY DEF InWindow, Decided
<1>3. Timely(f)'
  BY <1>1 DEF Accounted, Timely, LedgerInv, LimiterInv, TypeOK, Decided
<1>4. Apart(f)'
  BY <1>1 DEF Accounted, Apart, Decided
<1>5. Openers(f)'
  <2>1. \A q \in Decided : address'[q] = address[q] /\ time'[q] = time[q]
    BY DEF Decided
  <2>2. \A a, w : InWindow(f, a, w) \subseteq Decided
    BY DEF InWindow, Decided
  <2> QED BY <1>1, <1>2, <2>1, <2>2 DEF Accounted, Openers
<1>6. Filled(f)'
  BY <1>1, <1>2 DEF Accounted, Filled
<1>7. Full(f)'
  <2>1. \A q \in Decided : address'[q] = address[q] /\ time'[q] = time[q]
    BY DEF Decided
  <2>2. \A a, w : InWindow(f, a, w) \subseteq Decided
    BY DEF InWindow, Decided
  <2>3. \A q \in Requests : pc'[q] = "rejected" => pc[q] = "rejected" /\ q \in Decided
    BY DEF Decided
  <2> QED BY <1>1, <1>2, <2>1, <2>2, <2>3 DEF Accounted, Full
<1>8. Accounted(f)'
  BY <1>3, <1>4, <1>5, <1>6, <1>7 DEF Accounted
<1> QED BY <1>8

\* The window that counts a request, and how many it allowed before.
LEMMA WindowOfRequest ==
  ASSUME LedgerInv, NEW f \in [Requests -> Nat], Accounted(f),
         NEW r \in Requests, pc[r] = "timed", NEW k, k = Counted(kept[address[r]], time[r])
  PROVE  /\ k \in Entry /\ k.count >= 1
         /\ time[r] < k.window + Window /\ k.window <= time[r] + MaxStall
         /\ \A q \in Decided : address[q] = address[r] =>
              f[q] = k.window \/ f[q] + Window <= k.window
         /\ Cardinality(InWindow(f, address[r], k.window)) =
              IF k.count - 1 <= Limit THEN k.count - 1 ELSE Limit
         /\ IF k.count = 1 THEN time[r] = k.window
            ELSE \E q \in InWindow(f, address[r], k.window) : time[q] = k.window
         /\ \A q \in Requests :
              pc[q] = "rejected" /\ address[q] = address[r] /\ f[q] = k.window
                => k.count - 1 > Limit
<1> DEFINE a == address[r]
           t == time[r]
           e == kept[a]
<1>1. /\ LimiterInv /\ IsFiniteSet(Decided)
      /\ Timely(f) /\ Apart(f) /\ Openers(f) /\ Filled(f) /\ Full(f)
  BY DEF LedgerInv, Accounted
<1>2. /\ a \in Addresses /\ t \in Nat /\ t <= now /\ now <= t + MaxStall /\ now \in Nat
      /\ e \in Entry \cup {None} /\ Window \in Nat \ {0} /\ Limit \in Nat \ {0} /\ MaxStall \in Nat
  BY <1>1, LimiterAssumption DEF LimiterInv, TypeOK
<1>3. CASE e = None \/ t - e.window >= Window
  <2>1. k = [window |-> t, count |-> 1]
    BY <1>3 DEF Counted
  <2>2. \A q \in Decided : address[q] = a => f[q] + Window <= t
    <3> SUFFICES ASSUME NEW q \in Decided, address[q] = a PROVE f[q] + Window <= t
      OBVIOUS
    <3>1. e # None /\ (f[q] = e.window \/ f[q] + Window <= e.window)
      BY <1>1 DEF Timely, Apart
    <3>2. e.window \in Nat /\ f[q] \in Nat
      BY <1>2, <3>1 DEF Entry, Decided
    <3> QED BY <1>2, <1>3, <3>1, <3>2
  <2>3. \A q \in Decided : address[q] = a => f[q] # t
    <3>1. \A q \in Decided : f[q] \in Nat
      BY DEF Decided
    <3> QED BY <1>2, <2>2, <3>1
  <2>4. InWindow(f, a, t) = {}
    BY <2>3 DEF InWindow, Decided
  <2>5. \A q \in Requests : pc[q] = "rejected" => q \in Decided
    BY DEF Decided
  <2> QED BY <1>2, <2>1, <2>2, <2>3, <2>4, <2>5, FS_EmptySet DEF Entry
<1>4. CASE e # None /\ ~(t - e.window >= Window)
  <2>1. k = [e EXCEPT !.count = @ + 1] /\ e \in Entry
    BY <1>2, <1>4 DEF Counted
  <2>2. k.window = e.window /\ k.count = e.count + 1 /\ e.window \in Nat /\ e.count \in Nat
    BY <2>1 DEF Entry
  <2>3. k \in Entry
    BY <2>1 DEF Entry
  <2>4. PICK x \in InWindow(f, a, e.window) : time[x] = e.window
    BY <1>1, <1>2, <1>4 DEF Openers
  <2>5. time[x] <= now
    BY <1>1, <2>4, InWindowIsDecided DEF Timely
  <2>6. Cardinality(InWindow(f, a, e.window)) = IF e.count <= Limit THEN e.count ELSE Limit
    BY <1>1, <1>2, <1>4 DEF Filled
  <2>7. e.count >= 1
    <3>1. InWindow(f, a, e.window) # {} /\ IsFiniteSet(InWindow(f, a, e.window))
      BY <1>1, <2>4, InWindowIsDecided
    <3>2. Cardinality(InWindow(f, a, e.window)) # 0
      BY <3>1, FS_EmptySet
    <3> QED BY <1>2, <2>2, <2>6, <3>2
  <2>8. \A q \in Decided : address[q] = a => f[q] = k.window \/ f[q] + Window <= k.window
    BY <1>1, <2>2 DEF Apart
  <2>9. t < k.window + Window /\ k.window <= t + MaxStall
    BY <1>2, <1>4, <2>2, <2>4, <2>5
  <2>10. \A q \in Requests :
           pc[q] = "rejected" /\ address[q] = a /\ f[q] = k.window => k.count - 1 > Limit
    BY <1>1, <2>2 DEF Full
  <2> QED BY <1>2, <2>2, <2>3, <2>4, <2>6, <2>7, <2>8, <2>9, <2>10
<1> QED BY <1>3, <1>4

LEMMA LedgerCounts ==
  ASSUME LedgerInv, NEW r \in Requests, Count(r)
  PROVE  /\ IsFiniteSet(Decided)'
         /\ (\E opened \in [Requests -> Nat] : Accounted(opened))'
<1>1. PICK f \in [Requests -> Nat] : Accounted(f)
  BY DEF LedgerInv
<1>2. PICK k : k = Counted(kept[address[r]], time[r])
  OBVIOUS
<1>3. PICK a : a = address[r]
  OBVIOUS
<1>4. /\ LimiterInv /\ IsFiniteSet(Decided) /\ TypeOK
      /\ Timely(f) /\ Apart(f) /\ Openers(f) /\ Filled(f) /\ Full(f)
  BY <1>1 DEF LedgerInv, LimiterInv, Accounted
<1>5. /\ a \in Addresses /\ pc[r] = "timed" /\ time[r] \in Nat
      /\ time[r] <= now /\ now <= time[r] + MaxStall /\ now \in Nat
      /\ Window \in Nat \ {0} /\ Limit \in Nat \ {0} /\ MaxStall \in Nat
  BY <1>3, <1>4, LimiterAssumption DEF Count, LimiterInv, TypeOK
<1>6. /\ k \in Entry /\ k.window \in Nat /\ k.count \in Nat /\ k.count >= 1
      /\ time[r] < k.window + Window /\ k.window <= time[r] + MaxStall
      /\ \A q \in Decided : address[q] = a => f[q] = k.window \/ f[q] + Window <= k.window
      /\ Cardinality(InWindow(f, a, k.window)) =
           IF k.count - 1 <= Limit THEN k.count - 1 ELSE Limit
      /\ IF k.count = 1 THEN time[r] = k.window
         ELSE \E q \in InWindow(f, a, k.window) : time[q] = k.window
      /\ \A q \in Requests :
           pc[q] = "rejected" /\ address[q] = a /\ f[q] = k.window => k.count - 1 > Limit
  BY <1>1, <1>2, <1>3, <1>5, WindowOfRequest DEF Entry
<1>7. PICK g \in [Requests -> Nat] : g = [f EXCEPT ![r] = k.window]
  BY <1>6
<1>8. g[r] = k.window /\ \A q \in Requests : q # r => g[q] = f[q]
  BY <1>7
<1>9. k = Counted(entries[a], time[r])
  <2>1. LimiterInv => DeletionInvisible
    BY InvHidesDeletion
  <2>2. time[r] \in TimesAhead
    BY <1>5 DEF TimesAhead
  <2> QED BY <1>2, <1>3, <1>4, <1>5, <2>1, <2>2 DEF DeletionInvisible
<1>10. /\ kept' = [kept EXCEPT ![a] = k]
       /\ pc' = [pc EXCEPT ![r] = IF k.count <= Limit THEN "allowed" ELSE "rejected"]
       /\ address' = address /\ time' = time /\ now' = now
  BY <1>2, <1>3, <1>9 DEF Count, Allows
<1>11. /\ kept'[a] = k /\ \A b \in Addresses : b # a => kept'[b] = kept[b]
       /\ pc'[r] = IF k.count <= Limit THEN "allowed" ELSE "rejected"
       /\ \A q \in Requests : q # r => pc'[q] = pc[q]
  BY <1>4, <1>5, <1>10 DEF TypeOK
<1>12. Decided' = Decided \cup {r} /\ r \notin Decided
  BY <1>5, <1>11 DEF Decided
<1>13. IsFiniteSet(Decided)'
  <2>1. IsFiniteSet(Decided \cup {r})
    BY <1>4, FS_AddElement
  <2> QED BY <1>12, <2>1
<1> DEFINE Later(b, w) == {q \in Requests : pc'[q] = "allowed" /\ address'[q] = b /\ g[q] = w}
<1>14. ASSUME NEW b, NEW w
       PROVE  Later(b, w) =
                IF k.count <= Limit /\ b = a /\ w = k.window THEN InWindow(f, b, w) \cup {r}
                ELSE InWindow(f, b, w)
  <2>1. Later(b, w) =
          {q \in Requests : pc'[q] = "allowed" /\ address[q] = b /\ g[q] = w}
    BY <1>10
  <2>2. \A q \in Requests : q # r =>
          (pc'[q] = "allowed" /\ address[q] = b /\ g[q] = w <=> q \in InWindow(f, b, w))
    BY <1>8, <1>11 DEF InWindow
  <2>3. r \notin InWindow(f, b, w)
    BY <1>5 DEF InWindow
  <2>4. pc'[r] = "allowed" /\ address[r] = b /\ g[r] = w
          <=> k.count <= Limit /\ b = a /\ w = k.window
    BY <1>3, <1>8, <1>11
  <2>5. InWindow(f, b, w) \subseteq Requests
    BY DEF InWindow
  <2> QED BY <2>1, <2>2, <2>3, <2>4, <2>5
<1> HIDE DEF Later
<1>15. \A b, w : InWindow(f, b, w) \subseteq Later(b, w)
  BY <1>14
<1>16. \A q \in Decided : q \in Requests /\ q # r /\ g[q] = f[q]
  BY <1>8, <1>12 DEF Decided
<1>17. Timely(g)'
  <2> SUFFICES ASSUME NEW q \in Decided'
               PROVE  /\ address'[q] \in Addresses /\ kept'[address'[q]] # None
                      /\ time'[q] <= now'
                      /\ time'[q] < g[q] + Window
                      /\ g[q] <= time'[q] + MaxStall
    BY Zenon DEF Timely
  <2>1. k # None
    BY <1>6, NoneAssumption
  <2>2. CASE q = r
    BY <1>3, <1>5, <1>6, <1>8, <1>10, <1>11, <2>1, <2>2
  <2>3. CASE q # r
    <3>1. q \in Decided
      BY <1>12, <2>3
    <3> QED BY <1>4, <1>10, <1>11, <1>16, <2>1, <3>1 DEF Timely
  <2> QED BY <2>2, <2>3
<1>18. Apart(g)'
  <2>1. ASSUME NEW p \in Decided', NEW q \in Decided', address'[p] = address'[q]
        PROVE  g[p] = g[q] \/ g[p] + Window <= g[q] \/ g[q] + Window <= g[p]
    BY <1>3, <1>4, <1>6, <1>8, <1>10, <1>12, <1>16, <2>1 DEF Apart
  <2>2. ASSUME NEW q \in Decided'
        PROVE  g[q] = kept'[address'[q]].window \/ g[q] + Window <= kept'[address'[q]].window
    <3>1. CASE q = r
      BY <1>3, <1>8, <1>10, <1>11, <3>1
    <3>2. CASE q # r
      <4>1. q \in Decided /\ address[q] \in Addresses
        BY <1>4, <1>12, <3>2 DEF Timely
      <4> QED BY <1>4, <1>6, <1>10, <1>11, <1>16, <4>1 DEF Apart
    <3> QED BY <3>1, <3>2
  <2> QED BY <2>1, <2>2 DEF Apart
<1>19. \E x \in Later(a, k.window) : time[x] = k.window
  <2>1. CASE k.count = 1
    <3>1. r \in Later(a, k.window)
      BY <1>5, <1>14, <2>1
    <3> QED BY <1>6, <2>1, <3>1
  <2>2. CASE k.count # 1
    BY <1>6, <1>15, <2>2
  <2> QED BY <2>1, <2>2
<1>20. Openers(g)'
  <2>1. ASSUME NEW q \in Decided'
        PROVE  \E x \in Later(address'[q], g[q]) : time'[x] = g[q]
    <3>1. CASE q = r
      BY <1>3, <1>8, <1>10, <1>19, <3>1
    <3>2. CASE q # r
      <4>1. q \in Decided /\ g[q] = f[q]
        BY <1>12, <1>16, <3>2
      <4>2. PICK x \in InWindow(f, address[q], f[q]) : time[x] = f[q]
        BY <1>4, <4>1 DEF Openers
      <4> QED BY <1>10, <1>15, <4>1, <4>2
    <3> QED BY <3>1, <3>2
  <2>2. ASSUME NEW b \in Addresses, kept'[b] # None
        PROVE  \E x \in Later(b, kept'[b].window) : time'[x] = kept'[b].window
    <3>1. CASE b = a
      BY <1>10, <1>11, <1>19, <3>1
    <3>2. CASE b # a
      <4>1. PICK x \in InWindow(f, b, kept[b].window) : time[x] = kept[b].window
        BY <1>4, <1>11, <2>2, <3>2 DEF Openers
      <4> QED BY <1>10, <1>11, <1>15, <3>2, <4>1
    <3> QED BY <3>1, <3>2
  <2> QED BY <2>1, <2>2 DEF Openers, InWindow, Later
<1>21. Cardinality(Later(a, k.window)) = IF k.count <= Limit THEN k.count ELSE Limit
  <2>1. IsFiniteSet(InWindow(f, a, k.window)) /\ r \notin InWindow(f, a, k.window)
    BY <1>4, <1>12, InWindowIsDecided
  <2>2. Cardinality(InWindow(f, a, k.window) \cup {r}) = Cardinality(InWindow(f, a, k.window)) + 1
    BY <2>1, FS_AddElement
  <2>3. CASE k.count <= Limit
    <3>1. Later(a, k.window) = InWindow(f, a, k.window) \cup {r}
      BY <1>14, <2>3
    <3> QED BY <1>5, <1>6, <2>2, <2>3, <3>1
  <2>4. CASE ~(k.count <= Limit)
    <3>1. Later(a, k.window) = InWindow(f, a, k.window)
      BY <1>14, <2>4
    <3> QED BY <1>5, <1>6, <2>4, <3>1
  <2> QED BY <2>3, <2>4
<1>22. Filled(g)'
  <2>1. ASSUME NEW b \in Addresses, NEW w \in Nat
        PROVE  Cardinality(Later(b, w)) <= Limit
    <3>1. CASE b = a /\ w = k.window
      BY <1>5, <1>6, <1>21, <3>1
    <3>2. CASE ~(b = a /\ w = k.window)
      <4>1. Later(b, w) = InWindow(f, b, w)
        BY <1>14, <3>2
      <4> QED BY <1>4, <4>1 DEF Filled
    <3> QED BY <3>1, <3>2
  <2>2. ASSUME NEW b \in Addresses, kept'[b] # None
        PROVE  Cardinality(Later(b, kept'[b].window)) =
                 IF kept'[b].count <= Limit THEN kept'[b].count ELSE Limit
    <3>1. CASE b = a
      BY <1>11, <1>21, <3>1
    <3>2. CASE b # a
      <4>1. Later(b, kept[b].window) = InWindow(f, b, kept[b].window)
        BY <1>11, <1>14, <3>2
      <4> QED BY <1>4, <1>11, <2>2, <3>2, <4>1 DEF Filled
    <3> QED BY <3>1, <3>2
  <2> QED BY <2>1, <2>2 DEF Filled, InWindow, Later
<1>23. Full(g)'
  <2> SUFFICES ASSUME NEW q \in Requests, pc'[q] = "rejected"
               PROVE  /\ Cardinality(Later(address[q], g[q])) = Limit
                      /\ \A p \in Later(address[q], g[q]) : time[p] <= time[q] + MaxStall
                      /\ g[q] = kept'[address[q]].window => kept'[address[q]].count > Limit
    BY <1>10, Zenon DEF Full, InWindow, Later
  <2>1. CASE q = r
    <3>1. k.count > Limit
      BY <1>5, <1>6, <1>11, <2>1
    <3>2. Later(a, k.window) = InWindow(f, a, k.window)
      BY <1>5, <1>6, <1>14, <3>1
    <3>3. \A p \in InWindow(f, a, k.window) : time[p] \in Nat /\ time[p] <= now
      BY <1>4, InWindowIsDecided DEF Timely, Decided, TypeOK
    <3>4. \A p \in InWindow(f, a, k.window) : time[p] <= time[r] + MaxStall
      BY <1>5, <3>3
    <3>5. Cardinality(Later(a, k.window)) = Limit
      BY <1>5, <1>6, <1>21, <3>1
    <3> QED BY <1>3, <1>8, <1>11, <2>1, <3>1, <3>2, <3>4, <3>5
  <2>2. CASE q # r
    <3>1. /\ pc[q] = "rejected" /\ g[q] = f[q] /\ q \in Decided
      BY <1>8, <1>11, <2>2 DEF Decided
    <3>2. address[q] = a /\ f[q] = k.window => k.count > Limit
      BY <1>5, <1>6, <3>1
    <3>3. Later(address[q], f[q]) = InWindow(f, address[q], f[q])
      BY <1>5, <1>6, <1>14, <3>2
    <3>4. address[q] \in Addresses
      BY <1>4, <3>1 DEF Timely
    <3> QED BY <1>4, <1>11, <3>1, <3>2, <3>3, <3>4 DEF Full
  <2> QED BY <2>1, <2>2
<1>24. Accounted(g)'
  BY <1>17, <1>18, <1>20, <1>22, <1>23 DEF Accounted
<1> QED BY <1>13, <1>24

LEMMA LedgerNext == LedgerInv /\ [Next]_vars => LedgerInv'
<1> SUFFICES ASSUME LedgerInv, [Next]_vars PROVE LedgerInv'
  OBVIOUS
<1>1. LimiterInv /\ LimiterInv' /\ TypeOK /\ TypeOK'
  BY StepInv DEF LedgerInv, LimiterInv
<1>2. CASE \E r \in Requests : Count(r)
  BY <1>1, <1>2, LedgerCounts DEF LedgerInv
<1>3. CASE UNCHANGED vars \/ Tick \/ \E r \in Requests, a \in Addresses : ReadClock(r, a)
  <2>1. /\ kept' = kept /\ now <= now'
        /\ \A r \in Requests :
             /\ pc'[r] = pc[r] \/ (pc[r] = "new" /\ pc'[r] = "timed")
             /\ r \in Decided => address'[r] = address[r] /\ time'[r] = time[r]
    BY <1>1, <1>3 DEF vars, Tick, ReadClock, TypeOK, Decided
  <2>2. Decided' = Decided
    BY <2>1 DEF Decided
  <2>3. now \in Nat /\ now' \in Nat
    BY <1>1 DEF TypeOK
  <2>4. (\E opened \in [Requests -> Nat] : Accounted(opened))'
    BY <2>1, <2>2, <2>3, LedgerKept
  <2> QED BY <1>1, <2>2, <2>4 DEF LedgerInv
<1> QED BY <1>2, <1>3 DEF Next

\* Every decision can be charged to a window of its address that was counted
\* correctly.
THEOREM LedgerInvariant == Spec => []LedgerInv
BY LedgerInit, LedgerNext, PTL DEF Spec

----------------------------------------------------------------------------
(* What follows for the requests of a minute.                              *)

\* Allowed requests of an address whose windows start within one window of each
\* other were counted in the same window; one of them opened it, or is missing.
LEMMA OneWindow ==
  ASSUME LedgerInv, NEW f \in [Requests -> Nat], Accounted(f), NEW a \in Addresses,
         NEW S \in SUBSET {r \in Requests : pc[r] = "allowed" /\ address[r] = a},
         \A p, q \in S : f[p] < f[q] + Window
  PROVE  /\ IsFiniteSet(S) /\ Cardinality(S) \in Nat /\ Cardinality(S) <= Limit
         /\ (\A q \in S : time[q] # f[q]) => Cardinality(S) <= Limit - 1
<1>1. IsFiniteSet(Decided) /\ Apart(f) /\ Openers(f) /\ Filled(f) /\ Limit \in Nat \ {0}
      /\ Window \in Nat
  BY LimiterAssumption DEF LedgerInv, Accounted
<1>2. S \subseteq Decided
  BY DEF Decided
<1>3. IsFiniteSet(S) /\ Cardinality(S) \in Nat
  BY <1>1, <1>2, FS_Subset, FS_CardinalityType
<1>4. CASE S = {}
  BY <1>1, <1>3, <1>4, FS_EmptySet
<1>5. CASE S # {}
  <2>1. PICK q \in S : TRUE
    BY <1>5
  <2>2. f[q] \in Nat /\ \A p \in S : f[p] \in Nat
    BY <1>2 DEF Decided
  <2>3. \A p \in S : f[p] = f[q]
    BY <1>1, <1>2, <2>1, <2>2 DEF Apart
  <2>4. S \subseteq InWindow(f, a, f[q])
    BY <2>3 DEF InWindow
  <2>5. IsFiniteSet(InWindow(f, a, f[q])) /\ Cardinality(InWindow(f, a, f[q])) \in Nat
    BY <1>1, InWindowIsDecided
  <2>6. Cardinality(InWindow(f, a, f[q])) <= Limit
    BY <1>1, <2>2 DEF Filled
  <2>7. Cardinality(S) <= Limit
    <3>1. Cardinality(S) <= Cardinality(InWindow(f, a, f[q]))
      BY <2>4, <2>5, FS_Subset
    <3> QED BY <1>1, <1>3, <2>5, <2>6, <3>1
  <2>8. PICK x \in InWindow(f, a, f[q]) : time[x] = f[q]
    <3>1. address[q] = a /\ q \in Decided
      BY <1>2, <2>1
    <3> QED BY <1>1, <3>1 DEF Openers
  <2>9. x \notin S => Cardinality(S) <= Limit - 1
    <3> SUFFICES ASSUME x \notin S PROVE Cardinality(S) <= Limit - 1
      OBVIOUS
    <3>1. S \subseteq InWindow(f, a, f[q]) \ {x}
      BY <2>4
    <3>2. /\ IsFiniteSet(InWindow(f, a, f[q]) \ {x})
          /\ Cardinality(InWindow(f, a, f[q]) \ {x}) = Cardinality(InWindow(f, a, f[q])) - 1
      BY <2>5, <2>8, FS_RemoveElement
    <3>3. Cardinality(S) <= Cardinality(InWindow(f, a, f[q]) \ {x})
      BY <3>1, <3>2, FS_Subset
    <3> QED BY <1>1, <1>3, <2>5, <2>6, <3>2, <3>3
  <2>10. pc[x] = "allowed" /\ address[x] = a /\ f[x] = f[q] /\ x \in Requests
    BY <2>8 DEF InWindow
  <2> QED BY <1>3, <2>7, <2>8, <2>9, <2>10
<1> QED BY <1>4, <1>5

LEMMA AllowedAreFew ==
  ASSUME LedgerInv, NEW a \in Addresses, NEW t \in Nat
  PROVE  Cardinality(Allowed(a, t, t + Window - 1))
           <= IF MaxStall = 0 THEN 2 * Limit - 1 ELSE 3 * Limit - 2
<1> DEFINE burst == Allowed(a, t, t + Window - 1)
<1>1. PICK f \in [Requests -> Nat] : Accounted(f)
  BY DEF LedgerInv
<1> DEFINE before == {q \in burst : f[q] < t}
           within == {q \in burst : t <= f[q] /\ f[q] < t + Window}
           after == {q \in burst : t + Window <= f[q]}
<1>2. /\ Limit \in Nat \ {0} /\ Window \in Nat \ {0} /\ MaxStall \in 0..Window
      /\ Timely(f) /\ time \in [Requests -> Nat]
  BY <1>1, LimiterAssumption DEF LedgerInv, LimiterInv, TypeOK, Accounted
<1>3. burst \subseteq {r \in Requests : pc[r] = "allowed" /\ address[r] = a}
  BY DEF Allowed
<1>4. \A q \in burst : /\ f[q] \in Nat /\ time[q] \in Nat
                       /\ t <= time[q] /\ time[q] < t + Window
                       /\ time[q] < f[q] + Window /\ f[q] <= time[q] + MaxStall
  <2> SUFFICES ASSUME NEW q \in burst
               PROVE  /\ f[q] \in Nat /\ time[q] \in Nat
                      /\ t <= time[q] /\ time[q] < t + Window
                      /\ time[q] < f[q] + Window /\ f[q] <= time[q] + MaxStall
    OBVIOUS
  <2>1. q \in Decided /\ q \in Requests /\ time[q] \in t..(t + Window - 1)
    BY DEF Allowed, Decided
  <2>2. time[q] < f[q] + Window /\ f[q] <= time[q] + MaxStall
    BY <1>2, <2>1 DEF Timely
  <2> QED BY <1>2, <2>1, <2>2
<1> HIDE DEF burst
<1>5. IsFiniteSet(before) /\ Cardinality(before) \in Nat /\ Cardinality(before) <= Limit - 1
  <2>1. \A p, q \in before : f[p] < f[q] + Window
    BY <1>2, <1>4
  <2>2. \A q \in before : time[q] # f[q]
    BY <1>4
  <2> QED BY <1>1, <1>3, <2>1, <2>2, OneWindow
<1>6. IsFiniteSet(within) /\ Cardinality(within) \in Nat /\ Cardinality(within) <= Limit
  <2>1. \A p, q \in within : f[p] < f[q] + Window
    BY <1>2, <1>4
  <2> QED BY <1>1, <1>3, <2>1, OneWindow
<1>7. IsFiniteSet(after) /\ Cardinality(after) \in Nat /\ Cardinality(after) <= Limit - 1
  <2>1. \A p, q \in after : f[p] < f[q] + Window
    BY <1>2, <1>4
  <2>2. \A q \in after : time[q] # f[q]
    BY <1>2, <1>4
  <2> QED BY <1>1, <1>3, <2>1, <2>2, OneWindow
<1>8. MaxStall = 0 => after = {}
  BY <1>2, <1>4
<1>9. burst = before \cup within \cup after
  BY <1>2, <1>4
<1> HIDE DEF before, within, after
<1>10. /\ IsFiniteSet(before \cup within)
       /\ Cardinality(before \cup within) \in Nat
       /\ Cardinality(before \cup within) <= 2 * Limit - 1
  <2>1. /\ IsFiniteSet(before \cup within) /\ IsFiniteSet(before \cap within)
        /\ Cardinality(before \cup within) =
             Cardinality(before) + Cardinality(within) - Cardinality(before \cap within)
    BY <1>5, <1>6, FS_Union, FS_Subset
  <2>2. Cardinality(before \cap within) \in Nat /\ Cardinality(before \cup within) \in Nat
    BY <2>1, FS_CardinalityType
  <2> QED BY <1>2, <1>5, <1>6, <2>1, <2>2
<1>11. CASE MaxStall = 0
  BY <1>8, <1>9, <1>10, <1>11 DEF burst
<1>12. CASE MaxStall # 0
  <2>1. /\ IsFiniteSet(burst) /\ IsFiniteSet((before \cup within) \cap after)
        /\ Cardinality(burst) = Cardinality(before \cup within) + Cardinality(after)
                                  - Cardinality((before \cup within) \cap after)
    BY <1>7, <1>9, <1>10, FS_Union, FS_Subset
  <2>2. Cardinality((before \cup within) \cap after) \in Nat /\ Cardinality(burst) \in Nat
    BY <2>1, FS_CardinalityType
  <2>3. Cardinality(burst) <= 3 * Limit - 2
    BY <1>2, <1>7, <1>10, <2>1, <2>2
  <2> QED BY <1>12, <2>3 DEF burst
<1> QED BY <1>11, <1>12

\* RateLimiter.Middleware: what one address may send within any minute is
\* bounded by its limit, also when requests wait for the lock.
THEOREM BurstsBounded == Spec => []BurstBound
<1>1. LedgerInv => BurstBound
  <2> SUFFICES ASSUME LedgerInv, NEW a \in Addresses, NEW t \in 0..now
               PROVE  Cardinality(Allowed(a, t, t + Window - 1))
                        <= IF MaxStall = 0 THEN 2 * Limit - 1 ELSE 3 * Limit - 2
    BY DEF BurstBound
  <2>1. t \in Nat
    BY DEF LedgerInv, LimiterInv, TypeOK
  <2> QED BY <2>1, AllowedAreFew
<1> QED BY <1>1, LedgerInvariant, PTL

\* RateLimiter.Middleware: a request is rejected only for requests of its own
\* address that were allowed within a minute of it.
THEOREM RejectionsFounded == Spec => []RejectedForCause
<1>1. ASSUME LedgerInv, NEW r \in Requests, pc[r] = "rejected"
      PROVE  Cardinality(Allowed(address[r], time[r] - (Window + MaxStall) + 1,
                                 time[r] + MaxStall)) >= Limit
  <2>1. PICK f \in [Requests -> Nat] : Accounted(f)
    BY <1>1 DEF LedgerInv
  <2> DEFINE w == InWindow(f, address[r], f[r])
             around == Allowed(address[r], time[r] - (Window + MaxStall) + 1, time[r] + MaxStall)
  <2>2. /\ IsFiniteSet(Decided) /\ Timely(f) /\ time \in [Requests -> Nat]
        /\ Limit \in Nat /\ Window \in Nat /\ MaxStall \in Nat
    BY <1>1, <2>1, LimiterAssumption DEF LedgerInv, LimiterInv, TypeOK, Accounted
  <2>3. Cardinality(w) = Limit /\ \A q \in w : time[q] <= time[r] + MaxStall
    BY <1>1, <2>1 DEF Accounted, Full
  <2>4. r \in Decided
    BY <1>1 DEF Decided
  <2>5. w \subseteq around
    <3> SUFFICES ASSUME NEW q \in w PROVE q \in around
      OBVIOUS
    <3>1. q \in Requests /\ pc[q] = "allowed" /\ address[q] = address[r] /\ f[q] = f[r]
      BY DEF InWindow
    <3>2. f[q] <= time[q] + MaxStall /\ time[r] < f[r] + Window
      BY <2>2, <2>4, <3>1 DEF Timely, Decided
    <3>3. time[q] \in (time[r] - (Window + MaxStall) + 1)..(time[r] + MaxStall)
      BY <2>1, <2>2, <2>3, <3>1, <3>2
    <3> QED BY <3>1, <3>3 DEF Allowed
  <2>6. IsFiniteSet(around) /\ Cardinality(around) \in Nat
    <3>1. around \subseteq Decided
      BY DEF Allowed, Decided
    <3> QED BY <2>2, <3>1, FS_Subset, FS_CardinalityType
  <2>7. Cardinality(w) <= Cardinality(around)
    BY <2>5, <2>6, FS_Subset
  <2> QED BY <2>2, <2>3, <2>6, <2>7
<1>2. LedgerInv => RejectedForCause
  BY <1>1 DEF RejectedForCause
<1> QED BY <1>2, LedgerInvariant, PTL
=============================================================================
