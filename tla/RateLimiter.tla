---------------------------- MODULE RateLimiter ----------------------------
(***************************************************************************)
(* The rate limiter in front of every route (internal/httpx/middleware.go, *)
(* RateLimiter.Middleware): one fixed window per client address, counted   *)
(* from the first request after the previous window ended.                 *)
(*                                                                         *)
(* The middleware reads the clock before it takes the lock, so requests    *)
(* may be counted in another order than their times.  MaxStall bounds how  *)
(* long a request waits between the two.                                   *)
(***************************************************************************)
EXTENDS Integers, FiniteSets

CONSTANTS
  Requests, Addresses, None,
  Limit,       \* MCP_RATE_LIMIT_PER_MINUTE
  Window,      \* one minute
  MaxEntries,  \* 10000
  MaxStall,    \* longest wait for the lock
  MaxTime      \* bound of the clock (model only)

ASSUME LimiterAssumption ==
  /\ Limit \in Nat \ {0} /\ Window \in Nat \ {0}
  /\ MaxEntries \in Nat /\ MaxStall \in 0..Window

VARIABLES
  entries,  \* RateLimiter.entries: address -> window start and count, or None
  kept,     \* the same map if nothing were ever deleted from it (history)
  pc,       \* request -> new, timed, allowed or rejected
  address,  \* request -> clientIP
  time,     \* request -> the time it read
  now

vars == <<entries, kept, pc, address, time, now>>

Entry == [window: Nat, count: Nat]

ASSUME NoneAssumption == None \notin Entry

TypeOK ==
  /\ entries \in [Addresses -> Entry \cup {None}]
  /\ kept \in [Addresses -> Entry \cup {None}]
  /\ pc \in [Requests -> {"new", "timed", "allowed", "rejected"}]
  /\ address \in [Requests -> Addresses \cup {None}]
  /\ time \in [Requests -> Nat]
  /\ now \in Nat

Init ==
  /\ entries = [a \in Addresses |-> None]
  /\ kept = [a \in Addresses |-> None]
  /\ pc = [r \in Requests |-> "new"]
  /\ address = [r \in Requests |-> None]
  /\ time = [r \in Requests |-> 0]
  /\ now = 0

\* clientIP and time.Now(), before the lock.
ReadClock(r, a) ==
  /\ pc[r] = "new"
  /\ pc' = [pc EXCEPT ![r] = "timed"]
  /\ address' = [address EXCEPT ![r] = a]
  /\ time' = [time EXCEPT ![r] = now]
  /\ UNCHANGED <<entries, kept, now>>

\* Mutant: every request moves the window.
Counted_Sliding(entry, t) ==
  IF entry = None \/ t - entry.window >= Window THEN [window |-> t, count |-> 1]
  ELSE [window |-> t, count |-> entry.count + 1]

\* A window that ended, or none, makes room for a new one; then count.
Counted(entry, t) ==
  IF entry = None \/ t - entry.window >= Window THEN [window |-> t, count |-> 1]
  ELSE [entry EXCEPT !.count = @ + 1]

\* Mutant: the count is compared before it is raised.
Allows_Late(entry) == entry.count - 1 <= Limit

Allows(entry) == entry.count <= Limit

\* Mutant: an entry is deleted as soon as its window is over.
Stale_AtOnce(entry, t) == t - entry.window > Window

Stale(entry, t) == t - entry.window > 2 * Window

\* The sweep at the end of the critical section.
Swept(e, t) ==
  IF Cardinality({a \in Addresses : e[a] # None}) > MaxEntries
  THEN [a \in Addresses |-> IF e[a] # None /\ Stale(e[a], t) THEN None ELSE e[a]]
  ELSE e

\* The critical section of Middleware, and its decision.
Count(r) ==
  LET a       == address[r]
      counted == Counted(entries[a], time[r])
  IN /\ pc[r] = "timed"
     /\ entries' = Swept([entries EXCEPT ![a] = counted], time[r])
     /\ kept' = [kept EXCEPT ![a] = Counted(kept[a], time[r])]
     /\ pc' = [pc EXCEPT ![r] = IF Allows(counted) THEN "allowed" ELSE "rejected"]
     /\ UNCHANGED <<address, time, now>>

Tick ==
  /\ now < MaxTime
  /\ \A r \in Requests : pc[r] = "timed" => now - time[r] < MaxStall
  /\ now' = now + 1
  /\ UNCHANGED <<entries, kept, pc, address, time>>

Next ==
  \/ \E r \in Requests : Count(r) \/ \E a \in Addresses : ReadClock(r, a)
  \/ Tick

Spec == Init /\ [][Next]_vars

----------------------------------------------------------------------------
(* Properties.                                                             *)

\* The times that a request still waiting has read, or one to come can read.
TimesAhead == {now} \cup {time[r] : r \in {q \in Requests : pc[q] = "timed"}}

Allowed(a, from, to) ==
  {r \in Requests : pc[r] = "allowed" /\ address[r] = a /\ time[r] \in from..to}

\* Any stretch of one minute meets at most two windows of an address, and the
\* request that opened the first lies before it: less than twice the limit.  When
\* requests wait for the lock it can meet three windows, but then the requests
\* that opened the first and the last lie outside it.
BurstBound ==
  \A a \in Addresses, t \in 0..now :
    Cardinality(Allowed(a, t, t + Window - 1))
      <= IF MaxStall = 0 THEN 2 * Limit - 1 ELSE 3 * Limit - 2

\* A request is rejected only when Limit requests of its address were allowed
\* within a minute of it: no address is locked out by its own rejected
\* requests, and Retry-After: 60 is true for the only client of an address.
RejectedForCause ==
  \A r \in Requests :
    pc[r] = "rejected" =>
      Cardinality(Allowed(address[r], time[r] - (Window + MaxStall) + 1,
                          time[r] + MaxStall)) >= Limit

\* Deleting entries when more than MaxEntries are held never changes what a
\* request of that address is told: a deleted window is over for every time
\* that a request still waiting, or to come, has read.
DeletionInvisible ==
  \A a \in Addresses, t \in TimesAhead :
    Counted(entries[a], t) = Counted(kept[a], t)

----------------------------------------------------------------------------
(* The inductive invariant of RateLimiterProofs.                           *)

\* Requests wait at most MaxStall; an entry is the one that would have been
\* kept, or was deleted when its window was over for every time ahead.
LimiterInv ==
  /\ TypeOK
  /\ \A r \in Requests : pc[r] = "timed" =>
       address[r] \in Addresses /\ time[r] <= now /\ now <= time[r] + MaxStall
  /\ \A a \in Addresses :
       \/ entries[a] = kept[a]
       \/ /\ entries[a] = None
          /\ kept[a] # None
          /\ \A t \in TimesAhead : t - kept[a].window >= Window
=============================================================================
