---------------------------- MODULE ClientStore ----------------------------
(***************************************************************************)
(* The store of OAuth clients (internal/authn/oauth.go, clientStore): a    *)
(* map in memory and a JSON file that survives the process.  put inserts   *)
(* into the map and then replaces the file through a temporary one, all    *)
(* under one lock; any of its file operations may fail, and the process    *)
(* may stop between two of them.  A registration is one POST to            *)
(* /oauth/register with its own random client_id, so that clients are      *)
(* named by their registration.                                            *)
(***************************************************************************)
EXTENDS Naturals

CONSTANTS
  Registrations,
  None,
  MaxStops          \* bound of the process stops (model only)

ASSUME NoneAssumption == None \notin Registrations
ASSUME StopsAssumption == MaxStops \in Nat

VARIABLES
  running,  \* the process has loaded its store and serves
  clients,  \* clientStore.clients, in memory
  holder,   \* who holds clientStore.mu for writing, or None
  pc,       \* registration -> where its goroutine stands in put
  data,     \* registration -> the clients in the document it encoded
  file,     \* the file at path
  tmp,      \* the file at path + ".tmp"
  stops

disk == <<file, tmp>>
vars == <<running, clients, holder, pc, data, file, tmp, stops>>

\* A file holds a document with a set of clients, complete or cut off.  An
\* absent file loads like an empty document.
Documents == [clients: SUBSET Registrations, whole: BOOLEAN]
Absent    == [clients |-> {}, whole |-> TRUE]

InPut == {"inserted", "encoded", "opened", "written"}

TypeOK ==
  /\ running \in BOOLEAN
  /\ clients \in SUBSET Registrations
  /\ holder \in Registrations \cup {None}
  /\ pc \in [Registrations -> {"idle", "stored", "created", "failed", "dropped"} \cup InPut]
  /\ data \in [Registrations -> SUBSET Registrations]
  /\ file \in Documents
  /\ tmp \in Documents
  /\ stops \in Nat

Init ==
  /\ running = TRUE
  /\ clients = {}
  /\ holder = None
  /\ pc = [r \in Registrations |-> "idle"]
  /\ data = [r \in Registrations |-> {}]
  /\ file = Absent
  /\ tmp = Absent
  /\ stops = 0

----------------------------------------------------------------------------
(* put, step by step; the lock is held from Insert to the end.             *)

\* Mutant: the lock only guards the map, not the file operations.
CanLock_MapOnly == TRUE

CanLock == holder = None

\* s.mu.Lock and the insertion.
Insert(r) ==
  /\ running
  /\ pc[r] = "idle"
  /\ CanLock
  /\ holder' = r
  /\ clients' = clients \cup {r}
  /\ pc' = [pc EXCEPT ![r] = "inserted"]
  /\ UNCHANGED <<running, data, disk, stops>>

\* Mutant: the document is encoded without the new client.
Snapshot_Before(r) == clients \ {r}

\* The map as MarshalIndent sees it.
Snapshot(r) == clients

\* MkdirAll succeeds; MarshalIndent.
Encode(r) ==
  /\ pc[r] = "inserted"
  /\ data' = [data EXCEPT ![r] = Snapshot(r)]
  /\ pc' = [pc EXCEPT ![r] = "encoded"]
  /\ UNCHANGED <<running, clients, holder, disk, stops>>

\* os.WriteFile creates or truncates the temporary file ...
OpenTmp(r) ==
  /\ pc[r] = "encoded"
  /\ tmp' = [clients |-> {}, whole |-> FALSE]
  /\ pc' = [pc EXCEPT ![r] = "opened"]
  /\ UNCHANGED <<running, clients, holder, data, file, stops>>

\* ... and writes all of the document.
WriteTmp(r) ==
  /\ pc[r] = "opened"
  /\ tmp' = [clients |-> data[r], whole |-> TRUE]
  /\ pc' = [pc EXCEPT ![r] = "written"]
  /\ UNCHANGED <<running, clients, holder, data, file, stops>>

\* os.Rename replaces the file in one step; put returns and unlocks.
Rename(r) ==
  /\ pc[r] = "written"
  /\ file' = tmp
  /\ tmp' = Absent
  /\ holder' = None
  /\ pc' = [pc EXCEPT ![r] = "stored"]
  /\ UNCHANGED <<running, clients, data, stops>>

\* registerClient answers 201 with the client_id.
Answer(r) ==
  /\ pc[r] = "stored"
  /\ pc' = [pc EXCEPT ![r] = "created"]
  /\ UNCHANGED <<running, clients, holder, data, disk, stops>>

\* Mutant: the error of WriteFile is ignored.
AfterError_Ignored(p) == IF p = "opened" THEN "written" ELSE "failed"

AfterError(p) == "failed"

\* Mutant: an early return without the deferred unlock.
HolderAfterError_NoDefer == holder

HolderAfterError == None

\* MkdirAll, WriteFile (before or after the truncation) or Rename fails: put
\* returns the error and unlocks, and the answer is 500.  The client stays in
\* the map.
Fail(r) ==
  /\ pc[r] \in InPut
  /\ pc' = [pc EXCEPT ![r] = AfterError(pc[r])]
  /\ holder' = IF pc'[r] = "failed" THEN HolderAfterError ELSE holder
  /\ UNCHANGED <<running, clients, data, disk, stops>>

----------------------------------------------------------------------------
(* The process.                                                            *)

Stop ==
  /\ running
  /\ stops < MaxStops
  /\ stops' = stops + 1
  /\ running' = FALSE
  /\ clients' = {}
  /\ holder' = None
  /\ pc' = [r \in Registrations |->
              IF pc[r] \in InPut \cup {"stored"} THEN "dropped" ELSE pc[r]]
  /\ UNCHANGED <<data, disk>>

\* loadClientStore: the process starts only if the document decodes.
Start ==
  /\ ~running
  /\ file.whole
  /\ clients' = file.clients
  /\ running' = TRUE
  /\ UNCHANGED <<holder, pc, data, disk, stops>>

Put(r) ==
  Encode(r) \/ OpenTmp(r) \/ WriteTmp(r) \/ Rename(r) \/ Fail(r) \/ Answer(r)

Next ==
  \/ \E r \in Registrations : Insert(r) \/ Put(r)
  \/ Stop
  \/ Start

Spec == Init /\ [][Next]_vars

\* File operations return, and the process is started again.
FairSpec ==
  Spec /\ WF_vars(Start) /\ \A r \in Registrations :
            WF_vars(Put(r)) /\ SF_vars(Insert(r))

----------------------------------------------------------------------------
(* The abstract specification.                                             *)

\* Clients that get finds: it waits for the lock, so that nobody sees the one
\* whose put is under way.
Visible == clients \ {holder}

\* What became of a registration, as its client and the others can tell.
FateAt(p) ==
  CASE p = "stored"  -> "kept"
    [] p = "created" -> "told"
    [] p = "failed"  -> "refused"
    [] p = "dropped" -> "lost"
    [] OTHER -> "none"

Fate == [r \in Registrations |-> FateAt(pc[r])]

Promise == INSTANCE ClientRegistry WITH
  serving <- running, known <- Visible, lasting <- file.clients, fate <- Fate

\* put happens at one moment, for whoever calls get, for other registrations
\* and for the next process: all its steps before the rename are invisible, and
\* with the rename (or the error) the client is known, and lasts with all that
\* were known, even those whose own put had failed.
RegistersAtOnce == Promise!Spec

----------------------------------------------------------------------------
(* Properties.                                                             *)

\* A client that was told its client_id is in the file, and in the memory of
\* every process that serves: it can authorize and refresh after any restart.
CreatedClientsKept ==
  \A r \in Registrations :
    pc[r] = "created" => r \in file.clients /\ (running => r \in clients)

\* Whenever the process stops, the file it left decodes: the next one starts.
FileAlwaysLoads == file.whole

\* No registration writes over another: the file only gains clients, however
\* puts overlap, fail or are cut off.
FileNeverLosesClients == [][file.clients \subseteq file'.clients]_vars

\* A registration is answered, one way or the other, unless the process stops
\* for good or during it: no error path keeps the lock.
RegistrationsEnd ==
  \A r \in Registrations : pc[r] = "idle" ~> pc[r] \in {"created", "failed", "dropped"}

----------------------------------------------------------------------------
(* The inductive invariant of ClientStoreProofs.                           *)

\* Who is inside put, and nobody else, holds the lock; what it encoded is the
\* map; the temporary file is what it wrote; the map is never behind the file;
\* nobody knows a client that has not registered yet.
StoreInv ==
  /\ TypeOK
  /\ \A r \in Registrations : pc[r] \in InPut => running /\ holder = r /\ r \in clients
  /\ holder # None => pc[holder] \in InPut
  /\ \A r \in Registrations :
       /\ pc[r] \in {"encoded", "opened", "written"} => data[r] = clients
       /\ pc[r] = "written" => tmp = [clients |-> clients, whole |-> TRUE]
       /\ pc[r] \in {"stored", "created"} => r \in file.clients
  /\ running => file.clients \subseteq clients
  /\ \A r \in Registrations : pc[r] = "idle" => r \notin clients \cup file.clients
  /\ file.whole
=============================================================================
