------------------------- MODULE ClientStoreProofs -------------------------
(* Proofs about the OAuth client store, for any number of registrations    *)
(* and of process stops.                                                   *)
EXTENDS ClientStore, TLAPS

LEMMA InitInv == Init => StoreInv
BY NoneAssumption DEF Init, StoreInv, TypeOK, InPut, Documents, Absent

\* The steps of one put, which hold or take the lock.
LEMMA PutInv ==
  ASSUME StoreInv, NEW r \in Registrations, Insert(r) \/ Put(r)
  PROVE  StoreInv'
<1> USE NoneAssumption DEF StoreInv, TypeOK, InPut, Documents, Absent
<1>1. CASE Insert(r)
  BY <1>1 DEF Insert, CanLock, disk
<1>2. CASE Encode(r)
  BY <1>2 DEF Encode, Snapshot, disk
<1>3. CASE OpenTmp(r)
  BY <1>3 DEF OpenTmp
<1>4. CASE WriteTmp(r)
  BY <1>4 DEF WriteTmp
<1>5. CASE Rename(r)
  BY <1>5 DEF Rename
<1>6. CASE Fail(r)
  BY <1>6 DEF Fail, AfterError, HolderAfterError, disk
<1>7. CASE Answer(r)
  BY <1>7 DEF Answer, disk
<1>8. QED
  BY <1>1, <1>2, <1>3, <1>4, <1>5, <1>6, <1>7 DEF Put

LEMMA StepInv == StoreInv /\ [Next]_vars => StoreInv'
<1> SUFFICES ASSUME StoreInv, [Next]_vars PROVE StoreInv'
  OBVIOUS
<1>1. ASSUME NEW r \in Registrations, Insert(r) \/ Put(r) PROVE StoreInv'
  BY <1>1, PutInv
<1>2. CASE Stop
  <2> USE <1>2 DEF Stop, StoreInv, TypeOK, InPut, Documents, disk
  <2>1. \A r \in Registrations :
          pc'[r] = IF pc[r] \in InPut \cup {"stored"} THEN "dropped" ELSE pc[r]
    OBVIOUS
  <2>2. TypeOK'
    <3>1. pc' \in [Registrations ->
             {"idle", "stored", "created", "failed", "dropped"} \cup InPut]
      OBVIOUS
    <3>0. running' \in BOOLEAN
      BY Zenon
    <3>2. clients' \in SUBSET Registrations
          /\ holder' \in Registrations \cup {None} /\ stops' \in Nat
      OBVIOUS
    <3>3. data' = data /\ file' = file /\ tmp' = tmp
      OBVIOUS
    <3>4. QED
      BY <3>0, <3>1, <3>2, <3>3
  <2>3. \A r \in Registrations :
          pc'[r] \notin InPut /\ (pc'[r] \in {"stored", "created"} => pc[r] = "created")
    BY <2>1
  <2>4. QED
    BY <2>2, <2>3
<1>3. CASE Start
  BY <1>3 DEF Start, StoreInv, TypeOK, InPut, Documents, disk
<1>4. CASE UNCHANGED vars
  BY <1>4 DEF vars, StoreInv, TypeOK, InPut, Documents, disk
<1>5. QED
  BY <1>1, <1>2, <1>3, <1>4 DEF Next

\* The inductive invariant: type correctness, the lock around put, and the
\* relation between the map, the encoded documents and the two files.
THEOREM StoreInvariant == Spec => []StoreInv
<1>1. QED
  BY InitInv, StepInv, PTL DEF Spec

\* clientStore.put, registerClient: a client that was answered 201 is in the
\* file and in the memory of every process that serves.
THEOREM ClientsKept == Spec => []CreatedClientsKept
<1>1. StoreInv => CreatedClientsKept
  BY DEF StoreInv, CreatedClientsKept
<1>2. QED
  BY <1>1, StoreInvariant, PTL

\* loadClientStore: no crash or I/O error leaves a file that does not decode.
THEOREM FileLoads == Spec => []FileAlwaysLoads
<1>1. StoreInv => FileAlwaysLoads
  BY DEF StoreInv, FileAlwaysLoads
<1>2. QED
  BY <1>1, StoreInvariant, PTL

\* clientStore.put: overlapping registrations never lose one another.
THEOREM ClientsNeverLost == Spec => FileNeverLosesClients
<1>1. StoreInv /\ [Next]_vars => [file.clients \subseteq file'.clients]_vars
  <2> SUFFICES ASSUME StoreInv, [Next]_vars
               PROVE  file.clients \subseteq file'.clients
    OBVIOUS
  <2>1. ASSUME NEW r \in Registrations, Rename(r)
        PROVE  file.clients \subseteq file'.clients
    BY <2>1 DEF Rename, StoreInv, TypeOK, InPut
  <2>2. ASSUME NEW r \in Registrations, Insert(r) \/ Put(r), ~Rename(r)
        PROVE  file' = file
    BY <2>2 DEF Insert, Put, Encode, OpenTmp, WriteTmp, Fail, Answer, disk
  <2>3. CASE Stop \/ Start \/ UNCHANGED vars
    BY <2>3 DEF Stop, Start, vars, disk
  <2>4. QED
    BY <2>1, <2>2, <2>3 DEF Next
<1>2. QED
  BY <1>1, StoreInvariant, PTL DEF Spec, FileNeverLosesClients

----------------------------------------------------------------------------
(* The refinement of ClientRegistry.                                       *)

\* What the states of a registration stand for.
LEMMA Fates ==
  /\ FateAt("stored") = "kept" /\ FateAt("created") = "told"
  /\ FateAt("failed") = "refused" /\ FateAt("dropped") = "lost"
  /\ \A p \in {"idle"} \cup InPut : FateAt(p) = "none"
BY DEF FateAt, InPut

LEMMA FateBack ==
  ASSUME TypeOK, NEW r \in Registrations
  PROVE  /\ Fate[r] = "none" <=> pc[r] \in {"idle"} \cup InPut
         /\ Fate[r] = "kept" <=> pc[r] = "stored"
BY DEF TypeOK, Fate, FateAt, InPut

\* A step of one registration.
LEMMA FateStep ==
  ASSUME TypeOK, NEW r \in Registrations, NEW p, pc' = [pc EXCEPT ![r] = p]
  PROVE  Fate' = [Fate EXCEPT ![r] = FateAt(p)]
BY DEF TypeOK, Fate

LEMMA RegistryInit == Init => Promise!Init
BY Fates DEF Init, Promise!Init, Visible, Fate, Absent

LEMMA RegistryInsert ==
  ASSUME StoreInv, StoreInv', NEW r \in Registrations, Insert(r)
  PROVE  UNCHANGED Promise!vars
<1>1. /\ pc[r] = "idle" /\ holder = None /\ holder' = r
      /\ clients' = clients \cup {r} /\ pc' = [pc EXCEPT ![r] = "inserted"]
      /\ UNCHANGED <<running, file>>
  BY DEF Insert, CanLock, disk
<1>2. Visible' = Visible
  <2>1. r \notin clients /\ None \notin clients
    BY <1>1, NoneAssumption DEF StoreInv, TypeOK
  <2>2. QED
    BY <1>1, <2>1 DEF Visible
<1>3. Fate' = Fate
  BY <1>1, FateStep, Fates DEF StoreInv, InPut, Fate
<1>4. QED
  BY <1>1, <1>2, <1>3 DEF Promise!vars

LEMMA RegistryWork ==
  ASSUME StoreInv, StoreInv', NEW r \in Registrations, Encode(r) \/ OpenTmp(r) \/ WriteTmp(r)
  PROVE  UNCHANGED Promise!vars
<1>1. PICK p \in {"encoded", "opened", "written"} : pc' = [pc EXCEPT ![r] = p]
  BY DEF Encode, OpenTmp, WriteTmp
<1>2. pc[r] \in InPut /\ UNCHANGED <<running, clients, holder, file>>
  BY DEF Encode, OpenTmp, WriteTmp, InPut, disk
<1>3. Fate' = Fate
  BY <1>1, <1>2, FateStep, Fates DEF StoreInv, InPut, Fate
<1>4. QED
  BY <1>2, <1>3 DEF Promise!vars, Visible

\* The rename stores what was in the map, and lets go of the lock.
LEMMA RegistryRename ==
  ASSUME StoreInv, StoreInv', NEW r \in Registrations, Rename(r)
  PROVE  Promise!Register(r)
<1>1. /\ pc[r] = "written" /\ pc' = [pc EXCEPT ![r] = "stored"]
      /\ file' = tmp /\ holder' = None /\ UNCHANGED <<running, clients>>
  BY DEF Rename
<1>2. running /\ holder = r /\ r \in clients /\ tmp.clients = clients
  BY <1>1 DEF StoreInv, InPut
<1>3. Visible = clients \ {r} /\ Visible' = clients
  BY <1>1, <1>2, NoneAssumption DEF Visible, StoreInv, TypeOK
<1>4. Fate' = [Fate EXCEPT ![r] = "kept"] /\ Fate[r] = "none"
  <2>1. Fate' = [Fate EXCEPT ![r] = FateAt("stored")]
    BY <1>1, FateStep DEF StoreInv
  <2>2. Fate[r] = "none"
    BY <1>1, FateBack DEF StoreInv, InPut
  <2>3. QED
    BY <2>1, <2>2, Fates
<1>5. QED
  BY <1>1, <1>2, <1>3, <1>4 DEF Promise!Register

LEMMA RegistryFail ==
  ASSUME StoreInv, StoreInv', NEW r \in Registrations, Fail(r)
  PROVE  Promise!Refuse(r)
<1>1. /\ pc[r] \in InPut /\ pc' = [pc EXCEPT ![r] = "failed"]
      /\ UNCHANGED <<running, clients, file>>
  BY DEF Fail, AfterError, disk
<1>2. running /\ holder = r /\ r \in clients
  BY <1>1 DEF StoreInv
<1>3. holder' = None
  <2>1. pc'[r] = "failed"
    BY <1>1 DEF StoreInv, TypeOK
  <2>2. QED
    BY <2>1 DEF Fail, HolderAfterError
<1>4. Visible = clients \ {r} /\ Visible' = clients
  BY <1>1, <1>2, <1>3, NoneAssumption DEF Visible, StoreInv, TypeOK
<1>5. Fate' = [Fate EXCEPT ![r] = "refused"] /\ Fate[r] = "none"
  <2>1. Fate' = [Fate EXCEPT ![r] = FateAt("failed")]
    BY <1>1, FateStep DEF StoreInv
  <2>2. Fate[r] = "none"
    BY <1>1, FateBack DEF StoreInv, InPut
  <2>3. QED
    BY <2>1, <2>2, Fates
<1>6. QED
  BY <1>1, <1>2, <1>4, <1>5 DEF Promise!Refuse

LEMMA RegistryAnswer ==
  ASSUME StoreInv, StoreInv', NEW r \in Registrations, Answer(r)
  PROVE  Promise!Tell(r)
<1>1. /\ pc[r] = "stored" /\ pc' = [pc EXCEPT ![r] = "created"]
      /\ UNCHANGED <<running, clients, holder, file>>
  BY DEF Answer, disk
<1>2. Fate' = [Fate EXCEPT ![r] = "told"] /\ Fate[r] = "kept"
  <2>1. Fate' = [Fate EXCEPT ![r] = FateAt("created")]
    BY <1>1, FateStep DEF StoreInv
  <2>2. Fate[r] = "kept"
    BY <1>1, FateBack DEF StoreInv, InPut
  <2>3. QED
    BY <2>1, <2>2, Fates
<1>3. QED
  BY <1>1, <1>2 DEF Promise!Tell, Visible

\* Cut off are the registrations inside put, and those stored and not answered.
LEMMA RegistryStop ==
  ASSUME StoreInv, StoreInv', Stop
  PROVE  Promise!Stop
<1> DEFINE late == {r \in Registrations : pc[r] \in InPut}
<1>1. /\ running /\ running' = FALSE /\ clients' = {}
      /\ pc' = [r \in Registrations |->
                  IF pc[r] \in InPut \cup {"stored"} THEN "dropped" ELSE pc[r]]
      /\ UNCHANGED file
  BY DEF Stop, disk
<1>2. late \in SUBSET {r \in Registrations : Fate[r] = "none"}
  BY FateBack DEF StoreInv
<1>3. \A r \in Registrations :
        Fate'[r] = IF r \in late \/ Fate[r] = "kept" THEN "lost" ELSE Fate[r]
  <2> SUFFICES ASSUME NEW r \in Registrations
               PROVE  Fate'[r] = IF r \in late \/ Fate[r] = "kept" THEN "lost" ELSE Fate[r]
    OBVIOUS
  <2>1. pc'[r] = IF r \in late \/ Fate[r] = "kept" THEN "dropped" ELSE pc[r]
    BY <1>1, FateBack DEF StoreInv
  <2>2. /\ pc'[r] = pc[r] => Fate'[r] = Fate[r]
        /\ pc'[r] = "dropped" => Fate'[r] = "lost"
    BY Fates DEF Fate
  <2>3. r \in late \/ Fate[r] = "kept" => pc[r] # "dropped"
    BY FateBack DEF StoreInv, InPut
  <2>4. QED
    BY <2>1, <2>2, <2>3
<1>4. Fate' = [r \in Registrations |->
                 IF r \in late \/ Fate[r] = "kept" THEN "lost" ELSE Fate[r]]
  <2>1. Fate' = [r \in Registrations |-> Fate'[r]]
    BY DEF Fate
  <2>2. QED
    BY <1>3, <2>1
<1>5. Visible' = {}
  BY <1>1 DEF Visible
<1>6. QED
  BY <1>1, <1>2, <1>4, <1>5 DEF Promise!Stop

LEMMA RegistryStart ==
  ASSUME StoreInv, StoreInv', Start
  PROVE  Promise!Start
<1>1. /\ ~running /\ running' = TRUE /\ clients' = file.clients
      /\ UNCHANGED <<holder, pc, file>>
  BY DEF Start, disk
<1>2. holder \notin file.clients
  <2>1. holder = None
    BY <1>1 DEF StoreInv, TypeOK
  <2>2. QED
    BY <2>1, NoneAssumption DEF StoreInv, TypeOK, Documents
<1>3. Visible' = file.clients /\ Fate' = Fate
  BY <1>1, <1>2 DEF Visible, Fate
<1>4. QED
  BY <1>1, <1>3 DEF Promise!Start

LEMMA RegistryStep ==
  StoreInv /\ StoreInv' /\ [Next]_vars => [Promise!Next]_Promise!vars
<1> SUFFICES ASSUME StoreInv, StoreInv', [Next]_vars PROVE [Promise!Next]_Promise!vars
  OBVIOUS
<1>1. ASSUME NEW r \in Registrations, Insert(r) \/ Put(r)
      PROVE  [Promise!Next]_Promise!vars
  BY <1>1, RegistryInsert, RegistryWork, RegistryRename, RegistryFail, RegistryAnswer
     DEF Put, Promise!Next
<1>2. CASE Stop \/ Start
  BY <1>2, RegistryStop, RegistryStart DEF Promise!Next
<1>3. CASE UNCHANGED vars
  BY <1>3 DEF vars, disk, Promise!vars, Visible, Fate
<1>4. QED
  BY <1>1, <1>2, <1>3 DEF Next

\* clientStore.put with its lock, temporary file and rename is one step of
\* ClientRegistry, wherever it fails or is cut off.
THEOREM Registers == Spec => RegistersAtOnce
<1>1. QED
  BY RegistryInit, RegistryStep, StoreInvariant, PTL DEF Spec, RegistersAtOnce, Promise!Spec
=============================================================================
