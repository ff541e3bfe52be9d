--------------------------- MODULE ClientRegistry ---------------------------
(***************************************************************************)
(* What the store of OAuth clients promises to the requests that look a    *)
(* client up (clientStore.get) and to the clients that register (README.md *)
(* on MCP_OAUTH_DATA_FILE: persistence of the registered clients): each    *)
(* registration happens at one moment, for readers, for other              *)
(* registrations and for the next process alike.  There is no lock, no     *)
(* temporary file and no moment between the memory and the file; the       *)
(* process may stop at any time.                                           *)
(***************************************************************************)
CONSTANT Registrations

VARIABLES
  serving,  \* the process has loaded its store
  known,    \* clients that requests find
  lasting,  \* clients that the next process will find
  fate      \* registration -> none, kept, told, refused or lost

vars == <<serving, known, lasting, fate>>

Init ==
  /\ serving = TRUE
  /\ known = {}
  /\ lasting = {}
  /\ fate = [r \in Registrations |-> "none"]

\* All that is known lasts from now on, clients refused before included.
Register(r) ==
  /\ serving
  /\ fate[r] = "none"
  /\ known' = known \cup {r}
  /\ lasting' = known'
  /\ fate' = [fate EXCEPT ![r] = "kept"]
  /\ UNCHANGED serving

\* A client that could not be stored is known all the same, but does not last.
Refuse(r) ==
  /\ serving
  /\ fate[r] = "none"
  /\ known' = known \cup {r}
  /\ fate' = [fate EXCEPT ![r] = "refused"]
  /\ UNCHANGED <<serving, lasting>>

\* The client is told its name.
Tell(r) ==
  /\ fate[r] = "kept"
  /\ fate' = [fate EXCEPT ![r] = "told"]
  /\ UNCHANGED <<serving, known, lasting>>

\* Some of those who wait for an answer never get one.
Stop ==
  /\ serving
  /\ serving' = FALSE
  /\ known' = {}
  /\ \E late \in SUBSET {r \in Registrations : fate[r] = "none"} :
       fate' = [r \in Registrations |->
                  IF r \in late \/ fate[r] = "kept" THEN "lost" ELSE fate[r]]
  /\ UNCHANGED lasting

Start ==
  /\ ~serving
  /\ serving' = TRUE
  /\ known' = lasting
  /\ UNCHANGED <<lasting, fate>>

Next ==
  \/ \E r \in Registrations : Register(r) \/ Refuse(r) \/ Tell(r)
  \/ Stop
  \/ Start

Spec == Init /\ [][Next]_vars
=============================================================================
