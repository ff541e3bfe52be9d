---------------------------- MODULE OwnerWrites ----------------------------
(***************************************************************************)
(* Calls of one write tool whose Core makes the preview: the checks of the *)
(* write path (executeMutationTool, addWritePreparationTool in types.go;   *)
(* prepareWriteInvocation in write_guard.go), the replay store, the        *)
(* handler (OwnerTools) and the Core.                                      *)
(*                                                                         *)
(* The calls are of one user with one key, as a client retries them;       *)
(* between two of them the user's rights change, the server restarts, a    *)
(* record gets another name.  WriteReplay models the store itself, with    *)
(* many keys, expiry and eviction; here an entry is one call's.            *)
(***************************************************************************)
EXTENDS OwnerTools, Naturals

CONSTANTS
  Calls,
  Tried,        \* tools that a call may be of
  None,
  MaxRestarts,  \* bounds (model only)
  MaxRenames

VARIABLES
  tool,     \* the tool that is called
  pc,       \* call -> idle, waiting, running, sent or done
  input,    \* call -> its input
  rights,   \* call -> rights of its user: admin, financial (of the service)
  holder,   \* replay store: subject -> call whose entry it is, or None
  behind,   \* call -> the call whose entry answers it, or None
  result,   \* call -> what its handler returned
  answer,   \* call -> what its client got
  receipt,  \* Core: input of the change written with the key, or None
  known,    \* the name in the inputs is the record's
  restarts, renames

Rights == {"admin", "financial"}
Replies == [kind : {"error", "needs_input", "preview", "receipt"}, prices : BOOLEAN]

vars == <<tool, pc, input, rights, holder, behind, result, answer, receipt, known,
          restarts, renames>>

\* An input: confirmations, dry_run or the prepare_ tool, a key (which nothing
\* but a confirmed call looks at), a price, and the record's name, with its
\* identity or without.
Inputs(t) ==
  {i \in [flags : SUBSET (t.own \cup t.inner), mode : {"run", "dry", "prepare"}, key : BOOLEAN,
          price : IF t.priced THEN BOOLEAN ELSE {FALSE},
          ref : IF t.named THEN {"name", "both"} ELSE {"id"}] :
     i.key \/ (i.mode = "run" /\ i.flags # {})}

ASSUME OwnerAssumption ==
  /\ Tried \subseteq OwnerTools
  /\ None \notin Calls \cup Replies
  /\ \A t \in Tried : None \notin Inputs(t)
  /\ MaxRestarts \in Nat /\ MaxRenames \in Nat

----------------------------------------------------------------------------
(* The lists of the write path.                                            *)

MaintenanceFamilies == {"warehouse.maintenance_orders", "warehouse.defects"}

\* types.go asks for an administrator before the replay store is looked at.
\* Mutant: tasks are missing in it.
AdminFirst_NoTasks(t) ==
  \/ t.family \in {"warehouse.categories", "warehouse.subcategories", "warehouse.third_categories",
       "warehouse.product_relations", "warehouse.maintenance_orders", "warehouse.defects",
       "warehouse.inventory_counts", "procurement.categories", "procurement.suppliers",
       "procurement.products", "procurement.offers", "procurement.orders"}
  \/ t.family \in {"rental.staffing", "rental.external_equipment", "rental.job_external_equipment",
       "rental.job_positions", "rental.requirements", "rental.jobs", "rental.customers",
       "rental.venues"}
  \/ t.family = "warehouse.products" /\ t.op = "link_relation"
  \/ t.family = "procurement.requisitions" /\ t.op \in {"order", "decide"}

AdminFirst(t) ==
  \/ t.family \in {"warehouse.categories", "warehouse.subcategories", "warehouse.third_categories",
       "warehouse.product_relations", "warehouse.maintenance_orders", "warehouse.defects",
       "warehouse.tasks", "warehouse.inventory_counts", "procurement.categories",
       "procurement.suppliers", "procurement.products", "procurement.offers",
       "procurement.orders"}
  \/ t.family \in {"rental.staffing", "rental.external_equipment", "rental.job_external_equipment",
       "rental.job_positions", "rental.requirements", "rental.jobs", "rental.customers",
       "rental.venues"}
  \/ t.family = "warehouse.products" /\ t.op = "link_relation"
  \/ t.family = "procurement.requisitions" /\ t.op \in {"order", "decide"}

\* procurementFinancialWriteTool, rentalFinancialWriteTool.
FinancialFirst(t) ==
  \/ t.family \in {"procurement.offers", "procurement.requisitions", "procurement.orders",
       "rental.job_positions", "rental.external_equipment", "rental.job_external_equipment"}
  \/ t.family = "rental.jobs" /\ t.op = "assign_device"

\* Rights asked for before the handler; the prepare_ tools ask for fewer.
EarlyRights(t, i) ==
  (IF FinancialFirst(t) \/ (t.family = "rental.jobs" /\ i.price) THEN {"financial"} ELSE {})
  \cup (IF i.mode # "prepare" /\ AdminFirst(t) THEN {"admin"} ELSE {})
  \cup (IF /\ i.mode # "prepare" /\ i.price
           /\ t.family \in MaintenanceFamilies
        THEN {"financial"} ELSE {})

LateRights(t, i) == t.late \cup (IF i.price THEN {"financial"} ELSE {})

\* A repeated call runs the handler again instead of getting the stored answer.
RunsAgain(t) ==
  \/ t.family \in {"planner.plans", "planner.tasks", "rental.staffing", "rental.external_equipment",
       "rental.job_external_equipment", "rental.jobs", "rental.job_positions",
       "rental.requirements", "warehouse.case_workflows", "warehouse.cases",
       "warehouse.case_contents", "warehouse.case_templates"}
  \/ t.family = "warehouse.products" /\ t.op = "bulk_create"
  \/ t.family \in {"procurement.categories", "procurement.suppliers", "procurement.products",
       "procurement.offers", "procurement.orders", "procurement.requisitions"}

\* hasDurableWarehouseRetry: a failed call gives its key back.
\* Mutant: maintenance plans are missing in it.
GivesKeyBack_NoPlans(t) ==
  \/ RunsAgain(t)
  \/ t.family = "warehouse.products" /\ t.op = "link_relation"
  \/ t.family \in {"rental.customers", "rental.venues", "warehouse.product_relations",
       "warehouse.categories", "warehouse.subcategories", "warehouse.third_categories",
       "warehouse.inventory_counts", "warehouse.tasks", "warehouse.maintenance_orders",
       "warehouse.defects"}

GivesKeyBack(t) ==
  \/ RunsAgain(t)
  \/ t.family = "warehouse.products" /\ t.op = "link_relation"
  \/ t.family \in {"rental.customers", "rental.venues", "warehouse.product_relations",
       "warehouse.categories", "warehouse.subcategories", "warehouse.third_categories",
       "warehouse.inventory_counts", "warehouse.tasks", "warehouse.maintenance_plans",
       "warehouse.maintenance_orders", "warehouse.defects"}

\* Mutant: one entry for a caller with and one without financial rights.
Subject_Shared(t, r) == TRUE

\* The financial right is a part of the key of maintenance calls.
Subject(t, r) == t.family \in MaintenanceFamilies => "financial" \in r

----------------------------------------------------------------------------
(* What an input asks for.                                                 *)

\* Mutant: embedded structs are not looked at.
Confirmed_TopLevel(t, i) == i.flags \cap t.own # {}

\* mutationConfirmed: some field whose name starts with Confirm is true.
Confirmed(t, i) == i.flags \cap (t.own \cup t.inner) # {}

\* The call needs a key and an entry; dry_run clears every confirmation.
Guarded(t, i) == i.mode = "run" /\ Confirmed(t, i)

\* Mutant: dry_run leaves the fields that decide as they are.
AsksToWrite_DryRun(t, i) == i.mode # "prepare" /\ i.flags \cap t.decides # {}

\* The handler sends preview = false.
AsksToWrite(t, i) == i.mode = "run" /\ i.flags \cap t.decides # {}

----------------------------------------------------------------------------
Init ==
  /\ tool \in Tried
  /\ pc = [c \in Calls |-> "idle"]
  /\ input = [c \in Calls |-> None]
  /\ rights = [c \in Calls |-> {}]
  /\ holder = [s \in BOOLEAN |-> None]
  /\ behind = [c \in Calls |-> None]
  /\ result = [c \in Calls |-> None]
  /\ answer = [c \in Calls |-> None]
  /\ receipt = None
  /\ known = TRUE
  /\ restarts = 0
  /\ renames = 0

Reply(kind, prices) == [kind |-> kind, prices |-> prices]
Error == Reply("error", FALSE)

\* External: what the Core returns has prices, for it does not leave any out.
CommercialFamilies ==
  {"rental.jobs", "rental.job_positions", "rental.external_equipment",
   "rental.job_external_equipment", "procurement.offers", "procurement.orders",
   "procurement.requisitions"} \cup MaintenanceFamilies
Commercial(i) == tool.family \in CommercialFamilies \/ i.price

Answer(c, reply) ==
  /\ answer' = [answer EXCEPT ![c] = reply]
  /\ pc' = [pc EXCEPT ![c] = "done"]

Begins(c, i, r) ==
  /\ pc[c] = "idle"
  /\ input' = [input EXCEPT ![c] = i]
  /\ rights' = [rights EXCEPT ![c] = r]
  /\ UNCHANGED <<tool, result, receipt, known, restarts, renames>>

\* A right is missing, or a confirmed call has no key.
Reject(c, i, r) ==
  /\ Begins(c, i, r)
  /\ \/ ~(EarlyRights(tool, i) \subseteq r)
     \/ Guarded(tool, i) /\ ~i.key
  /\ Answer(c, Error)
  /\ UNCHANGED <<holder, behind>>

\* Nothing is confirmed: the handler runs without the replay store.
Preview(c, i, r) ==
  /\ Begins(c, i, r)
  /\ EarlyRights(tool, i) \subseteq r
  /\ ~Guarded(tool, i)
  /\ pc' = [pc EXCEPT ![c] = "running"]
  /\ UNCHANGED <<holder, behind, answer>>

\* begin: the key is free, or an entry of the same input answers, or refuses.
Execute(c, i, r) ==
  LET s == Subject(tool, r) IN
  /\ Begins(c, i, r)
  /\ EarlyRights(tool, i) \subseteq r
  /\ Guarded(tool, i) /\ i.key
  /\ \/ /\ holder[s] = None
        /\ holder' = [holder EXCEPT ![s] = c]
        /\ pc' = [pc EXCEPT ![c] = "running"]
        /\ UNCHANGED <<behind, answer>>
     \/ /\ holder[s] # None /\ input[holder[s]] = i
        /\ behind' = [behind EXCEPT ![c] = holder[s]]
        /\ pc' = [pc EXCEPT ![c] = "waiting"]
        /\ UNCHANGED <<holder, answer>>
     \/ /\ holder[s] # None /\ input[holder[s]] # i
        /\ Answer(c, Error)
        /\ UNCHANGED <<holder, behind>>

\* The entry is complete: its answer, or the handler once more.
Repeat(c) ==
  /\ pc[c] = "waiting"
  /\ result[behind[c]] # None
  /\ IF RunsAgain(tool)
     THEN pc' = [pc EXCEPT ![c] = "running"] /\ UNCHANGED answer
     ELSE Answer(c, result[behind[c]])
  /\ UNCHANGED <<tool, input, rights, holder, behind, result, receipt, known, restarts, renames>>

\* The handler is done: finish, forgetFailed, and the answer.
Return(c, reply) ==
  /\ result' = [result EXCEPT ![c] = reply]
  /\ holder' = [s \in BOOLEAN |->
                  IF holder[s] = c /\ reply = Error /\ GivesKeyBack(tool)
                  THEN None ELSE holder[s]]
  /\ Answer(c, reply)

\* Mutant: names are resolved for a confirmed call too.
Unresolved_Always(c) ==
  tool.named /\ ~known

\* A name of a preview is nobody's, or several records'.
Unresolved(c) == tool.named /\ ~known /\ ~AsksToWrite(tool, input[c])

\* The handler before its request: rights, names, identities.
Handle(c) ==
  /\ pc[c] = "running"
  /\ IF ~(LateRights(tool, input[c]) \subseteq rights[c])
     THEN Return(c, Error)
     ELSE IF Unresolved(c) \/ (tool.prepares /\ receipt # None)
     THEN Return(c, Reply("needs_input", FALSE))
     ELSE IF AsksToWrite(tool, input[c]) /\ input[c].ref = "name"
     THEN Return(c, Error)
     ELSE pc' = [pc EXCEPT ![c] = "sent"] /\ UNCHANGED <<result, holder, answer>>
  /\ UNCHANGED <<tool, input, rights, behind, receipt, known, restarts, renames>>

\* External: the Core looks at its receipt first, then writes or refuses; the
\* answer may be lost.  The handler takes out prices, where it does.
Core(c) ==
  LET shown == Commercial(input[c]) /\ (tool.hides => "financial" \in rights[c])
      Returns(kind) == \E reply \in {Reply(kind, shown), Error} : Return(c, reply)
  IN
  /\ pc[c] = "sent"
  /\ \/ ~AsksToWrite(tool, input[c]) /\ Returns("preview") /\ UNCHANGED receipt
     \/ AsksToWrite(tool, input[c]) /\ receipt = input[c] /\ Returns("receipt") /\ UNCHANGED receipt
     \/ AsksToWrite(tool, input[c]) /\ receipt # input[c] /\ Return(c, Error) /\ UNCHANGED receipt
     \/ AsksToWrite(tool, input[c]) /\ receipt = None /\ Returns("receipt") /\ receipt' = input[c]
  /\ UNCHANGED <<tool, input, rights, behind, known, restarts, renames>>

\* The process ends: its calls are not answered, its store is empty.
Restart ==
  /\ restarts < MaxRestarts
  /\ restarts' = restarts + 1
  /\ pc' = [c \in Calls |-> IF pc[c] = "idle" THEN "idle" ELSE "done"]
  /\ holder' = [s \in BOOLEAN |-> None]
  /\ UNCHANGED <<tool, input, rights, behind, result, answer, receipt, known, renames>>

\* A user of the Core gives the record, or another one, a different name.
Rename ==
  /\ tool.named /\ renames < MaxRenames
  /\ renames' = renames + 1
  /\ known' = ~known
  /\ UNCHANGED <<tool, pc, input, rights, holder, behind, result, answer, receipt, restarts>>

Next ==
  \/ \E c \in Calls :
       \/ \E i \in Inputs(tool), r \in SUBSET Rights :
            Reject(c, i, r) \/ Preview(c, i, r) \/ Execute(c, i, r)
       \/ Repeat(c) \/ Handle(c) \/ Core(c)
  \/ Restart \/ Rename

Spec == Init /\ [][Next]_vars

----------------------------------------------------------------------------
(* The abstract specification.                                             *)

\* Families whose stored answers are given without asking for an administrator.
OpenFamilies ==
  {"warehouse.maintenance_plans", "warehouse.manufacturers", "warehouse.brands",
   "warehouse.devices"}

Confirms(t, i) == AsksToWrite(t, i) /\ Guarded(t, i) /\ i.key

Sees(t, i) == LateRights(t, i) \ IF t.family \in OpenFamilies THEN {"admin"} ELSE {}

Promise == INSTANCE KeyedChange WITH Needs <- LateRights, change <- receipt

\* Entries, repeated handlers, stored answers, lost ones and restarts together
\* come to this: one change per key, made as it was confirmed and by who may,
\* and no answer that is untrue or that its caller may not see.
ChangesAsConfirmed == Promise!Spec

----------------------------------------------------------------------------
(* Properties.                                                             *)

\* Every variable keeps its type; the tool never changes.
TypeOK ==
  /\ pc \in [Calls -> {"idle", "waiting", "running", "sent", "done"}]
  /\ input \in [Calls -> Inputs(tool) \cup {None}]
  /\ rights \in [Calls -> SUBSET Rights]
  /\ holder \in [BOOLEAN -> Calls \cup {None}]
  /\ behind \in [Calls -> Calls \cup {None}]
  /\ result \in [Calls -> Replies \cup {None}]
  /\ answer \in [Calls -> Replies \cup {None}]
  /\ receipt \in Inputs(tool) \cup {None}
  /\ known \in BOOLEAN
  /\ restarts \in 0..MaxRestarts
  /\ renames \in 0..MaxRenames

Underway == {"waiting", "running", "sent"}

Asked ==
  \A c \in Calls :
    IF pc[c] = "idle"
    THEN input[c] = None /\ behind[c] = None /\ result[c] = None /\ answer[c] = None
    ELSE input[c] # None

\* An entry is of a confirmed call with a key, of the caller it is kept for.
Owned ==
  \A s \in BOOLEAN :
    holder[s] # None =>
      /\ pc[holder[s]] # "idle"
      /\ Guarded(tool, input[holder[s]]) /\ input[holder[s]].key
      /\ Subject(tool, rights[holder[s]]) = s

\* A call is answered by an entry of the same input and the same caller.
Followed ==
  \A c \in Calls :
    behind[c] # None =>
      /\ pc[behind[c]] # "idle"
      /\ input[c] = input[behind[c]]
      /\ Subject(tool, rights[c]) = Subject(tool, rights[behind[c]])

Passed ==
  \A c \in Calls :
    pc[c] \in Underway =>
      /\ answer[c] = None /\ result[c] = None
      /\ EarlyRights(tool, input[c]) \subseteq rights[c]
      /\ pc[c] = "waiting" => behind[c] # None /\ Guarded(tool, input[c])
      /\ Guarded(tool, input[c]) =>
           input[c].key /\ (behind[c] # None \/ \E s \in BOOLEAN : holder[s] = c)
      /\ pc[c] = "sent" => LateRights(tool, input[c]) \subseteq rights[c]

Returned ==
  \A c \in Calls :
    result[c] # None =>
      /\ result[c] # Error => LateRights(tool, input[c]) \subseteq rights[c]
      /\ result[c].prices => Commercial(input[c]) /\ "financial" \in rights[c]
      /\ AsksToWrite(tool, input[c]) /\ ~tool.prepares => result[c].kind \in {"receipt", "error"}
      /\ result[c].kind = "receipt" => AsksToWrite(tool, input[c]) /\ receipt = input[c]
      /\ result[c].kind = "preview" => ~AsksToWrite(tool, input[c])
      /\ result[c].kind = "error" => result[c] = Error

Received == receipt # None => AsksToWrite(tool, receipt) /\ receipt.key

\* What ties the calls of a key to its entries, their rights and the receipt.
OwnerInv == TypeOK /\ Asked /\ Owned /\ Followed /\ Passed /\ Returned /\ Received

\* A change is asked for, and written, only for a call that the write path let
\* pass as a confirmed one: with a key, under an entry that is its own or that
\* it repeats, and never for dry_run or a prepare_ tool.  What makes a handler
\* send preview = false is decided apart from what makes a call confirmed.
OnlyGuardedWrites ==
  /\ \A c \in Calls :
       pc[c] = "sent" /\ AsksToWrite(tool, input[c])
         => /\ input[c].key /\ input[c].mode = "run"
            /\ behind[c] # None \/ \E s \in BOOLEAN : holder[s] = c
  /\ receipt # None => receipt.key /\ receipt.mode = "run"

\* No answer with prices goes to a caller without the financial right, stored
\* answers and repeated ones included, whoever had the right when they were made.
NoCommercialWithoutGrant ==
  \A c \in Calls : answer[c] # None /\ answer[c].prices => "financial" \in rights[c]

\* Data of a tool for administrators is answered to administrators.
AdminsOnly(t) ==
  "admin" \in t.late =>
    \A c \in Calls : answer[c] # None /\ answer[c] # Error => "admin" \in rights[c]

\* The withdrawal of a user's administrator right closes stored answers too, except
\* those of maintenance plans, of the lifecycle of manufacturers and brands, and
\* of device batches.
RightsAtAnswer == tool.family \in OpenFamilies \/ AdminsOnly(tool)

\* "ein Rechteentzug sperrt auch zuvor gecachte Antworten" (README.md:1169-1170).
CachedAnswersClosed == AdminsOnly(tool)

\* Once a change is written, its repetition is answered by the receipt, or not
\* at all: no question and no preview, whatever names and records became since.
RepeatNeverAsks ==
  [][\A c \in Calls :
       receipt # None /\ receipt = input[c] /\ answer[c] = None /\ answer'[c] # None
         => answer'[c].kind \in {"receipt", "error"}]_vars

TwoConfirmations == {"planner.plans", "planner.tasks", "procurement.requisitions"}

\* An entry is of a call that asks to write: a key is not spent on a preview.
\* Two tools take two confirmations of which one counts.
KeysAreForWrites ==
  \A s \in BOOLEAN :
    holder[s] # None =>
      \/ AsksToWrite(tool, input[holder[s]])
      \/ tool.family \in TwoConfirmations

RepeatableFamilies ==
  {"warehouse.tasks", "warehouse.maintenance_plans"} \cup MaintenanceFamilies

\* "Fehlgeschlagene Aufgaben-/Wartungsaufrufe lassen sich mit demselben Schlüssel
\* wiederholen" (README.md:1120): no entry of theirs holds a failure.
FailedMaintenanceRepeatable ==
  tool.family \in RepeatableFamilies =>
     \A s \in BOOLEAN : holder[s] # None => result[holder[s]] # Error
=============================================================================
