----------------------------- MODULE ToolScopes -----------------------------
(***************************************************************************)
(* Which scopes a tool call needs (internal/mcpserver/types.go,            *)
(* tool_oauth.go, financial_*_access.go).  Three tables decide it apart    *)
(* from each other: the consent challenge sent before the call, the checks *)
(* made by the call, and the scopes a user can grant at all.  One client   *)
(* calls one tool, may be challenged, consents and calls again.            *)
(*                                                                         *)
(* A tool is its name without the operation, and the operation; a scope is *)
(* its service and its action.  A preparation tool has the scopes of the   *)
(* tool it prepares (executionToolForPreparation) and fewer other checks,  *)
(* so only the tool itself is modelled.  The names of the specification    *)
(* differ from those of OAuthServer, which grants the scopes, so that one  *)
(* module can reason about both.                                           *)
(***************************************************************************)
EXTENDS FiniteSets

VARIABLES
  tool,       \* the tool that is called
  input,      \* plain, money (the fields the financial checks look for) or
              \* zero (such a field, but the decoded input leaves it out)
  token,      \* scopes of the client's token
  byAdmin,    \* its user is an administrator
  writes,     \* MCP_ENABLE_WRITES
  reply,      \* none, challenge, scope, role or run
  challenge   \* scopes that the last challenge requested

toolVars == <<tool, input, token, byAdmin, writes, reply, challenge>>

----------------------------------------------------------------------------
(* Tools.                                                                  *)

Lifecycle == {"archive", "restore"}
Crud == {"create", "update"} \cup Lifecycle

PlannerEntities == {"planner.plans", "planner.tasks"}
RentalEntities == {"rental.staffing", "rental.external_equipment",
  "rental.job_external_equipment", "rental.job_positions", "rental.requirements",
  "rental.jobs", "rental.customers", "rental.venues"}
ProcurementEntities == {"procurement.categories", "procurement.suppliers",
  "procurement.products", "procurement.offers", "procurement.orders",
  "procurement.requisitions"}
CategoryEntities ==
  {"warehouse.categories", "warehouse.subcategories", "warehouse.third_categories"}
OrderEntities == {"warehouse.maintenance_orders", "warehouse.defects"}
CrudEntities == PlannerEntities \cup (RentalEntities \ {"rental.job_positions"})
  \cup CategoryEntities \cup OrderEntities \cup {"warehouse.tasks",
  "warehouse.inventory_counts", "warehouse.maintenance_plans",
  "warehouse.product_relations", "warehouse.manufacturers", "warehouse.brands",
  "warehouse.case_templates", "warehouse.cases", "warehouse.devices",
  "warehouse.products", "warehouse.locations", "warehouse.packages"}
  \cup ProcurementEntities
CaseWorkflows == {"warehouse.case_workflows"} \X
  {"seal", "unseal", "move", "dispatch", "return", "inspect_return"}
CaseContents == {"warehouse.case_contents"} \X
  {"pack_device", "pack_product", "pack_case",
   "unpack_device", "unpack_product", "unpack_case", "unpack_all"}
SupplierSend == {"procurement.orders"} \X
  {"send_amazon", "reconcile_submission", "build_adam_hall_cart", "send_adam_hall"}
Approval == {<<"procurement.orders", "transition">>,
             <<"procurement.requisitions", "decide">>}
Receive == <<"procurement.orders", "receive">>

\* mutationTools.
MutationTools ==
  (CrudEntities \X Crud) \cup CaseWorkflows \cup CaseContents
  \cup SupplierSend \cup Approval \cup {Receive}
  \cup ({"rental.job_positions"} \X {"create", "update", "archive"})
  \cup ({"rental.customers", "rental.venues", "warehouse.devices"} \X {"revert_update"})
  \cup (CategoryEntities \X {"delete"})
  \cup (OrderEntities \X {"transition", "complete", "cancel", "reopen"})
  \cup ({"warehouse.tasks"} \X {"start", "complete", "cancel", "reopen"})
  \cup ({"warehouse.inventory_counts"} \X
          {"set_lines", "review", "return_for_counting", "approve", "cancel"})
  \cup ({"warehouse.devices", "warehouse.products"} \X {"bulk_create"})
  \cup ({"procurement.requisitions"} \X {"order", "submit"})
  \cup {<<"procurement.product_links", "link">>, <<"rental.jobs", "assign_device">>,
        <<"warehouse.devices", "update_status">>, <<"warehouse.movements", "create">>,
        <<"warehouse.products", "link_relation">>}

\* financialOnlyReadTools, by the service whose financial scope they need.
FinancialReads ==
  [rental |-> {<<"rental.job_external_equipment", "get">>,
               <<"rental.job_external_equipment", "search">>,
               <<"rental.revenue", "summary">>, <<"rental.jobs", "get">>,
               <<"rental.job_positions", "get">>, <<"rental.job_positions", "search">>},
   warehouse |-> {<<"warehouse.maintenance_orders", "financial_get">>},
   procurement |-> {<<"procurement.offers", "compare">>,
                    <<"procurement.prices", "history">>,
                    <<"procurement.spend", "summary">>}]
ReadTools == UNION {FinancialReads[s] : s \in DOMAIN FinancialReads}
  \cup {<<"rental.job_positions", "audit_history">>}
Tools == MutationTools \cup ReadTools

----------------------------------------------------------------------------
(* Scopes.                                                                 *)

Read == <<"cores", "read">>
Write == <<"cores", "write">>
Financial(service) == <<service, "financial">>
FinancialScopes == {Financial(s) : s \in DOMAIN FinancialReads}

\* Mutant: sending orders to suppliers is not a scope.
GranularWrites_NoSend ==
  ({"rental", "warehouse", "planner", "procurement"} \X {"create", "update", "archive"})
  \cup ({"warehouse"} \X {"approve", "delete"})
  \cup ({"procurement"} \X {"approve", "submit", "receive"})

\* granularWriteScopes.
GranularWrites ==
  ({"rental", "warehouse", "planner", "procurement"} \X {"create", "update", "archive"})
  \cup ({"warehouse"} \X {"approve", "delete"})
  \cup ({"procurement"} \X {"approve", "submit", "receive", "send"})

SupportedScopes(enabled) ==
  {Read} \cup FinancialScopes
  \cup (IF enabled THEN {Write} \cup GranularWrites ELSE {})

\* The action that most of requiredMutationScope takes from the operation.
SuffixAction(t) ==
  CASE t[2] = "create" -> "create"
    [] t[2] \in Lifecycle -> "archive"
    [] OTHER -> "update"

\* requiredMutationScope, the prefixes first, then the named tools.
WarehouseScope(t) ==
  CASE t[1] \in OrderEntities \cup
         {"warehouse.product_relations", "warehouse.tasks", "warehouse.case_templates"}
         -> <<"warehouse", SuffixAction(t)>>
    [] t[1] = "warehouse.inventory_counts"
         -> <<"warehouse", IF t[2] = "approve" THEN "approve" ELSE SuffixAction(t)>>
    [] t \in CaseWorkflows \cup CaseContents -> <<"warehouse", "update">>
    [] t[2] = "bulk_create" \/ (t[2] = "create" /\ t[1] # "warehouse.movements")
         -> <<"warehouse", "create">>
    [] t[2] \in {"update", "revert_update", "update_status", "link_relation"}
         \/ t = <<"warehouse.movements", "create">> -> <<"warehouse", "update">>
    [] t[2] = "delete" -> <<"warehouse", "delete">>
    [] t[2] \in Lifecycle -> <<"warehouse", "archive">>
    [] OTHER -> Write

ProcurementScope(t) ==
  CASE t[2] \in Lifecycle -> <<"procurement", "archive">>
    [] t[2] \in {"create", "order"} -> <<"procurement", "create">>
    [] t[2] \in {"update", "link"} -> <<"procurement", "update">>
    [] t \in Approval -> <<"procurement", "approve">>
    [] t[2] = "submit" -> <<"procurement", "submit">>
    [] t \in SupplierSend -> <<"procurement", "send">>
    [] t = Receive -> <<"procurement", "receive">>
    [] OTHER -> Write

\* requiredMutationScope of a mutation tool.
RequiredScope(t) ==
  CASE t[1] \in PlannerEntities -> <<"planner", SuffixAction(t)>>
    [] t[1] \in RentalEntities -> <<"rental", SuffixAction(t)>>
    [] t[1] \in ProcurementEntities \cup {"procurement.product_links"}
         -> ProcurementScope(t)
    [] OTHER -> WarehouseScope(t)

\* requiresExplicitMutationScope: cores:write does not do.
Explicit(t) ==
  \/ t[1] \in PlannerEntities \cup {"rental.staffing"}
  \/ t \in SupplierSend \cup Approval \cup {Receive}
  \/ t = <<"warehouse.inventory_counts", "approve">>

----------------------------------------------------------------------------
(* The checks made by the call.                                            *)

\* authorizeMutation.
Authorized(t) ==
  \/ RequiredScope(t) \in token
  \/ Write \in token /\ ~Explicit(t)

\* rentalFinancialWriteTool, and a job with financial fields.
RentalMoney(t, money) ==
  \/ t[1] \in {"rental.job_positions", "rental.external_equipment",
               "rental.job_external_equipment"}
  \/ t = <<"rental.jobs", "assign_device">>
  \/ t[1] = "rental.jobs" /\ money

\* procurementFinancialWriteTool, and a product with a price or its source.
ProcurementMoney(t, money) ==
  \/ t[1] \in {"procurement.offers", "procurement.requisitions", "procurement.orders"}
  \/ t = <<"procurement.products", "create">> /\ money

\* The tools whose input is searched for maintenance costs.
CostChecked(t) ==
  t[1] \in CategoryEntities \cup OrderEntities \cup
    {"warehouse.product_relations", "warehouse.tasks", "warehouse.inventory_counts"}
  \/ t = <<"warehouse.products", "link_relation">>

\* requireWarehouseMasterAdmin, requireProcurementAdmin and
\* requireRentalMasterAdmin in executeMutationTool.
NeedsAdmin(t) ==
  \/ CostChecked(t)
  \/ t[1] \in RentalEntities
  \/ t \in (ProcurementEntities \ {"procurement.requisitions"}) \X Lifecycle
  \/ t \in SupplierSend \cup Approval \cup {Receive}
  \/ t \in {"procurement.orders"} \X {"create", "update"}
  \/ t = <<"procurement.requisitions", "order">>

\* What executeMutationTool, or addTool for a read tool, answers before the
\* handler of the tool runs.
Decision(t) ==
  IF t \in ReadTools
  THEN IF \E s \in DOMAIN FinancialReads :
            t \in FinancialReads[s] /\ Financial(s) \notin token
       THEN "scope" ELSE "run"
  ELSE CASE \/ ~Authorized(t)
            \/ ProcurementMoney(t, input = "money") /\ Financial("procurement") \notin token
            \/ RentalMoney(t, input = "money") /\ Financial("rental") \notin token -> "scope"
         [] NeedsAdmin(t) /\ ~byAdmin -> "role"
         [] CostChecked(t) /\ input = "money" /\ Financial("warehouse") \notin token -> "scope"
         [] OTHER -> "run"

----------------------------------------------------------------------------
(* The challenge before the call.                                          *)

\* The scopes of a call of a read tool.
ReadScopes(t) == {Read} \cup
  {Financial(s) : s \in {r \in DOMAIN FinancialReads : t \in FinancialReads[r]}}

\* positionOAuthScopes, and what toolOAuthMiddleware adds for the undecoded
\* input; {} when the call is not challenged.
ChallengeScopes(t) ==
  LET money == input # "plain"
      needed == {Read, RequiredScope(t)}
  IN IF t \in ReadTools THEN ReadScopes(t)
     ELSE IF t[1] \in PlannerEntities \cup {"rental.staffing"} THEN needed
     ELSE IF RentalMoney(t, money) THEN needed \cup {Financial("rental")}
     ELSE IF t[1] = "rental.jobs" THEN needed
     ELSE IF ProcurementMoney(t, money) THEN needed \cup {Financial("procurement")}
     ELSE {}

\* Mutant: cores:write stands in for every write scope.
Missing_Legacy(t) ==
  {s \in ChallengeScopes(t) : s \notin token /\ ~(s \in GranularWrites /\ Write \in token)}

\* The scopes of the challenge that the token does not have.
Missing(t) ==
  {s \in ChallengeScopes(t) :
     /\ s \notin token
     /\ ~ /\ t \in MutationTools /\ s = RequiredScope(t)
          /\ ~Explicit(t) /\ Write \in token}

\* Mutant: a new consent starts from nothing.
Requested_OnlyMissing(t) == Missing(t)

\* positionOAuthChallenge: the grants of the token that are still supported,
\* and the missing scopes.
Requested(t) == (token \cap SupportedScopes(writes)) \cup Missing(t)

----------------------------------------------------------------------------
(* The client.                                                             *)

\* Every token reads (bearerOptions); a mutation is registered only on a server
\* with writes.  A zero revenue is dropped from a new job, and only there.
ToolInit ==
  /\ tool \in Tools
  /\ input \in {"plain", "money"} \cup
       IF tool = <<"rental.jobs", "create">> THEN {"zero"} ELSE {}
  /\ \E more \in SUBSET ({Write} \cup FinancialScopes \cup
                         IF tool \in MutationTools THEN {RequiredScope(tool)} ELSE {}) :
       token = {Read} \cup more
  /\ byAdmin \in BOOLEAN
  /\ writes \in IF tool \in MutationTools THEN {TRUE} ELSE BOOLEAN
  /\ reply = "none"
  /\ challenge = {}

\* tools/call, through toolOAuthMiddleware.
Call ==
  /\ reply \in {"none", "consented"}
  /\ IF Missing(tool) # {}
     THEN reply' = "challenge" /\ challenge' = Requested(tool)
     ELSE reply' = Decision(tool) /\ UNCHANGED challenge
  /\ UNCHANGED <<tool, input, token, byAdmin, writes>>

\* What the form of the consent page grants (requestedScopes, consentScopes).
Granted(asked, writing, money) ==
  LET kept == {Read} \cup (IF money THEN asked \cap FinancialScopes ELSE {})
      chosen == asked \cap ({Write} \cup GranularWrites)
  IN IF ~writing THEN kept
     ELSE kept \cup IF chosen = {} THEN {Write} ELSE chosen

\* The client asks for the scopes of the challenge and the user allows it;
\* validateAuthorizationRequest refuses a scope that is not supported.
Consent ==
  /\ reply = "challenge"
  /\ challenge \subseteq SupportedScopes(writes)
  /\ \E writing \in {writes, FALSE}, money \in BOOLEAN :
       token' = Granted(challenge, writing, money)
  /\ reply' = "consented"
  /\ UNCHANGED <<tool, input, byAdmin, writes, challenge>>

ToolNext == Call \/ Consent

ToolSpec == ToolInit /\ [][ToolNext]_toolVars

----------------------------------------------------------------------------
(* Retried calls: the tables of executeMutationTool and write_guard.go.    *)

\* Mutant: the prefix of jobs is missing.
DurableRetry_NoJobs(t) ==
  \/ t[1] \in PlannerEntities \cup (RentalEntities \ {"rental.jobs"}) \cup ProcurementEntities
  \/ t[1] \in {"warehouse.case_workflows", "warehouse.case_contents",
               "warehouse.cases", "warehouse.case_templates"}
  \/ t = <<"warehouse.products", "bulk_create">>

ProcurementWorkflows ==
  (ProcurementEntities \X Lifecycle) \cup SupplierSend \cup Approval \cup {Receive}
  \cup ({"procurement.orders"} \X {"create", "update"})
  \cup ({"procurement.requisitions"} \X {"create", "update", "submit", "order"})

\* hasDurableWarehouseRetry: a failed attempt is forgotten.
DurableRetry(t) ==
  \/ t \in ProcurementWorkflows
  \/ t[1] \in PlannerEntities \cup RentalEntities \cup CategoryEntities \cup OrderEntities
  \/ t[1] \in {"warehouse.case_workflows", "warehouse.case_contents", "warehouse.cases",
               "warehouse.case_templates", "warehouse.product_relations",
               "warehouse.inventory_counts", "warehouse.tasks", "warehouse.maintenance_plans"}
  \/ t \in {"warehouse.products"} \X {"link_relation", "bulk_create"}

\* executeMutationTool: a retry repeats the handler, and the Core answers it
\* from its receipt.
OwnerReplay(t) ==
  \/ t \in ProcurementWorkflows
  \/ t[1] \in PlannerEntities \cup (RentalEntities \ {"rental.customers", "rental.venues"})
  \/ t[1] \in {"warehouse.case_workflows", "warehouse.case_contents", "warehouse.cases",
               "warehouse.case_templates"}
  \/ t = <<"warehouse.products", "bulk_create">>

----------------------------------------------------------------------------
(* Properties.                                                             *)

\* A user who grants all that the challenge requests is not asked again: the
\* next call runs, or fails only for the role of the user.
OneConsentSuffices ==
  [][Call /\ reply = "consented" /\ challenge \subseteq token
       => reply' \in {"role", "run"}]_toolVars

\* A challenge requests only scopes that authorize accepts; with one that it
\* does not, the whole request is refused and the client is stuck.
ChallengeGrantable == challenge \subseteq SupportedScopes(writes)

\* positionOAuthChallenge: "upgrading a financial permission does not discard
\* this connection's previous read/write permissions".  What the token had is
\* requested again, and only a form that leaves it out takes it away.
GrantsKept ==
  [][/\ Consent
     /\ challenge \subseteq token'
     => token \cap SupportedScopes(writes) \subseteq token']_toolVars

\* A retry that repeats the handler finds the entry of an attempt that
\* succeeded or still runs: an attempt that failed is forgotten.  Otherwise the
\* retry would make the change and report that it made none.
ReplayRetriable == OwnerReplay(tool) => DurableRetry(tool)
=============================================================================
