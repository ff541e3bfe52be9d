----------------------------- MODULE OwnerTools -----------------------------
(***************************************************************************)
(* The write tools whose preview is made by the Core that owns the record  *)
(* (internal/mcpserver/tools_planner_lifecycle.go, tools_rental_*.go,      *)
(* tools_warehouse_*.go, tools_procurement_*.go).  Their handlers send one *)
(* request, with preview or without, and differ in what decides that, in   *)
(* the rights they ask for and in what they look up before.  The write     *)
(* path around them (types.go, write_guard.go, financial_write_access.go)  *)
(* treats them by lists of name prefixes kept apart from them.             *)
(*                                                                         *)
(* A definition per file gives its tools; OwnerWrites gives them a meaning.*)
(***************************************************************************)

Crud == {"create", "update", "archive", "restore"}
Lifecycle == {"archive", "restore"}

\* The tools of these families for these operations.
\*   own, inner  fields Confirm... of the input, and of a struct embedded in it
\*   decides     those that turn the preview into a write, one is enough
\*   late        rights the handler itself asks for
\*   priced      financial rights are asked for when the input has a price
\*   hides       prices are taken out of an answer to a caller without them
\*   named       records may be given by name, resolved only for a preview
\*   prepares    the handler prepares the change itself, from what it reads
Tools(families, ops, confirm, late) ==
  [family : families, op : ops, own : {{confirm}}, inner : {{}}, decides : {{confirm}},
   late : {late}, priced : {FALSE}, hides : {FALSE}, named : {FALSE}, prepares : {FALSE}]

With(tools, field) == {[t EXCEPT ![field] = TRUE] : t \in tools}
Embedded(tools) == {[t EXCEPT !.own = {}, !.inner = t.own] : t \in tools}

\* Both fields are in one input, only the one named after the operation counts.
OneOfTwo(tools) == {[t EXCEPT !.own = {"creation", "change"}] : t \in tools}

\* Any of the fields counts, whichever operation it is named after.
AnyField(tools) == {[t EXCEPT !.decides = {"creation", "update", "change"}] : t \in tools}

----------------------------------------------------------------------------
(* PlannerCore.                                                            *)

Planner ==
  Embedded(OneOfTwo(Tools({"planner.plans", "planner.tasks"}, {"create"}, "creation", {})
    \cup Tools({"planner.plans", "planner.tasks"}, Crud \ {"create"}, "change", {})))

----------------------------------------------------------------------------
(* RentalCore.                                                             *)

JobCreate == Tools({"rental.jobs"}, {"create"}, "creation", {"admin"})
JobUpdate == Tools({"rental.jobs"}, {"update"}, "update", {"admin"})
JobLifecycle == Tools({"rental.jobs"}, Lifecycle, "change", {"admin"})
Jobs == With(With(With(AnyField(JobCreate \cup JobUpdate \cup JobLifecycle),
                       "priced"), "hides"), "named")

RequirementCreate == Tools({"rental.requirements"}, {"create"}, "creation", {"admin"})
RequirementUpdate == Tools({"rental.requirements"}, {"update"}, "update", {"admin"})
RequirementLifecycle == Tools({"rental.requirements"}, Lifecycle, "change", {"admin"})
Requirements ==
  With(AnyField(RequirementCreate \cup RequirementUpdate \cup RequirementLifecycle), "named")

Positions ==
  With(AnyField(Tools({"rental.job_positions"}, {"create", "update", "archive"}, "change",
                      {"admin", "financial"})), "named")

JobEquipment ==
  With(Tools({"rental.job_external_equipment"}, {"create"}, "change",
             {"admin", "financial"}), "named")

Assignments ==
  Embedded(Tools({"rental.job_external_equipment"}, {"update"}, "change",
                 {"admin", "financial"}))
  \cup Tools({"rental.job_external_equipment"}, Lifecycle, "change", {"admin", "financial"})

EquipmentCreate ==
  Tools({"rental.external_equipment"}, {"create"}, "change", {"admin", "financial"})

EquipmentCatalog ==
  Embedded(Tools({"rental.external_equipment"}, {"update"}, "change",
                 {"admin", "financial"}))
  \cup Tools({"rental.external_equipment"}, Lifecycle, "change", {"admin", "financial"})

Staffing == Tools({"rental.staffing"}, Crud, "change", {"admin"})

RentalMasters ==
  Embedded(Tools({"rental.customers", "rental.venues"}, Crud \cup {"revert_update"},
                 "change", {"admin"}))

\* rental.jobs.assign_device: the Core books, the server prepares.
AssignDevice ==
  With(Tools({"rental.jobs"}, {"assign_device"}, "assignment", {"financial"}), "prepares")

----------------------------------------------------------------------------
(* WarehouseCore.                                                          *)

Inventory ==
  Tools({"warehouse.inventory_counts"},
        Crud \cup {"set_lines", "review", "return_for_counting", "approve", "cancel"},
        "change", {"admin"})

TaskCreate == Tools({"warehouse.tasks"}, {"create"}, "creation", {"admin"})

\* Mutant: creation asks for the field of the other operations.
Tasks_ChangeDecides ==
  {[t EXCEPT !.decides = {"change"}] : t \in TaskCreate}
  \cup Tools({"warehouse.tasks"}, (Crud \ {"create"}) \cup {"start", "complete", "cancel", "reopen"},
             "change", {"admin"})

Tasks ==
  TaskCreate
  \cup Tools({"warehouse.tasks"}, (Crud \ {"create"}) \cup {"start", "complete", "cancel", "reopen"},
             "change", {"admin"})

Relations ==
  Tools({"warehouse.product_relations"}, Crud, "change", {"admin"})
  \cup Tools({"warehouse.products"}, {"link_relation"}, "link", {"admin"})

Cases == Tools({"warehouse.cases"}, Crud, "change", {"admin"})
CaseContents ==
  Tools({"warehouse.case_contents"},
        {"pack_device", "pack_product", "pack_case",
         "unpack_device", "unpack_product", "unpack_case", "unpack_all"},
        "change", {"admin"})
CaseTemplates == Tools({"warehouse.case_templates"}, Crud, "change", {"admin"})
CaseWorkflows ==
  Tools({"warehouse.case_workflows"},
        {"seal", "unseal", "move", "dispatch", "return", "inspect_return"},
        "change", {"admin"})

\* Maintenance orders and defects; redactMaintenanceCosts.
Maintenance ==
  With(With(Tools({"warehouse.maintenance_orders", "warehouse.defects"},
                  Crud \cup {"transition", "complete", "cancel", "reopen"},
                  "change", {"admin"}), "priced"), "hides")

MaintenancePlans == Tools({"warehouse.maintenance_plans"}, Crud, "change", {"admin"})

MasterLifecycle ==
  Tools({"warehouse.manufacturers", "warehouse.brands"}, Lifecycle, "lifecycle", {"admin"})

CategoryLifecycle ==
  Tools({"warehouse.categories", "warehouse.subcategories", "warehouse.third_categories"},
        Lifecycle, "lifecycle", {"admin"})

DeviceBulk == Tools({"warehouse.devices"}, {"bulk_create"}, "creation", {"admin"})

ProductBulk ==
  With(Tools({"warehouse.products"}, {"bulk_create"}, "creation", {"admin"}), "priced")

----------------------------------------------------------------------------
(* ProcurementCore.                                                        *)

AdamHall ==
  Tools({"procurement.orders"}, {"build_adam_hall_cart"}, "cart", {"admin", "financial"})
  \cup Tools({"procurement.orders"}, {"send_adam_hall"}, "send", {"admin", "financial"})

AmazonSend == Tools({"procurement.orders"}, {"send_amazon"}, "send", {"admin", "financial"})

Reconcile ==
  Tools({"procurement.orders"}, {"reconcile_submission"}, "reconcile", {"admin", "financial"})

RequisitionOrder ==
  Tools({"procurement.requisitions"}, {"order"}, "creation", {"admin", "financial"})

Approvals ==
  Tools({"procurement.requisitions"}, {"decide"}, "decision", {"admin", "financial"})
  \cup Tools({"procurement.orders"}, {"transition"}, "transition", {"admin", "financial"})

GoodsReceipt == Tools({"procurement.orders"}, {"receive"}, "receipt", {"admin", "financial"})

OrderDrafts ==
  Tools({"procurement.orders"}, {"create"}, "creation", {"admin", "financial"})
  \cup Tools({"procurement.orders"}, {"update"}, "update", {"admin", "financial"})

\* Of these, only offers are financial.
ProcurementMasters ==
  Tools({"procurement.categories", "procurement.suppliers", "procurement.products"},
        Lifecycle, "change", {"admin"})
  \cup Tools({"procurement.offers"}, Lifecycle, "change", {"admin", "financial"})

\* Orders are archived by administrators, requisitions by their requesters.
ProcurementWorkflows ==
  Tools({"procurement.orders"}, Lifecycle, "change", {"admin", "financial"})
  \cup Tools({"procurement.requisitions"}, Lifecycle, "change", {"financial"})

RequisitionDrafts ==
  {[t EXCEPT !.own = {"creation", "update"}] :
     t \in Tools({"procurement.requisitions"}, {"create"}, "creation", {"financial"})
           \cup Tools({"procurement.requisitions"}, {"update"}, "update", {"financial"})}
  \cup Tools({"procurement.requisitions"}, {"submit"}, "submit", {"financial"})

----------------------------------------------------------------------------

OwnerTools ==
  Planner \cup Jobs \cup Requirements \cup Positions \cup JobEquipment \cup Assignments
  \cup EquipmentCreate \cup EquipmentCatalog \cup Staffing \cup RentalMasters
  \cup AssignDevice \cup Inventory \cup Tasks \cup Relations \cup Cases \cup CaseContents
  \cup CaseTemplates \cup CaseWorkflows \cup Maintenance \cup MaintenancePlans
  \cup MasterLifecycle \cup CategoryLifecycle \cup DeviceBulk \cup ProductBulk
  \cup AdamHall \cup AmazonSend \cup Reconcile \cup RequisitionOrder \cup Approvals
  \cup GoodsReceipt \cup OrderDrafts \cup ProcurementMasters \cup ProcurementWorkflows
  \cup RequisitionDrafts
=============================================================================
