------------------------- MODULE OwnerWritesProofs -------------------------
(***************************************************************************)
(* Theorems about OwnerWrites, for any number of calls, restarts and       *)
(* renames and for every tool of OwnerTools.                               *)
(***************************************************************************)
EXTENDS OwnerWrites, TLAPS

----------------------------------------------------------------------------
(* What the lists of the write path and the handlers agree on.             *)

Agrees(t) ==
  /\ t.family \in CommercialFamilies => "financial" \in t.late \/ t.hides
  /\ t.priced => RunsAgain(t) \/ t.family \in MaintenanceFamilies
  /\ "admin" \in t.late => AdminFirst(t) \/ RunsAgain(t) \/ t.family \in OpenFamilies
  /\ t.family \notin TwoConfirmations => t.own \cup t.inner \subseteq t.decides

\* Financial rights of a handler are asked for whenever its tool is called.
AsksAgain(t) == t.late = {} \/ t.late = {"admin"} \/ (t.late \subseteq Rights /\ RunsAgain(t))

Fields == {"creation", "update", "change"}
Operations == Crud \cup {"transition", "complete", "cancel", "reopen"}

\* A tool of this family, every confirmation of which decides.
OneFamily(t, families) ==
  /\ t \in [family : families, op : Operations, own : SUBSET Fields, inner : SUBSET Fields,
            decides : SUBSET Fields, late : SUBSET Rights, priced : BOOLEAN,
            hides : BOOLEAN, named : BOOLEAN, prepares : BOOLEAN]
  /\ t.own \cup t.inner \subseteq t.decides

\* Turning a field on leaves the others alone.
LEMMA WithKeeps ==
  ASSUME NEW tools, NEW families, NEW field \in {"priced", "hides", "named", "prepares"},
         \A t \in tools : OneFamily(t, families)
  PROVE  \A t \in With(tools, field) : OneFamily(t, families) /\ t[field]
BY DEF With, OneFamily

LEMMA WithKeepsRights ==
  ASSUME NEW tools, NEW families, NEW late,
         NEW field \in {"priced", "hides", "named", "prepares"},
         \A t \in tools : OneFamily(t, families) /\ t.late = late
  PROVE  \A t \in With(tools, field) : t.late = late
BY DEF With, OneFamily

LEMMA WithKeepsHiding ==
  ASSUME NEW tools, NEW families, NEW field \in {"priced", "hides", "named", "prepares"},
         \A t \in tools : OneFamily(t, families) /\ t.hides
  PROVE  \A t \in With(tools, field) : t.hides
BY DEF With, OneFamily

LEMMA AnyFieldKeeps ==
  ASSUME NEW tools, NEW families,
         \A t \in tools : /\ OneFamily(t, families)
                         /\ t.own \cup t.inner \subseteq Fields
  PROVE  \A t \in AnyField(tools) :
           OneFamily(t, families) /\ \E u \in tools : t.late = u.late
<1> SUFFICES ASSUME NEW t \in AnyField(tools)
             PROVE  OneFamily(t, families) /\ \E u \in tools : t.late = u.late
  OBVIOUS
<1>1. PICK u \in tools : t = [u EXCEPT !.decides = Fields]
  BY DEF AnyField, Fields
<1>2. /\ OneFamily(u, families)
      /\ u.own \cup u.inner \subseteq Fields
  OBVIOUS
<1>3. t.own = u.own /\ t.inner = u.inner /\ t.late = u.late
      /\ t.decides = Fields
  BY <1>1, <1>2 DEF OneFamily
<1>4. t.own \cup t.inner \subseteq t.decides
  BY <1>2, <1>3
<1>5. t \in [family : families, op : Operations, own : SUBSET Fields, inner : SUBSET Fields,
            decides : SUBSET Fields, late : SUBSET Rights, priced : BOOLEAN,
            hides : BOOLEAN, named : BOOLEAN, prepares : BOOLEAN]
  BY <1>1, <1>2 DEF OneFamily, Fields
<1> QED BY <1>3, <1>4, <1>5 DEF OneFamily

LEMMA JobsShape == \A t \in Jobs : OneFamily(t, {"rental.jobs"}) /\ t.hides
<1> DEFINE base == JobCreate \cup JobUpdate \cup JobLifecycle
<1>1. \A t \in base : /\ OneFamily(t, {"rental.jobs"})
                     /\ t.own \cup t.inner \subseteq Fields
  <2>1. \A t \in JobCreate : /\ OneFamily(t, {"rental.jobs"})
                        /\ t.own \cup t.inner \subseteq Fields
    BY DEF Tools, OneFamily, JobCreate, Lifecycle, Crud, Fields, Operations, Rights
  <2>2. \A t \in JobUpdate : /\ OneFamily(t, {"rental.jobs"})
                        /\ t.own \cup t.inner \subseteq Fields
    BY DEF Tools, OneFamily, JobUpdate, Lifecycle, Crud, Fields, Operations, Rights
  <2>3. \A t \in JobLifecycle : /\ OneFamily(t, {"rental.jobs"})
                        /\ t.own \cup t.inner \subseteq Fields
    BY DEF Tools, OneFamily, JobLifecycle, Lifecycle, Crud, Fields, Operations, Rights
  <2> QED BY <2>1, <2>2, <2>3
<1> HIDE DEF base
<1>2. \A t \in AnyField(base) : OneFamily(t, {"rental.jobs"})
  BY <1>1, AnyFieldKeeps
<1>3. \A t \in With(AnyField(base), "priced") : OneFamily(t, {"rental.jobs"})
  BY <1>2, WithKeeps
<1>4. \A t \in With(With(AnyField(base), "priced"), "hides") : OneFamily(t, {"rental.jobs"}) /\ t.hides
  BY <1>3, WithKeeps
<1>5. \A t \in With(With(With(AnyField(base), "priced"), "hides"), "named") :
        OneFamily(t, {"rental.jobs"}) /\ t.hides
  BY <1>4, WithKeeps, WithKeepsHiding
<1> QED BY <1>5 DEF Jobs, base

LEMMA RequirementsShape == \A t \in Requirements : OneFamily(t, {"rental.requirements"})
<1> DEFINE base == RequirementCreate \cup RequirementUpdate \cup RequirementLifecycle
<1>1. \A t \in base : /\ OneFamily(t, {"rental.requirements"})
                     /\ t.own \cup t.inner \subseteq Fields
  <2>1. \A t \in RequirementCreate : /\ OneFamily(t, {"rental.requirements"})
                        /\ t.own \cup t.inner \subseteq Fields
    BY DEF Tools, OneFamily, RequirementCreate, Lifecycle, Crud, Fields, Operations, Rights
  <2>2. \A t \in RequirementUpdate : /\ OneFamily(t, {"rental.requirements"})
                        /\ t.own \cup t.inner \subseteq Fields
    BY DEF Tools, OneFamily, RequirementUpdate, Lifecycle, Crud, Fields, Operations, Rights
  <2>3. \A t \in RequirementLifecycle : /\ OneFamily(t, {"rental.requirements"})
                        /\ t.own \cup t.inner \subseteq Fields
    BY DEF Tools, OneFamily, RequirementLifecycle, Lifecycle, Crud, Fields, Operations, Rights
  <2> QED BY <2>1, <2>2, <2>3
<1> HIDE DEF base
<1>2. \A t \in AnyField(base) : OneFamily(t, {"rental.requirements"})
  BY <1>1, AnyFieldKeeps
<1>3. \A t \in With(AnyField(base), "named") : OneFamily(t, {"rental.requirements"})
  BY <1>2, WithKeeps
<1> QED BY <1>3 DEF Requirements, base

LEMMA PositionsShape ==
  \A t \in Positions : OneFamily(t, {"rental.job_positions"}) /\ t.late = {"admin", "financial"}
<1> DEFINE base == Tools({"rental.job_positions"}, {"create", "update", "archive"}, "change",
                         {"admin", "financial"})
<1>1. \A t \in base : /\ OneFamily(t, {"rental.job_positions"})
                     /\ t.own \cup t.inner \subseteq Fields
                     /\ t.late = {"admin", "financial"}
  BY DEF Tools, OneFamily, Fields, Operations, Crud, Rights
<1> HIDE DEF base
<1>2. \A t \in AnyField(base) : OneFamily(t, {"rental.job_positions"}) /\ t.late = {"admin", "financial"}
  BY <1>1, AnyFieldKeeps
<1>3. \A t \in With(AnyField(base), "named") :
        OneFamily(t, {"rental.job_positions"}) /\ t.late = {"admin", "financial"}
  BY <1>2, WithKeeps, WithKeepsRights
<1> QED BY <1>3 DEF Positions, base

LEMMA MaintenanceShape == \A t \in Maintenance : OneFamily(t, MaintenanceFamilies) /\ t.hides
<1> DEFINE base == Tools({"warehouse.maintenance_orders", "warehouse.defects"},
                         Crud \cup {"transition", "complete", "cancel", "reopen"}, "change", {"admin"})
<1>1. \A t \in base : OneFamily(t, MaintenanceFamilies)
  BY DEF Tools, OneFamily, Crud, MaintenanceFamilies, Fields, Operations, Rights
<1> HIDE DEF base
<1>2. \A t \in With(base, "priced") : OneFamily(t, MaintenanceFamilies)
  BY <1>1, WithKeeps
<1>3. \A t \in With(With(base, "priced"), "hides") : OneFamily(t, MaintenanceFamilies) /\ t.hides
  BY <1>2, WithKeeps
<1> QED BY <1>3 DEF Maintenance, base

LEMMA MaintenanceLate == \A t \in Maintenance : t.late = {"admin"}
<1> DEFINE base == Tools({"warehouse.maintenance_orders", "warehouse.defects"},
                         Crud \cup {"transition", "complete", "cancel", "reopen"}, "change", {"admin"})
<1>1. \A t \in base : OneFamily(t, MaintenanceFamilies) /\ t.late = {"admin"}
  BY DEF Tools, OneFamily, Crud, MaintenanceFamilies, Fields, Operations, Rights
<1> HIDE DEF base
<1>2. \A t \in With(base, "priced") : OneFamily(t, MaintenanceFamilies) /\ t.late = {"admin"}
  BY <1>1, WithKeeps, WithKeepsRights
<1>3. \A t \in With(With(base, "priced"), "hides") : t.late = {"admin"}
  BY <1>2, WithKeepsRights
<1> QED BY <1>3 DEF Maintenance, base

LEMMA AgreesByFile == \A t \in OwnerTools : Agrees(t)
<1> USE DEF Agrees, Tools, CommercialFamilies, MaintenanceFamilies, OpenFamilies,
            TwoConfirmations, RunsAgain, AdminFirst
<1>1. \A t \in Planner : Agrees(t)
  <2>1. \A t \in Planner : t.family \in {"planner.plans", "planner.tasks"}
    BY DEF Planner, Embedded, OneOfTwo
  <2> QED BY <2>1
<1>2. \A t \in Jobs : Agrees(t)
  BY JobsShape DEF OneFamily
<1>3. \A t \in Requirements : Agrees(t)
  BY RequirementsShape DEF OneFamily
<1>4. \A t \in Positions : Agrees(t)
  BY PositionsShape DEF OneFamily
<1>5. \A t \in JobEquipment : Agrees(t)
  BY DEF JobEquipment, With
<1>6. \A t \in Assignments : Agrees(t)
  <2>1. \A t \in Assignments :
          /\ t.family = "rental.job_external_equipment" /\ t.late = {"admin", "financial"}
          /\ ~t.priced /\ t.own \cup t.inner \subseteq t.decides
    BY DEF Assignments, Embedded, Lifecycle
  <2> QED BY <2>1
<1>7. \A t \in EquipmentCreate : Agrees(t)
  BY DEF EquipmentCreate
<1>8. \A t \in EquipmentCatalog : Agrees(t)
  <2>1. \A t \in EquipmentCatalog :
          /\ t.family = "rental.external_equipment" /\ t.late = {"admin", "financial"}
          /\ ~t.priced /\ t.own \cup t.inner \subseteq t.decides
    BY DEF EquipmentCatalog, Embedded, Lifecycle
  <2> QED BY <2>1
<1>9. \A t \in Staffing : Agrees(t)
  BY DEF Staffing, Crud
<1>10. \A t \in RentalMasters : Agrees(t)
  BY DEF RentalMasters, Embedded, Crud
<1>11. \A t \in AssignDevice : Agrees(t)
  BY DEF AssignDevice, With
<1>12. \A t \in Inventory : Agrees(t)
  BY DEF Inventory, Crud
<1>13. \A t \in Tasks : Agrees(t)
  BY DEF Tasks, TaskCreate, Crud
<1>14. \A t \in Relations : Agrees(t)
  BY DEF Relations, Crud
<1>15. \A t \in Cases : Agrees(t)
  BY DEF Cases, Crud
<1>16. \A t \in CaseContents : Agrees(t)
  BY DEF CaseContents
<1>17. \A t \in CaseTemplates : Agrees(t)
  BY DEF CaseTemplates, Crud
<1>18. \A t \in CaseWorkflows : Agrees(t)
  BY DEF CaseWorkflows
<1>19. \A t \in Maintenance : Agrees(t)
  BY MaintenanceShape DEF OneFamily
<1>20. \A t \in MaintenancePlans : Agrees(t)
  BY DEF MaintenancePlans, Crud
<1>21. \A t \in MasterLifecycle : Agrees(t)
  BY DEF MasterLifecycle, Lifecycle
<1>22. \A t \in CategoryLifecycle : Agrees(t)
  BY DEF CategoryLifecycle, Lifecycle
<1>23. \A t \in DeviceBulk : Agrees(t)
  BY DEF DeviceBulk
<1>24. \A t \in ProductBulk : Agrees(t)
  BY DEF ProductBulk, With
<1>25. \A t \in AdamHall : Agrees(t)
  BY DEF AdamHall
<1>26. \A t \in AmazonSend : Agrees(t)
  BY DEF AmazonSend
<1>27. \A t \in Reconcile : Agrees(t)
  BY DEF Reconcile
<1>28. \A t \in RequisitionOrder : Agrees(t)
  BY DEF RequisitionOrder
<1>29. \A t \in Approvals : Agrees(t)
  BY DEF Approvals
<1>30. \A t \in GoodsReceipt : Agrees(t)
  BY DEF GoodsReceipt
<1>31. \A t \in OrderDrafts : Agrees(t)
  BY DEF OrderDrafts
<1>32. \A t \in ProcurementMasters : Agrees(t)
  BY DEF ProcurementMasters, Lifecycle
<1>33. \A t \in ProcurementWorkflows : Agrees(t)
  BY DEF ProcurementWorkflows, Lifecycle
<1>34. \A t \in RequisitionDrafts : Agrees(t)
  BY DEF RequisitionDrafts
<1> QED BY <1>1, <1>2, <1>3, <1>4, <1>5, <1>6, <1>7, <1>8, <1>9, <1>10, <1>11, <1>12, <1>13, <1>14, <1>15, <1>16, <1>17, <1>18, <1>19, <1>20, <1>21, <1>22, <1>23, <1>24, <1>25, <1>26, <1>27, <1>28, <1>29, <1>30, <1>31, <1>32, <1>33, <1>34 DEF OwnerTools

LEMMA AsksAgainByFile == \A t \in OwnerTools : AsksAgain(t)
<1> USE DEF AsksAgain, Tools, RunsAgain, Rights
<1>1. \A t \in Planner : AsksAgain(t)
  <2>1. \A t \in Planner : t.late = {}
    BY DEF Planner, Embedded, OneOfTwo
  <2> QED BY <2>1
<1>2. \A t \in Jobs : AsksAgain(t)
  BY JobsShape DEF OneFamily
<1>3. \A t \in Requirements : AsksAgain(t)
  BY RequirementsShape DEF OneFamily
<1>4. \A t \in Positions : AsksAgain(t)
  BY PositionsShape DEF OneFamily
<1>5. \A t \in JobEquipment : AsksAgain(t)
  BY DEF JobEquipment, With
<1>6. \A t \in Assignments : AsksAgain(t)
  BY DEF Assignments, Embedded, Lifecycle
<1>7. \A t \in EquipmentCreate : AsksAgain(t)
  BY DEF EquipmentCreate
<1>8. \A t \in EquipmentCatalog : AsksAgain(t)
  BY DEF EquipmentCatalog, Embedded, Lifecycle
<1>9. \A t \in Staffing : AsksAgain(t)
  BY DEF Staffing, Crud
<1>10. \A t \in RentalMasters : AsksAgain(t)
  BY DEF RentalMasters, Embedded, Crud
<1>11. \A t \in AssignDevice : AsksAgain(t)
  BY DEF AssignDevice, With
<1>12. \A t \in Inventory : AsksAgain(t)
  BY DEF Inventory, Crud
<1>13. \A t \in Tasks : AsksAgain(t)
  BY DEF Tasks, TaskCreate, Crud
<1>14. \A t \in Relations : AsksAgain(t)
  BY DEF Relations, Crud
<1>15. \A t \in Cases : AsksAgain(t)
  BY DEF Cases, Crud
<1>16. \A t \in CaseContents : AsksAgain(t)
  BY DEF CaseContents
<1>17. \A t \in CaseTemplates : AsksAgain(t)
  BY DEF CaseTemplates, Crud
<1>18. \A t \in CaseWorkflows : AsksAgain(t)
  BY DEF CaseWorkflows
<1>19. \A t \in Maintenance : AsksAgain(t)
  BY MaintenanceLate
<1>20. \A t \in MaintenancePlans : AsksAgain(t)
  BY DEF MaintenancePlans, Crud
<1>21. \A t \in MasterLifecycle : AsksAgain(t)
  BY DEF MasterLifecycle, Lifecycle
<1>22. \A t \in CategoryLifecycle : AsksAgain(t)
  BY DEF CategoryLifecycle, Lifecycle
<1>23. \A t \in DeviceBulk : AsksAgain(t)
  BY DEF DeviceBulk
<1>24. \A t \in ProductBulk : AsksAgain(t)
  BY DEF ProductBulk, With
<1>25. \A t \in AdamHall : AsksAgain(t)
  BY DEF AdamHall
<1>26. \A t \in AmazonSend : AsksAgain(t)
  BY DEF AmazonSend
<1>27. \A t \in Reconcile : AsksAgain(t)
  BY DEF Reconcile
<1>28. \A t \in RequisitionOrder : AsksAgain(t)
  BY DEF RequisitionOrder
<1>29. \A t \in Approvals : AsksAgain(t)
  BY DEF Approvals
<1>30. \A t \in GoodsReceipt : AsksAgain(t)
  BY DEF GoodsReceipt
<1>31. \A t \in OrderDrafts : AsksAgain(t)
  BY DEF OrderDrafts
<1>32. \A t \in ProcurementMasters : AsksAgain(t)
  BY DEF ProcurementMasters, Lifecycle
<1>33. \A t \in ProcurementWorkflows : AsksAgain(t)
  BY DEF ProcurementWorkflows, Lifecycle
<1>34. \A t \in RequisitionDrafts : AsksAgain(t)
  BY DEF RequisitionDrafts
<1> QED BY <1>1, <1>2, <1>3, <1>4, <1>5, <1>6, <1>7, <1>8, <1>9, <1>10, <1>11, <1>12, <1>13, <1>14, <1>15, <1>16, <1>17, <1>18, <1>19, <1>20, <1>21, <1>22, <1>23, <1>24, <1>25, <1>26, <1>27, <1>28, <1>29, <1>30, <1>31, <1>32, <1>33, <1>34 DEF OwnerTools

----------------------------------------------------------------------------
(* Facts about inputs.                                                     *)

LEMMA InputFacts ==
  ASSUME NEW t, NEW i \in Inputs(t)
  PROVE  /\ i.flags \subseteq t.own \cup t.inner
         /\ i.key \in BOOLEAN /\ i.price \in BOOLEAN
         /\ i.price => t.priced
         /\ AsksToWrite(t, i) => Guarded(t, i)
<1>1. i \in [flags : SUBSET (t.own \cup t.inner), mode : {"run", "dry", "prepare"}, key : BOOLEAN,
             price : IF t.priced THEN BOOLEAN ELSE {FALSE},
             ref : IF t.named THEN {"name", "both"} ELSE {"id"}]
  BY DEF Inputs
<1>2. i.flags \subseteq t.own \cup t.inner
  BY <1>1
<1>3. AsksToWrite(t, i) => Guarded(t, i)
  BY <1>2 DEF AsksToWrite, Guarded, Confirmed
<1> QED BY <1>1, <1>2, <1>3

LEMMA ErrorIsReply ==
  Error \in Replies /\ Error # None /\ ~Error.prices /\ Error.kind = "error"
<1>1. Error \in Replies /\ ~Error.prices /\ Error.kind = "error"
  BY DEF Error, Reply, Replies
<1> QED BY <1>1, OwnerAssumption

\* The invariant, and the tool that never changes.
Inv == OwnerInv /\ tool \in Tried

LEMMA OwnerInit == Init => Inv
<1> SUFFICES ASSUME Init PROVE Inv
  OBVIOUS
<1>1. TypeOK /\ tool \in Tried
  BY OwnerAssumption DEF Init, TypeOK
<1>2. Asked /\ Owned /\ Followed /\ Passed /\ Returned /\ Received
  BY DEF Init, Asked, Owned, Followed, Passed, Returned, Received, Underway
<1> QED BY <1>1, <1>2 DEF Inv, OwnerInv

----------------------------------------------------------------------------
(* Calls begin.                                                            *)

LEMMA RejectKeeps ==
  ASSUME Inv, NEW c \in Calls, NEW i \in Inputs(tool), NEW r \in SUBSET Rights, Reject(c, i, r)
  PROVE  Inv'
<1> USE DEF Inv, OwnerInv, Reject, Begins, Answer
<1>0. None # i /\ tool' = tool /\ Error \in Replies /\ Error # None /\ ~Error.prices
  BY OwnerAssumption, ErrorIsReply
<1>1. TypeOK' /\ tool' \in Tried
  BY <1>0 DEF TypeOK
<1>2. Asked'
  BY <1>0 DEF Asked, TypeOK
<1>3. Owned'
  BY <1>0 DEF Owned, TypeOK
<1>4. Followed'
  BY <1>0 DEF Followed, Asked, TypeOK
<1>5. Passed'
  BY <1>0 DEF Passed, TypeOK, Underway
<1>6. Returned'
  BY <1>0 DEF Returned, Asked, TypeOK, Commercial
<1>7. Received'
  BY <1>0 DEF Received
<1> QED BY <1>1, <1>2, <1>3, <1>4, <1>5, <1>6, <1>7

LEMMA PreviewKeeps ==
  ASSUME Inv, NEW c \in Calls, NEW i \in Inputs(tool), NEW r \in SUBSET Rights, Preview(c, i, r)
  PROVE  Inv'
<1> USE DEF Inv, OwnerInv, Preview, Begins
<1>0. None # i /\ tool' = tool
  BY OwnerAssumption
<1>1. TypeOK' /\ tool' \in Tried
  BY <1>0 DEF TypeOK
<1>2. Asked'
  BY <1>0 DEF Asked, TypeOK
<1>3. Owned'
  BY <1>0 DEF Owned, TypeOK
<1>4. Followed'
  BY <1>0 DEF Followed, Asked, TypeOK
<1>5. Passed'
  BY <1>0 DEF Passed, Asked, TypeOK, Underway
<1>6. Returned'
  BY <1>0 DEF Returned, Asked, TypeOK, Commercial
<1>7. Received'
  BY <1>0 DEF Received
<1> QED BY <1>1, <1>2, <1>3, <1>4, <1>5, <1>6, <1>7

LEMMA ExecuteKeeps ==
  ASSUME Inv, NEW c \in Calls, NEW i \in Inputs(tool), NEW r \in SUBSET Rights, Execute(c, i, r)
  PROVE  Inv'
<1> DEFINE s == Subject(tool, r)
<1> USE DEF Inv, OwnerInv, Begins
<1>0. /\ None # i /\ tool' = tool /\ None \notin Calls /\ pc[c] = "idle"
      /\ Begins(c, i, r) /\ EarlyRights(tool, i) \subseteq r /\ Guarded(tool, i) /\ i.key
      /\ s \in BOOLEAN
  BY OwnerAssumption DEF Execute, Subject
<1> HIDE DEF s
<1>a. CASE /\ holder[s] = None
           /\ holder' = [holder EXCEPT ![s] = c]
           /\ pc' = [pc EXCEPT ![c] = "running"]
           /\ UNCHANGED <<behind, answer>>
  <2>1. TypeOK' /\ tool' \in Tried
    BY <1>0, <1>a DEF TypeOK
  <2>2. Asked'
    BY <1>0, <1>a DEF Asked, TypeOK
  <2>3. Owned'
    BY <1>0, <1>a DEF Owned, TypeOK, s
  <2>4. Followed'
    BY <1>0, <1>a DEF Followed, Asked, TypeOK
  <2>5. Passed'
    <3>1. \A x \in BOOLEAN : holder[x] # None => holder'[x] = holder[x]
      BY <1>0, <1>a DEF TypeOK
    <3>2. holder'[s] = c
      BY <1>0, <1>a DEF TypeOK
    <3> QED BY <1>0, <1>a, <3>1, <3>2 DEF Passed, Asked, TypeOK, Underway
  <2>6. Returned'
    BY <1>0, <1>a DEF Returned, Asked, TypeOK, Commercial
  <2>7. Received'
    BY <1>0, <1>a DEF Received
  <2> QED BY <2>1, <2>2, <2>3, <2>4, <2>5, <2>6, <2>7
<1>b. CASE /\ holder[s] # None /\ input[holder[s]] = i
           /\ behind' = [behind EXCEPT ![c] = holder[s]]
           /\ pc' = [pc EXCEPT ![c] = "waiting"]
           /\ UNCHANGED <<holder, answer>>
  <2>0. holder[s] \in Calls /\ holder[s] # c /\ Subject(tool, rights[holder[s]]) = s
        /\ pc[holder[s]] # "idle"
    BY <1>0, <1>b DEF TypeOK, Owned
  <2>1. TypeOK' /\ tool' \in Tried
    BY <1>0, <1>b, <2>0 DEF TypeOK
  <2>2. Asked'
    BY <1>0, <1>b DEF Asked, TypeOK
  <2>3. Owned'
    BY <1>0, <1>b DEF Owned, TypeOK
  <2>4. Followed'
    BY <1>0, <1>b, <2>0 DEF Followed, Asked, TypeOK, s
  <2>5. Passed'
    BY <1>0, <1>b, <2>0 DEF Passed, Asked, TypeOK, Underway
  <2>6. Returned'
    BY <1>0, <1>b DEF Returned, Asked, TypeOK, Commercial
  <2>7. Received'
    BY <1>0, <1>b DEF Received
  <2> QED BY <2>1, <2>2, <2>3, <2>4, <2>5, <2>6, <2>7
<1>c. CASE Answer(c, Error) /\ UNCHANGED <<holder, behind>>
  <2> USE ErrorIsReply DEF Answer
  <2>1. TypeOK' /\ tool' \in Tried
    BY <1>0, <1>c DEF TypeOK
  <2>2. Asked'
    BY <1>0, <1>c DEF Asked, TypeOK
  <2>3. Owned'
    BY <1>0, <1>c DEF Owned, TypeOK
  <2>4. Followed'
    BY <1>0, <1>c DEF Followed, Asked, TypeOK
  <2>5. Passed'
    BY <1>0, <1>c DEF Passed, TypeOK, Underway
  <2>6. Returned'
    BY <1>0, <1>c DEF Returned, Asked, TypeOK, Commercial
  <2>7. Received'
    BY <1>0, <1>c DEF Received
  <2> QED BY <2>1, <2>2, <2>3, <2>4, <2>5, <2>6, <2>7
<1> QED BY <1>a, <1>b, <1>c DEF Execute, s

----------------------------------------------------------------------------
(* Calls are answered.                                                     *)

LEMMA ReturnKeeps ==
  ASSUME Inv, NEW c \in Calls, NEW reply \in Replies, Return(c, reply),
         pc[c] \in {"running", "sent"},
         reply # Error => LateRights(tool, input[c]) \subseteq rights[c],
         reply.prices => Commercial(input[c]) /\ "financial" \in rights[c],
         AsksToWrite(tool, input[c]) /\ ~tool.prepares => reply.kind \in {"receipt", "error"},
         reply.kind = "receipt" => AsksToWrite(tool, input[c]) /\ receipt' = input[c],
         reply.kind = "preview" => ~AsksToWrite(tool, input[c]),
         reply.kind = "error" => reply = Error,
         UNCHANGED <<tool, input, rights, behind, known, restarts, renames>>,
         \/ receipt' = receipt
         \/ receipt = None /\ receipt' = input[c] /\ AsksToWrite(tool, input[c])
  PROVE  Inv'
<1> USE DEF Inv, OwnerInv, Return, Answer
<1>0. reply # None /\ None \notin Calls /\ input[c] \in Inputs(tool) /\ input[c] # None
  BY OwnerAssumption DEF Asked, TypeOK
<1>1. TypeOK' /\ tool' \in Tried
  BY <1>0 DEF TypeOK
<1>2. Asked'
  BY <1>0 DEF Asked, TypeOK
<1>h. \A s \in BOOLEAN : holder'[s] # None => holder'[s] = holder[s]
  BY DEF TypeOK
<1>k. \A s \in BOOLEAN : holder[s] # None /\ holder[s] # c => holder'[s] = holder[s]
  BY DEF TypeOK
<1>3. Owned'
  <2> SUFFICES ASSUME NEW s \in BOOLEAN, holder'[s] # None
               PROVE  /\ pc'[holder'[s]] # "idle"
                      /\ Guarded(tool, input[holder'[s]]) /\ input[holder'[s]].key
                      /\ Subject(tool, rights[holder'[s]]) = s
    BY DEF Owned
  <2>1. holder'[s] = holder[s]
    BY <1>h
  <2> QED BY <2>1, <1>0 DEF Owned, TypeOK
<1>4. Followed'
  BY <1>0 DEF Followed, TypeOK
<1>5. Passed'
  <2> SUFFICES ASSUME NEW d \in Calls, pc'[d] \in Underway
               PROVE  /\ answer'[d] = None /\ result'[d] = None
                      /\ EarlyRights(tool, input[d]) \subseteq rights[d]
                      /\ pc'[d] = "waiting" => behind[d] # None /\ Guarded(tool, input[d])
                      /\ Guarded(tool, input[d]) =>
                           input[d].key /\ (behind[d] # None \/ \E s \in BOOLEAN : holder'[s] = d)
                      /\ pc'[d] = "sent" => LateRights(tool, input[d]) \subseteq rights[d]
    BY DEF Passed
  <2>1. d # c /\ pc'[d] = pc[d] /\ answer'[d] = answer[d] /\ result'[d] = result[d]
    BY DEF TypeOK, Underway
  <2>2. \A s \in BOOLEAN : holder[s] = d => holder'[s] = d
    BY <2>1, <1>k, <1>0
  <2> QED BY <2>1, <2>2 DEF Passed
<1>6. Returned'
  <2> SUFFICES ASSUME NEW d \in Calls, result'[d] # None
               PROVE  /\ result'[d] # Error => LateRights(tool, input[d]) \subseteq rights[d]
                      /\ result'[d].prices => Commercial(input[d]) /\ "financial" \in rights[d]
                      /\ AsksToWrite(tool, input[d]) /\ ~tool.prepares
                           => result'[d].kind \in {"receipt", "error"}
                      /\ result'[d].kind = "receipt" => AsksToWrite(tool, input[d]) /\ receipt' = input[d]
                      /\ result'[d].kind = "preview" => ~AsksToWrite(tool, input[d])
                      /\ result'[d].kind = "error" => result'[d] = Error
    BY DEF Returned, Commercial
  <2>1. CASE d = c
    BY <2>1 DEF TypeOK
  <2>2. CASE d # c
    <3>1. result'[d] = result[d] /\ input[d] # None
      BY <2>2 DEF TypeOK, Asked
    <3> QED BY <3>1 DEF Returned
  <2> QED BY <2>1, <2>2
<1>7. Received'
  <2>1. CASE receipt' = receipt
    BY <2>1 DEF Received
  <2>2. CASE receipt = None /\ receipt' = input[c] /\ AsksToWrite(tool, input[c])
    <3>1. Guarded(tool, input[c])
      BY <1>0, <2>2, InputFacts
    <3> QED BY <2>2, <3>1 DEF Received, Passed, Underway
  <2> QED BY <2>1, <2>2
<1> QED BY <1>1, <1>2, <1>3, <1>4, <1>5, <1>6, <1>7

\* Whoever follows the entry of another call got past the same checks.
LEMMA FollowedGrant ==
  ASSUME Inv, NEW c \in Calls, behind[c] # None, ~RunsAgain(tool),
         result[behind[c]] # None, result[behind[c]].prices
  PROVE  "financial" \in rights[c]
<1>1. /\ behind[c] \in Calls /\ input[c] = input[behind[c]]
      /\ Subject(tool, rights[c]) = Subject(tool, rights[behind[c]])
      /\ input[behind[c]] \in Inputs(tool)
  BY OwnerAssumption DEF Inv, OwnerInv, TypeOK, Followed, Asked
<1>2. Commercial(input[behind[c]]) /\ "financial" \in rights[behind[c]]
  BY <1>1 DEF Inv, OwnerInv, Returned
<1>3. tool.family \in MaintenanceFamilies
  <2>1. Agrees(tool)
    BY AgreesByFile, OwnerAssumption DEF Inv
  <2>2. tool.family \in CommercialFamilies => tool.family \in MaintenanceFamilies \/ RunsAgain(tool)
    BY DEF CommercialFamilies, RunsAgain
  <2>3. input[behind[c]].price => tool.priced
    BY <1>1, InputFacts
  <2> QED BY <1>2, <2>1, <2>2, <2>3 DEF Commercial, Agrees
<1> QED BY <1>1, <1>2, <1>3 DEF Subject

LEMMA RepeatKeeps ==
  ASSUME Inv, NEW c \in Calls, Repeat(c)
  PROVE  Inv'
<1> USE DEF Inv, OwnerInv, Repeat
<1>0. behind[c] \in Calls /\ None \notin Calls /\ result[behind[c]] \in Replies
      /\ result[behind[c]] # None
  BY OwnerAssumption DEF TypeOK, Passed, Underway
<1>a. CASE RunsAgain(tool)
  <2>1. pc' = [pc EXCEPT ![c] = "running"] /\ UNCHANGED answer
    BY <1>a
  <2>2. TypeOK' /\ tool' \in Tried
    BY <2>1 DEF TypeOK
  <2>3. Asked' /\ Owned' /\ Followed'
    BY <2>1, <1>0 DEF Asked, Owned, Followed, TypeOK
  <2>4. Passed'
    BY <2>1 DEF Passed, TypeOK, Underway
  <2>5. Returned' /\ Received'
    BY <2>1 DEF Returned, Received, Commercial
  <2> QED BY <2>2, <2>3, <2>4, <2>5
<1>b. CASE ~RunsAgain(tool)
  <2>1. Answer(c, result[behind[c]])
    BY <1>b
  <2>2. TypeOK' /\ tool' \in Tried
    BY <2>1, <1>0 DEF TypeOK, Answer
  <2>3. Asked' /\ Owned' /\ Followed'
    BY <2>1, <1>0 DEF Asked, Owned, Followed, TypeOK, Answer
  <2>4. Passed'
    BY <2>1 DEF Passed, TypeOK, Underway, Answer
  <2>5. Returned' /\ Received'
    BY <2>1 DEF Returned, Received, Commercial, Answer
  <2> QED BY <2>2, <2>3, <2>4, <2>5
<1> QED BY <1>a, <1>b

LEMMA HandleKeeps ==
  ASSUME Inv, NEW c \in Calls, Handle(c)
  PROVE  Inv'
<1> DEFINE late == LateRights(tool, input[c]) \subseteq rights[c]
           asks == Reply("needs_input", FALSE)
           sends == pc' = [pc EXCEPT ![c] = "sent"] /\ UNCHANGED <<result, holder, answer>>
<1>0. /\ pc[c] = "running"
      /\ UNCHANGED <<tool, input, rights, behind, receipt, known, restarts, renames>>
      /\ asks \in Replies /\ ~asks.prices /\ asks.kind = "needs_input"
  BY DEF Handle, Replies, Reply
<1>1. \/ Return(c, Error)
      \/ late /\ (tool.prepares \/ ~AsksToWrite(tool, input[c])) /\ Return(c, asks)
      \/ late /\ sends
  BY Zenon DEF Handle, Unresolved
<1> HIDE DEF asks, sends
<1>2. CASE Return(c, Error)
  BY <1>0, <1>2, ReturnKeeps, ErrorIsReply
<1>3. CASE late /\ (tool.prepares \/ ~AsksToWrite(tool, input[c])) /\ Return(c, asks)
  BY <1>0, <1>3, ReturnKeeps
<1>4. CASE late /\ sends
  <2> USE DEF Inv, OwnerInv, sends
  <2>1. TypeOK' /\ tool' \in Tried
    BY <1>0, <1>4 DEF TypeOK
  <2>2. Asked' /\ Owned' /\ Followed'
    BY <1>0, <1>4 DEF Asked, Owned, Followed, TypeOK
  <2>3. Passed'
    BY <1>0, <1>4 DEF Passed, TypeOK, Underway
  <2>4. Returned' /\ Received'
    BY <1>0, <1>4 DEF Returned, Received, Commercial
  <2> QED BY <2>1, <2>2, <2>3, <2>4
<1> QED BY <1>1, <1>2, <1>3, <1>4

\* The handler asked for the rights to what the Core returns with prices.
LEMMA SentGrant ==
  ASSUME Inv, NEW c \in Calls, pc[c] = "sent", Commercial(input[c]),
         tool.hides => "financial" \in rights[c]
  PROVE  "financial" \in rights[c]
<1>1. LateRights(tool, input[c]) \subseteq rights[c]
  BY DEF Inv, OwnerInv, Passed, Underway
<1>2. Agrees(tool)
  BY AgreesByFile, OwnerAssumption DEF Inv
<1> QED BY <1>1, <1>2 DEF Commercial, LateRights, Agrees

LEMMA CoreKeeps ==
  ASSUME Inv, NEW c \in Calls, Core(c)
  PROVE  Inv'
<1> DEFINE shown == Commercial(input[c]) /\ (tool.hides => "financial" \in rights[c])
<1>0. /\ pc[c] = "sent"
      /\ UNCHANGED <<tool, input, rights, behind, known, restarts, renames>>
      /\ LateRights(tool, input[c]) \subseteq rights[c]
      /\ shown \in BOOLEAN
  BY DEF Core, Inv, OwnerInv, Passed, Underway, Commercial
<1>1. shown => Commercial(input[c]) /\ "financial" \in rights[c]
  BY <1>0, SentGrant
<1>2. \/ UNCHANGED receipt
      \/ receipt = None /\ receipt' = input[c] /\ AsksToWrite(tool, input[c])
  BY DEF Core
<1>3. PICK reply \in {Error, Reply("preview", shown), Reply("receipt", shown)} :
        /\ Return(c, reply)
        /\ AsksToWrite(tool, input[c]) => reply.kind \in {"receipt", "error"}
        /\ reply.kind = "receipt" => AsksToWrite(tool, input[c]) /\ receipt' = input[c]
        /\ reply.kind = "preview" => ~AsksToWrite(tool, input[c])
        /\ reply.kind = "error" => reply = Error
  BY ErrorIsReply DEF Core, Reply
<1>4. reply \in Replies /\ (reply.prices => shown)
  <2>1. \A k \in {"preview", "receipt"} :
          Reply(k, shown) \in Replies /\ (Reply(k, shown).prices => shown)
    BY <1>0 DEF Reply, Replies
  <2> QED BY <1>3, <2>1, ErrorIsReply
<1> HIDE DEF shown
<1> QED BY <1>0, <1>1, <1>2, <1>3, <1>4, ReturnKeeps

----------------------------------------------------------------------------
(* What happens between calls.                                             *)

LEMMA RestartKeeps == ASSUME Inv, Restart PROVE Inv'
<1> USE DEF Inv, OwnerInv, Restart
<1>1. TypeOK' /\ tool' \in Tried
  BY OwnerAssumption DEF TypeOK
<1>2. Asked' /\ Owned' /\ Followed' /\ Passed'
  BY OwnerAssumption DEF Asked, Owned, Followed, Passed, TypeOK, Underway
<1>3. Returned' /\ Received'
  BY DEF Returned, Received, Commercial
<1> QED BY <1>1, <1>2, <1>3

LEMMA RenameKeeps == ASSUME Inv, Rename PROVE Inv'
<1> USE DEF Inv, OwnerInv, Rename
<1>1. TypeOK' /\ tool' \in Tried
  BY OwnerAssumption DEF TypeOK
<1>2. Asked' /\ Owned' /\ Followed' /\ Passed' /\ Returned' /\ Received'
  BY DEF Asked, Owned, Followed, Passed, Returned, Received, Commercial
<1> QED BY <1>1, <1>2

LEMMA IdleKeeps == ASSUME Inv, UNCHANGED vars PROVE Inv'
BY DEF Inv, OwnerInv, vars, TypeOK, Asked, Owned, Followed, Passed, Returned, Received, Commercial

LEMMA OwnerNext == ASSUME Inv, [Next]_vars PROVE Inv'
BY RejectKeeps, PreviewKeeps, ExecuteKeeps, RepeatKeeps, HandleKeeps, CoreKeeps, RestartKeeps,
   RenameKeeps, IdleKeeps DEF Next

----------------------------------------------------------------------------
(* The theorems.                                                           *)

LEMMA OwnerInductive == Spec => []Inv
<1> QED BY OwnerInit, OwnerNext, PTL DEF Spec

\* A call follows an entry of its own input and caller, nothing is sent without
\* the rights, results carry prices only with the grant, a receipt is of a
\* confirmed call with a key: the strengthening the other theorems rest on.
THEOREM OwnerInvariant == Spec => []OwnerInv
BY OwnerInductive, PTL DEF Inv

\* The Core is asked to write only by calls that the write path let pass as
\* confirmed, with a key and an entry: mutationConfirmed sees every field that
\* turns a handler's preview into a write.
THEOREM GuardedWrites == Spec => []OnlyGuardedWrites
<1>1. Inv => OnlyGuardedWrites
  <2> SUFFICES ASSUME Inv PROVE OnlyGuardedWrites
    OBVIOUS
  <2>1. ASSUME NEW c \in Calls, pc[c] = "sent", AsksToWrite(tool, input[c])
        PROVE  /\ input[c].key /\ input[c].mode = "run"
               /\ behind[c] # None \/ \E s \in BOOLEAN : holder[s] = c
    <3>1. input[c] \in Inputs(tool)
      BY <2>1 DEF Inv, OwnerInv, TypeOK, Asked
    <3>2. Guarded(tool, input[c])
      BY <2>1, <3>1, InputFacts
    <3> QED BY <2>1, <3>2 DEF Inv, OwnerInv, Passed, Underway, Guarded
  <2>2. receipt # None => receipt.key /\ receipt.mode = "run"
    BY DEF Inv, OwnerInv, Received, AsksToWrite
  <2> QED BY <2>1, <2>2 DEF OnlyGuardedWrites
<1> QED BY <1>1, OwnerInductive, PTL

\* A key is spent on a preview only by the two tools with two confirmations.
THEOREM KeysForWrites == Spec => []KeysAreForWrites
<1>1. Inv => KeysAreForWrites
  <2> SUFFICES ASSUME Inv, NEW s \in BOOLEAN, holder[s] # None, tool.family \notin TwoConfirmations
               PROVE  AsksToWrite(tool, input[holder[s]])
    BY DEF KeysAreForWrites
  <2>1. Guarded(tool, input[holder[s]])
    BY DEF Inv, OwnerInv, Owned
  <2>2. Agrees(tool)
    BY AgreesByFile, OwnerAssumption DEF Inv
  <2> QED BY <2>1, <2>2 DEF Guarded, Confirmed, AsksToWrite, Agrees
<1> QED BY <1>1, OwnerInductive, PTL

\* Where an answer comes from.
LEMMA AnswerComes ==
  ASSUME Inv, [Next]_vars, NEW c \in Calls, answer'[c] # answer[c]
  PROVE  /\ tool' = tool
         /\ answer[c] = None
         /\ \/ answer'[c] = Error
            \/ /\ answer'[c] = result'[c]
               /\ UNCHANGED <<input, rights>>
            \/ /\ ~RunsAgain(tool) /\ pc[c] = "waiting"
               /\ answer'[c] = result[behind[c]] /\ result[behind[c]] # None
               /\ UNCHANGED <<input, rights>>
<1> USE DEF Inv, OwnerInv, TypeOK, Answer
<1>1. ASSUME NEW d \in Calls, NEW i \in Inputs(tool), NEW r \in SUBSET Rights, Reject(d, i, r)
      PROVE  tool' = tool /\ answer[c] = None /\ answer'[c] = Error
  BY <1>1 DEF Reject, Begins, Asked
<1>2. ASSUME NEW d \in Calls, NEW i \in Inputs(tool), NEW r \in SUBSET Rights, Preview(d, i, r)
      PROVE  FALSE
  BY <1>2 DEF Preview
<1>3. ASSUME NEW d \in Calls, NEW i \in Inputs(tool), NEW r \in SUBSET Rights, Execute(d, i, r)
      PROVE  tool' = tool /\ answer[c] = None /\ answer'[c] = Error
  BY <1>3 DEF Execute, Begins, Asked
<1>4. ASSUME NEW d \in Calls, Repeat(d)
      PROVE  /\ d = c /\ ~RunsAgain(tool) /\ pc[c] = "waiting" /\ tool' = tool /\ answer[c] = None
             /\ answer'[c] = result[behind[c]] /\ result[behind[c]] # None
             /\ UNCHANGED <<input, rights>>
  BY <1>4 DEF Repeat, Passed, Underway
<1>5. ASSUME NEW d \in Calls, NEW reply, Return(d, reply), pc[d] \in Underway,
             UNCHANGED <<tool, input, rights>>
      PROVE  tool' = tool /\ answer[c] = None /\ answer'[c] = result'[c] /\ UNCHANGED <<input, rights>>
  BY <1>5 DEF Return, Passed
<1>6. ASSUME NEW d \in Calls, Handle(d)
      PROVE  \/ \E reply \in {Error, Reply("needs_input", FALSE)} : Return(d, reply)
             \/ UNCHANGED answer
  BY <1>6, Zenon DEF Handle
<1>7. ASSUME NEW d \in Calls, Handle(d)
      PROVE  tool' = tool /\ answer[c] = None /\ answer'[c] = result'[c] /\ UNCHANGED <<input, rights>>
  <2>1. pc[d] \in Underway /\ UNCHANGED <<tool, input, rights>>
    BY <1>7 DEF Handle, Underway
  <2> QED BY <1>5, <1>6, <1>7, <2>1
<1>8. ASSUME NEW d \in Calls, Core(d)
      PROVE  tool' = tool /\ answer[c] = None /\ answer'[c] = result'[c] /\ UNCHANGED <<input, rights>>
  <2>1. pc[d] \in Underway /\ UNCHANGED <<tool, input, rights>>
    BY <1>8 DEF Core, Underway
  <2>2. \E reply : Return(d, reply)
    BY <1>8 DEF Core
  <2> QED BY <1>5, <2>1, <2>2
<1>9. ASSUME Restart \/ Rename \/ UNCHANGED vars PROVE FALSE
  BY <1>9 DEF Restart, Rename, vars
<1> QED BY <1>1, <1>2, <1>3, <1>4, <1>7, <1>8, <1>9 DEF Next

\* A call keeps its rights and its input once it began.
LEMMA CallKeeps ==
  ASSUME Inv, [Next]_vars, NEW c \in Calls, answer[c] # None
  PROVE  UNCHANGED tool /\ rights'[c] = rights[c]
<1>1. pc[c] # "idle"
  BY DEF Inv, OwnerInv, Asked
<1>2. ASSUME NEW d \in Calls, NEW i \in Inputs(tool), NEW r \in SUBSET Rights,
             Reject(d, i, r) \/ Preview(d, i, r) \/ Execute(d, i, r)
      PROVE  UNCHANGED tool /\ rights'[c] = rights[c]
  <2>1. Begins(d, i, r)
    BY <1>2 DEF Reject, Preview, Execute
  <2> QED BY <1>1, <2>1 DEF Begins, Inv, OwnerInv, TypeOK
<1>3. ASSUME \/ \E d \in Calls : Repeat(d) \/ Handle(d) \/ Core(d)
             \/ Restart \/ Rename \/ UNCHANGED vars
      PROVE  UNCHANGED <<tool, rights>>
  BY <1>3 DEF Repeat, Handle, Core, Restart, Rename, vars
<1> QED BY <1>2, <1>3 DEF Next

\* Prices reach nobody without the financial right, not even through answers
\* that were stored while another call of the same user had it.
THEOREM CommercialGrant == Spec => []NoCommercialWithoutGrant
<1>1. Init => NoCommercialWithoutGrant
  BY DEF Init, NoCommercialWithoutGrant
<1>2. Inv /\ Inv' /\ NoCommercialWithoutGrant /\ [Next]_vars => NoCommercialWithoutGrant'
  <2> SUFFICES ASSUME Inv, Inv', NoCommercialWithoutGrant, [Next]_vars, NEW c \in Calls,
                      answer'[c] # None, answer'[c].prices
               PROVE  "financial" \in rights'[c]
    BY DEF NoCommercialWithoutGrant
  <2>1. CASE answer'[c] = answer[c]
    BY <2>1, CallKeeps DEF NoCommercialWithoutGrant
  <2>2. CASE answer'[c] # answer[c]
    <3>1. answer'[c] # Error
      BY ErrorIsReply
    <3>2. CASE answer'[c] = result'[c]
      BY <3>2 DEF Inv, OwnerInv, Returned
    <3>3. CASE /\ ~RunsAgain(tool) /\ pc[c] = "waiting" /\ answer'[c] = result[behind[c]]
               /\ result[behind[c]] # None /\ UNCHANGED <<input, rights>>
      BY <3>3, FollowedGrant DEF Inv, OwnerInv, Passed, Underway
    <3> QED BY <2>2, <3>1, <3>2, <3>3, AnswerComes
  <2> QED BY <2>1, <2>2
<1> QED BY <1>1, <1>2, OwnerInductive, PTL DEF Spec

\* Tools for administrators answer administrators, except the families whose
\* stored answers are given without asking.
THEOREM RightsWhenAnswered == Spec => []RightsAtAnswer
<1>1. Init => RightsAtAnswer
  BY DEF Init, RightsAtAnswer, AdminsOnly
<1>2. Inv /\ Inv' /\ RightsAtAnswer /\ [Next]_vars => RightsAtAnswer'
  <2> SUFFICES ASSUME Inv, Inv', RightsAtAnswer, [Next]_vars, NEW c \in Calls,
                      tool'.family \notin OpenFamilies, "admin" \in tool'.late,
                      answer'[c] # None, answer'[c] # Error
               PROVE  "admin" \in rights'[c]
    BY DEF RightsAtAnswer, AdminsOnly
  <2>1. CASE answer'[c] = answer[c]
    BY <2>1, CallKeeps DEF RightsAtAnswer, AdminsOnly
  <2>2. CASE answer'[c] # answer[c]
    <3>1. tool' = tool
      BY <2>2, AnswerComes
    <3>2. CASE answer'[c] = result'[c]
      BY <3>2 DEF Inv, OwnerInv, Returned, LateRights
    <3>3. CASE ~RunsAgain(tool) /\ pc[c] = "waiting" /\ UNCHANGED <<input, rights>>
      <4>1. EarlyRights(tool, input[c]) \subseteq rights[c] /\ input[c].mode = "run"
        BY <3>3 DEF Inv, OwnerInv, Passed, Underway, Guarded
      <4>2. AdminFirst(tool)
        BY <3>1, <3>3, AgreesByFile, OwnerAssumption DEF Inv, Agrees
      <4> QED BY <3>3, <4>1, <4>2 DEF EarlyRights
    <3> QED BY <2>2, <3>2, <3>3, AnswerComes
  <2> QED BY <2>1, <2>2
<1> QED BY <1>1, <1>2, OwnerInductive, PTL DEF Spec

\* The repetition of a written change asks nothing and previews nothing, for
\* every tool whose handler does not prepare the change itself.
THEOREM RepeatedWrite ==
  ASSUME \A t \in Tried : ~t.prepares PROVE Spec => RepeatNeverAsks
<1>1. Inv /\ Inv' /\ [Next]_vars =>
        [\A c \in Calls :
           receipt # None /\ receipt = input[c] /\ answer[c] = None /\ answer'[c] # None
             => answer'[c].kind \in {"receipt", "error"}]_vars
  <2> SUFFICES ASSUME Inv, Inv', [Next]_vars, NEW c \in Calls,
                      receipt # None, receipt = input[c], answer[c] = None, answer'[c] # None
               PROVE  answer'[c].kind \in {"receipt", "error"}
    OBVIOUS
  <2>1. AsksToWrite(tool, input[c]) /\ ~tool.prepares /\ tool' = tool
    BY AnswerComes DEF Inv, OwnerInv, Received
  <2>2. CASE answer'[c] = Error
    BY <2>2, ErrorIsReply
  <2>3. CASE answer'[c] = result'[c] /\ UNCHANGED <<input, rights>>
    BY <2>1, <2>3 DEF Inv, OwnerInv, Returned, AsksToWrite
  <2>4. CASE /\ pc[c] = "waiting" /\ answer'[c] = result[behind[c]]
             /\ result[behind[c]] # None
    <3>1. behind[c] \in Calls /\ input[c] = input[behind[c]]
      BY <2>4 DEF Inv, OwnerInv, TypeOK, Passed, Followed, Underway
    <3> QED BY <2>1, <2>4, <3>1 DEF Inv, OwnerInv, Returned
  <2> QED BY <2>2, <2>3, <2>4, AnswerComes
<1> QED BY <1>1, OwnerInductive, PTL DEF Spec, RepeatNeverAsks

\* A failed call of tasks and of maintenance leaves no entry behind.
THEOREM FailuresForgotten == Spec => []FailedMaintenanceRepeatable
<1>1. Init => FailedMaintenanceRepeatable
  BY DEF Init, FailedMaintenanceRepeatable
<1>2. Inv /\ FailedMaintenanceRepeatable /\ [Next]_vars => FailedMaintenanceRepeatable'
  <2> SUFFICES ASSUME Inv, FailedMaintenanceRepeatable, [Next]_vars, NEW s \in BOOLEAN,
                      tool'.family \in RepeatableFamilies, holder'[s] # None
               PROVE  result'[holder'[s]] # Error
    BY DEF FailedMaintenanceRepeatable
  <2> USE ErrorIsReply, OwnerAssumption DEF Inv, OwnerInv, TypeOK
  <2>1. ASSUME NEW c \in Calls, NEW reply, Return(c, reply), UNCHANGED tool
        PROVE  result'[holder'[s]] # Error
    <3>1. GivesKeyBack(tool)
      BY <2>1 DEF RepeatableFamilies, MaintenanceFamilies, GivesKeyBack
    <3>2. holder'[s] = holder[s] /\ holder[s] \in Calls
      BY <2>1 DEF Return
    <3>3. CASE holder[s] = c
      BY <2>1, <3>1, <3>2, <3>3 DEF Return
    <3>4. CASE holder[s] # c
      BY <2>1, <3>2, <3>4 DEF Return, FailedMaintenanceRepeatable
    <3> QED BY <3>3, <3>4
  <2>2. ASSUME NEW c \in Calls, NEW i \in Inputs(tool), NEW r \in SUBSET Rights,
               Reject(c, i, r) \/ Preview(c, i, r)
        PROVE  result'[holder'[s]] # Error
    BY <2>2 DEF Reject, Preview, Begins, FailedMaintenanceRepeatable
  <2>3. ASSUME NEW c \in Calls, NEW i \in Inputs(tool), NEW r \in SUBSET Rights, Execute(c, i, r)
        PROVE  result'[holder'[s]] # Error
    BY <2>3 DEF Execute, Begins, Asked, FailedMaintenanceRepeatable
  <2>4. ASSUME NEW c \in Calls, Repeat(c) PROVE result'[holder'[s]] # Error
    BY <2>4 DEF Repeat, FailedMaintenanceRepeatable
  <2>5. ASSUME NEW c \in Calls, Handle(c) PROVE result'[holder'[s]] # Error
    <3>1. \/ \E reply \in {Error, Reply("needs_input", FALSE)} : Return(c, reply)
          \/ UNCHANGED <<result, holder>>
      BY <2>5, Zenon DEF Handle
    <3>2. UNCHANGED tool
      BY <2>5 DEF Handle
    <3> QED BY <2>1, <3>1, <3>2 DEF FailedMaintenanceRepeatable
  <2>6. ASSUME NEW c \in Calls, Core(c) PROVE result'[holder'[s]] # Error
    <3>1. UNCHANGED tool /\ \E reply : Return(c, reply)
      BY <2>6 DEF Core
    <3> QED BY <2>1, <3>1
  <2>7. CASE Restart
    BY <2>7 DEF Restart
  <2>8. CASE Rename \/ UNCHANGED vars
    BY <2>8 DEF Rename, vars, FailedMaintenanceRepeatable
  <2> QED BY <2>2, <2>3, <2>4, <2>5, <2>6, <2>7, <2>8 DEF Next
<1> QED BY <1>1, <1>2, OwnerInductive, PTL DEF Spec

----------------------------------------------------------------------------
(* The refinement of KeyedChange.                                          *)

LEMMA SameError == Promise!Error = Error
BY DEF Promise!Error, Error, Reply

\* The caller who gets a stored answer was asked for the rights to it, but for
\* the administrator's in the open families.
LEMMA FollowedSees ==
  ASSUME Inv, NEW c \in Calls, pc[c] = "waiting", ~RunsAgain(tool),
         result[behind[c]] # None, result[behind[c]] # Error
  PROVE  Sees(tool, input[c]) \subseteq rights[c]
<1>1. /\ input[c] \in Inputs(tool)
      /\ EarlyRights(tool, input[c]) \subseteq rights[c]
      /\ input[c].mode = "run"
  BY DEF Inv, OwnerInv, TypeOK, Asked, Passed, Underway, Guarded
<1>2. /\ tool.late = {} \/ tool.late = {"admin"}
      /\ "admin" \in tool.late => AdminFirst(tool) \/ tool.family \in OpenFamilies
      /\ tool.priced => tool.family \in MaintenanceFamilies
  BY AgreesByFile, AsksAgainByFile, OwnerAssumption DEF Inv, Agrees, AsksAgain
<1>3. input[c].price => "financial" \in rights[c]
  BY <1>1, <1>2, InputFacts DEF EarlyRights
<1>4. AdminFirst(tool) => "admin" \in rights[c]
  BY <1>1 DEF EarlyRights
<1> QED BY <1>2, <1>3, <1>4 DEF Sees, LateRights

\* What the rules on replies allow to be told is told by a step of the promise.
LEMMA Tellable ==
  ASSUME Inv, NEW c \in Calls, NEW reply \in Replies, reply # Error,
         input[c] \in Inputs(tool), input[c] # None, answer[c] = None,
         Sees(tool, input[c]) \subseteq rights[c],
         reply.prices => "financial" \in rights[c],
         AsksToWrite(tool, input[c]) /\ ~tool.prepares => reply.kind \in {"receipt", "error"},
         reply.kind = "receipt" => AsksToWrite(tool, input[c]) /\ receipt = input[c],
         reply.kind = "preview" => ~AsksToWrite(tool, input[c]),
         reply.kind = "error" => reply = Error,
         AsksToWrite(tool, input[c]) => input[c].key,
         answer' = [answer EXCEPT ![c] = reply],
         UNCHANGED <<tool, input, rights, receipt>>
  PROVE  Promise!Show(c) \/ Promise!Confirm(c)
<1>1. /\ reply.kind \in {"needs_input", "preview", "receipt"} /\ reply.prices \in BOOLEAN
      /\ reply = [kind |-> reply.kind, prices |-> reply.prices]
  BY DEF Replies
<1>2. Promise!Tells(c, reply.kind)
  BY <1>1 DEF Promise!Tells
<1>3. Promise!Open(c)
  BY DEF Promise!Open
<1>4. CASE reply.kind = "receipt"
  <2>1. Confirms(tool, input[c])
    BY <1>4, InputFacts DEF Confirms
  <2> QED BY <1>2, <1>3, <1>4, <2>1 DEF Promise!Confirm
<1>5. CASE reply.kind = "preview"
  BY <1>2, <1>3, <1>5 DEF Promise!Show, Confirms
<1>6. CASE reply.kind = "needs_input"
  BY <1>2, <1>3, <1>6 DEF Promise!Show, Confirms
<1> QED BY <1>1, <1>4, <1>5, <1>6

LEMMA PromiseBegin ==
  ASSUME Inv, NEW c \in Calls, NEW i \in Inputs(tool), NEW r \in SUBSET Rights,
         Reject(c, i, r) \/ Preview(c, i, r) \/ Execute(c, i, r)
  PROVE  Promise!Begin(c)
<1>1. Begins(c, i, r)
  BY DEF Reject, Preview, Execute
<1>2. answer' = answer \/ answer' = [answer EXCEPT ![c] = Error]
  BY DEF Reject, Preview, Execute, Answer
<1>3. input[c] = None
  BY <1>1 DEF Begins, Inv, OwnerInv, Asked
<1> QED BY <1>1, <1>2, <1>3, SameError DEF Promise!Begin, Begins

LEMMA PromiseRepeat ==
  ASSUME Inv, NEW c \in Calls, Repeat(c)
  PROVE  [Promise!Next]_(Promise!vars)
<1>1. CASE RunsAgain(tool)
  BY <1>1 DEF Repeat, Promise!vars
<1>2. CASE ~RunsAgain(tool)
  <2> DEFINE d == behind[c]
  <2>1. /\ pc[c] = "waiting" /\ result[d] # None
        /\ answer' = [answer EXCEPT ![c] = result[d]]
        /\ UNCHANGED <<tool, input, rights, receipt>>
    BY <1>2 DEF Repeat, Answer
  <2>2. /\ answer[c] = None /\ d # None /\ input[c] # None /\ input[c] \in Inputs(tool)
        /\ Guarded(tool, input[c]) /\ input[c].key
    BY <2>1 DEF Inv, OwnerInv, TypeOK, Asked, Passed, Underway
  <2>3. d \in Calls /\ result[d] \in Replies /\ input[c] = input[d]
    BY <2>1, <2>2 DEF Inv, OwnerInv, TypeOK, Followed
  <2>4. CASE result[d] = Error
    <3>1. Promise!Fail(c)
      BY <2>1, <2>2, <2>4, SameError DEF Promise!Fail, Promise!Open
    <3> QED BY <3>1 DEF Promise!Next
  <2>5. CASE result[d] # Error
    <3>1. Sees(tool, input[c]) \subseteq rights[c]
      BY <1>2, <2>1, <2>5, FollowedSees
    <3>2. result[d].prices => "financial" \in rights[c]
      BY <1>2, <2>1, <2>2, FollowedGrant
    <3>3. /\ AsksToWrite(tool, input[c]) /\ ~tool.prepares => result[d].kind \in {"receipt", "error"}
          /\ result[d].kind = "receipt" => AsksToWrite(tool, input[c]) /\ receipt = input[c]
          /\ result[d].kind = "preview" => ~AsksToWrite(tool, input[c])
          /\ result[d].kind = "error" => result[d] = Error
      BY <2>1, <2>3 DEF Inv, OwnerInv, Returned
    <3> HIDE DEF d
    <3>4. Promise!Show(c) \/ Promise!Confirm(c)
      BY <2>1, <2>2, <2>3, <2>5, <3>1, <3>2, <3>3, Tellable
    <3> QED BY <3>4 DEF Promise!Next
  <2> QED BY <2>4, <2>5
<1> QED BY <1>1, <1>2

\* A call that is underway and has not followed a stored answer.
LEMMA UnderwayFacts ==
  ASSUME Inv, NEW c \in Calls, pc[c] \in {"running", "sent"}
  PROVE  /\ answer[c] = None /\ input[c] # None /\ input[c] \in Inputs(tool)
         /\ AsksToWrite(tool, input[c]) => Confirms(tool, input[c])
         /\ Sees(tool, input[c]) \subseteq LateRights(tool, input[c])
<1>1. /\ answer[c] = None /\ input[c] # None /\ input[c] \in Inputs(tool)
      /\ Guarded(tool, input[c]) => input[c].key
  BY DEF Inv, OwnerInv, TypeOK, Asked, Passed, Underway
<1>2. AsksToWrite(tool, input[c]) => Guarded(tool, input[c])
  BY <1>1, InputFacts
<1> QED BY <1>1, <1>2 DEF Confirms, Sees

LEMMA PromiseHandle ==
  ASSUME Inv, NEW c \in Calls, Handle(c)
  PROVE  [Promise!Next]_(Promise!vars)
<1> DEFINE late == LateRights(tool, input[c]) \subseteq rights[c]
           asks == Reply("needs_input", FALSE)
<1>0. /\ pc[c] = "running"
      /\ UNCHANGED <<tool, input, rights, receipt>>
      /\ asks \in Replies /\ ~asks.prices /\ asks.kind = "needs_input" /\ asks # Error
  BY DEF Handle, Replies, Reply, Error
<1>1. \/ Return(c, Error)
      \/ late /\ (tool.prepares \/ ~AsksToWrite(tool, input[c])) /\ Return(c, asks)
      \/ UNCHANGED answer
  BY Zenon DEF Handle, Unresolved
<1> HIDE DEF asks
<1>2. /\ answer[c] = None /\ input[c] # None /\ input[c] \in Inputs(tool)
      /\ AsksToWrite(tool, input[c]) => input[c].key
      /\ Sees(tool, input[c]) \subseteq LateRights(tool, input[c])
  BY <1>0, UnderwayFacts DEF Confirms
<1>3. CASE Return(c, Error)
  <2>1. Promise!Fail(c)
    BY <1>0, <1>2, <1>3, SameError DEF Promise!Fail, Promise!Open, Return, Answer
  <2> QED BY <2>1 DEF Promise!Next
<1>4. CASE late /\ (tool.prepares \/ ~AsksToWrite(tool, input[c])) /\ Return(c, asks)
  <2>1. answer' = [answer EXCEPT ![c] = asks]
    BY <1>4 DEF Return, Answer
  <2>2. Promise!Show(c) \/ Promise!Confirm(c)
    BY <1>0, <1>2, <1>4, <2>1, Tellable
  <2> QED BY <2>2 DEF Promise!Next
<1>5. CASE UNCHANGED answer
  BY <1>0, <1>5 DEF Promise!vars
<1> QED BY <1>1, <1>3, <1>4, <1>5

LEMMA PromiseCore ==
  ASSUME Inv, NEW c \in Calls, Core(c)
  PROVE  Promise!Next
<1> DEFINE shown == Commercial(input[c]) /\ (tool.hides => "financial" \in rights[c])
<1>0. /\ pc[c] = "sent" /\ shown \in BOOLEAN
      /\ UNCHANGED <<tool, input, rights>>
      /\ LateRights(tool, input[c]) \subseteq rights[c]
  BY DEF Core, Inv, OwnerInv, Passed, Underway, Commercial
<1>1. shown => "financial" \in rights[c]
  BY <1>0, SentGrant
<1>2. /\ answer[c] = None /\ input[c] # None /\ input[c] \in Inputs(tool)
      /\ AsksToWrite(tool, input[c]) => Confirms(tool, input[c])
      /\ Sees(tool, input[c]) \subseteq rights[c]
  BY <1>0, UnderwayFacts
<1>3. Promise!Open(c)
  BY <1>0, <1>2 DEF Promise!Open
<1>4. \A kind \in {"preview", "receipt"} :
        answer' = [answer EXCEPT ![c] = Reply(kind, shown)] => Promise!Tells(c, kind)
  BY <1>0, <1>1, <1>2 DEF Promise!Tells, Reply
<1>5. \A reply : Return(c, reply) => answer' = [answer EXCEPT ![c] = reply]
  BY DEF Return, Answer
<1>6. CASE ~AsksToWrite(tool, input[c]) /\ Return(c, Reply("preview", shown)) /\ UNCHANGED receipt
  <2>1. Promise!Show(c)
    BY <1>3, <1>4, <1>5, <1>6 DEF Promise!Show, Confirms
  <2> QED BY <2>1 DEF Promise!Next
<1>7. CASE /\ AsksToWrite(tool, input[c]) /\ receipt = input[c]
           /\ Return(c, Reply("receipt", shown)) /\ UNCHANGED receipt
  <2>1. Promise!Confirm(c)
    BY <1>2, <1>3, <1>4, <1>5, <1>7 DEF Promise!Confirm
  <2> QED BY <2>1 DEF Promise!Next
<1>8. CASE Return(c, Error) /\ UNCHANGED receipt
  <2>1. Promise!Fail(c)
    BY <1>3, <1>5, <1>8, SameError DEF Promise!Fail
  <2> QED BY <2>1 DEF Promise!Next
<1>9. CASE /\ AsksToWrite(tool, input[c]) /\ receipt = None /\ receipt' = input[c]
           /\ Return(c, Reply("receipt", shown)) \/ Return(c, Error)
  <2>1. Promise!Tells(c, "receipt") \/ answer' = [answer EXCEPT ![c] = Promise!Error]
    BY <1>4, <1>5, <1>9, SameError
  <2>2. Promise!Write(c)
    BY <1>0, <1>2, <1>3, <1>9, <2>1 DEF Promise!Write
  <2> QED BY <2>2 DEF Promise!Next
<1> HIDE DEF shown
<1>10. \/ ~AsksToWrite(tool, input[c]) /\ Return(c, Reply("preview", shown)) /\ UNCHANGED receipt
       \/ /\ AsksToWrite(tool, input[c]) /\ receipt = input[c]
          /\ Return(c, Reply("receipt", shown)) /\ UNCHANGED receipt
       \/ Return(c, Error) /\ UNCHANGED receipt
       \/ /\ AsksToWrite(tool, input[c]) /\ receipt = None /\ receipt' = input[c]
          /\ Return(c, Reply("receipt", shown)) \/ Return(c, Error)
  BY DEF Core, shown
<1> QED BY <1>6, <1>7, <1>8, <1>9, <1>10

\* executeMutationTool and the handlers behind it keep the promise of
\* KeyedChange: whatever is retried, repeated, redacted or cut off, it is one
\* confirmed change by a caller who may make it, true answers, and no answer
\* beyond the rights of who gets it (but for finding 3, which Sees names).
THEOREM OwnerPromise == Spec => ChangesAsConfirmed
<1>1. Init => Promise!Init
  BY DEF Init, Promise!Init
<1>2. Inv /\ [Next]_vars => [Promise!Next]_(Promise!vars)
  <2> SUFFICES ASSUME Inv, [Next]_vars PROVE [Promise!Next]_(Promise!vars)
    OBVIOUS
  <2>1. ASSUME NEW c \in Calls, NEW i \in Inputs(tool), NEW r \in SUBSET Rights,
               Reject(c, i, r) \/ Preview(c, i, r) \/ Execute(c, i, r)
        PROVE  Promise!Next
    BY <2>1, PromiseBegin DEF Promise!Next
  <2>2. ASSUME NEW c \in Calls, Repeat(c) \/ Handle(c) \/ Core(c)
        PROVE  [Promise!Next]_(Promise!vars)
    BY <2>2, PromiseRepeat, PromiseHandle, PromiseCore
  <2>3. CASE Restart \/ Rename \/ UNCHANGED vars
    BY <2>3 DEF Restart, Rename, vars, Promise!vars
  <2> QED BY <2>1, <2>2, <2>3 DEF Next
<1> QED BY <1>1, <1>2, OwnerInductive, PTL DEF Spec, ChangesAsConfirmed, Promise!Spec

----------------------------------------------------------------------------
(* The lists of the write path, as ToolScopes has them.                    *)

\* ToolScopes, of which only the tables are used.
S == INSTANCE ToolScopes WITH
  tool <- "none", input <- "plain", token <- {}, byAdmin <- FALSE, writes <- TRUE,
  reply <- "none", challenge <- {}

\* The name of a tool there.
Name(t) == <<t.family, t.op>>

\* Of procurement, the tools whose preview the Core makes are those of the lists
\* of its workflows.
ByWorkflow(t) == t.family \in S!ProcurementEntities => Name(t) \in S!ProcurementWorkflows

LEMMA ByWorkflowByFile == \A t \in OwnerTools : ByWorkflow(t)
<1> USE DEF ByWorkflow, Tools, Name, S!ProcurementEntities, MaintenanceFamilies
<1>1. \A t \in Planner : ByWorkflow(t)
  <2>1. \A t \in Planner : t.family \in {"planner.plans", "planner.tasks"}
    BY DEF Planner, Embedded, OneOfTwo
  <2> QED BY <2>1
<1>2. \A t \in Jobs : ByWorkflow(t)
  BY JobsShape DEF OneFamily
<1>3. \A t \in Requirements : ByWorkflow(t)
  BY RequirementsShape DEF OneFamily
<1>4. \A t \in Positions : ByWorkflow(t)
  BY PositionsShape DEF OneFamily
<1>5. \A t \in JobEquipment : ByWorkflow(t)
  BY DEF JobEquipment, With
<1>6. \A t \in Assignments : ByWorkflow(t)
  BY DEF Assignments, Embedded, Lifecycle
<1>7. \A t \in EquipmentCreate : ByWorkflow(t)
  BY DEF EquipmentCreate
<1>8. \A t \in EquipmentCatalog : ByWorkflow(t)
  BY DEF EquipmentCatalog, Embedded, Lifecycle
<1>9. \A t \in Staffing : ByWorkflow(t)
  BY DEF Staffing, Crud
<1>10. \A t \in RentalMasters : ByWorkflow(t)
  BY DEF RentalMasters, Embedded, Crud
<1>11. \A t \in AssignDevice : ByWorkflow(t)
  BY DEF AssignDevice, With
<1>12. \A t \in Inventory : ByWorkflow(t)
  BY DEF Inventory, Crud
<1>13. \A t \in Tasks : ByWorkflow(t)
  BY DEF Tasks, TaskCreate, Crud
<1>14. \A t \in Relations : ByWorkflow(t)
  BY DEF Relations, Crud
<1>15. \A t \in Cases : ByWorkflow(t)
  BY DEF Cases, Crud
<1>16. \A t \in CaseContents : ByWorkflow(t)
  BY DEF CaseContents
<1>17. \A t \in CaseTemplates : ByWorkflow(t)
  BY DEF CaseTemplates, Crud
<1>18. \A t \in CaseWorkflows : ByWorkflow(t)
  BY DEF CaseWorkflows
<1>19. \A t \in Maintenance : ByWorkflow(t)
  BY MaintenanceShape DEF OneFamily
<1>20. \A t \in MaintenancePlans : ByWorkflow(t)
  BY DEF MaintenancePlans, Crud
<1>21. \A t \in MasterLifecycle : ByWorkflow(t)
  BY DEF MasterLifecycle, Lifecycle
<1>22. \A t \in CategoryLifecycle : ByWorkflow(t)
  BY DEF CategoryLifecycle, Lifecycle
<1>23. \A t \in DeviceBulk : ByWorkflow(t)
  BY DEF DeviceBulk
<1>24. \A t \in ProductBulk : ByWorkflow(t)
  BY DEF ProductBulk, With
<1>25. \A t \in AdamHall : ByWorkflow(t)
  BY DEF AdamHall, S!ProcurementWorkflows, S!SupplierSend, S!Approval, S!Receive, S!Lifecycle
<1>26. \A t \in AmazonSend : ByWorkflow(t)
  BY DEF AmazonSend, S!ProcurementWorkflows, S!SupplierSend, S!Approval, S!Receive, S!Lifecycle
<1>27. \A t \in Reconcile : ByWorkflow(t)
  BY DEF Reconcile, S!ProcurementWorkflows, S!SupplierSend, S!Approval, S!Receive, S!Lifecycle
<1>28. \A t \in RequisitionOrder : ByWorkflow(t)
  BY DEF RequisitionOrder, S!ProcurementWorkflows, S!SupplierSend, S!Approval, S!Receive, S!Lifecycle
<1>29. \A t \in Approvals : ByWorkflow(t)
  BY DEF Approvals, S!ProcurementWorkflows, S!SupplierSend, S!Approval, S!Receive, S!Lifecycle
<1>30. \A t \in GoodsReceipt : ByWorkflow(t)
  BY DEF GoodsReceipt, S!ProcurementWorkflows, S!SupplierSend, S!Approval, S!Receive, S!Lifecycle
<1>31. \A t \in OrderDrafts : ByWorkflow(t)
  BY DEF OrderDrafts, S!ProcurementWorkflows, S!SupplierSend, S!Approval, S!Receive, S!Lifecycle
<1>32. \A t \in ProcurementMasters : ByWorkflow(t)
  BY DEF ProcurementMasters, Lifecycle, S!ProcurementWorkflows, S!SupplierSend, S!Approval, S!Receive, S!Lifecycle
<1>33. \A t \in ProcurementWorkflows : ByWorkflow(t)
  BY DEF ProcurementWorkflows, Lifecycle, S!ProcurementWorkflows, S!SupplierSend, S!Approval, S!Receive, S!Lifecycle
<1>34. \A t \in RequisitionDrafts : ByWorkflow(t)
  <2>1. \A t \in RequisitionDrafts :
          t.family = "procurement.requisitions" /\ t.op \in {"create", "update", "submit"}
    BY DEF RequisitionDrafts
  <2> QED BY <2>1 DEF S!ProcurementWorkflows
<1> QED
  BY <1>1, <1>2, <1>3, <1>4, <1>5, <1>6, <1>7, <1>8, <1>9, <1>10, <1>11, <1>12,
     <1>13, <1>14, <1>15, <1>16, <1>17, <1>18, <1>19, <1>20, <1>21, <1>22,
     <1>23, <1>24, <1>25, <1>26, <1>27, <1>28, <1>29, <1>30, <1>31, <1>32,
     <1>33, <1>34 DEF OwnerTools

\* ToolScopes and OwnerWrites have the lists of the write path in two forms, by
\* name and by family.  On the tools that both know, they agree: which calls are
\* repeated at the Core, which failed calls give their key back, and which tools
\* ask for an administrator before the store.
THEOREM TablesAgree ==
  \A t \in OwnerTools :
    /\ RunsAgain(t) <=> S!OwnerReplay(Name(t))
    /\ GivesKeyBack(t) <=> S!DurableRetry(Name(t))
    /\ AdminFirst(t) <=> S!NeedsAdmin(Name(t))
<1> SUFFICES ASSUME NEW t \in OwnerTools
             PROVE  /\ RunsAgain(t) <=> S!OwnerReplay(Name(t))
                    /\ GivesKeyBack(t) <=> S!DurableRetry(Name(t))
                    /\ AdminFirst(t) <=> S!NeedsAdmin(Name(t))
  OBVIOUS
<1>1. t.family \in S!ProcurementEntities => Name(t) \in S!ProcurementWorkflows
  BY ByWorkflowByFile DEF ByWorkflow
<1>2. t.family \notin S!ProcurementEntities => Name(t) \notin S!ProcurementWorkflows
  BY DEF Name, S!ProcurementEntities, S!ProcurementWorkflows, S!SupplierSend, S!Approval, S!Receive
<1>3. Name(t)[1] = t.family /\ (\A f, o : Name(t) = <<f, o>> <=> t.family = f /\ t.op = o)
  BY DEF Name
<1>4. RunsAgain(t) <=> S!OwnerReplay(Name(t))
  BY <1>1, <1>2, <1>3
     DEF RunsAgain, S!OwnerReplay, S!ProcurementEntities, S!PlannerEntities, S!RentalEntities
<1>5. GivesKeyBack(t) <=> S!DurableRetry(Name(t))
  BY <1>1, <1>2, <1>3
     DEF GivesKeyBack, RunsAgain, S!DurableRetry, S!ProcurementEntities, S!PlannerEntities,
         S!RentalEntities, S!CategoryEntities, S!OrderEntities
<1>6. AdminFirst(t) <=> S!NeedsAdmin(Name(t))
  <2>1. CASE t.family \notin S!ProcurementEntities
    BY <1>3, <2>1
       DEF AdminFirst, Name, S!NeedsAdmin, S!CostChecked, S!ProcurementEntities, S!RentalEntities,
           S!CategoryEntities, S!OrderEntities, S!SupplierSend, S!Approval, S!Receive
  <2>2. CASE t.family = "procurement.requisitions"
    BY <1>3, <2>2
       DEF AdminFirst, Name, S!NeedsAdmin, S!CostChecked, S!ProcurementEntities, S!RentalEntities,
           S!CategoryEntities, S!OrderEntities, S!SupplierSend, S!Approval, S!Receive
  <2>3. CASE t.family \in S!ProcurementEntities \ {"procurement.requisitions"}
    <3>1. Name(t) \in S!ProcurementWorkflows
      BY <1>1, <2>3
    <3>2. S!NeedsAdmin(Name(t))
      BY <2>3, <3>1 DEF Name, S!NeedsAdmin, S!ProcurementWorkflows, S!ProcurementEntities
    <3>3. AdminFirst(t)
      BY <2>3 DEF AdminFirst, S!ProcurementEntities
    <3> QED BY <3>2, <3>3
  <2> QED BY <2>1, <2>2, <2>3
<1> QED BY <1>4, <1>5, <1>6

=============================================================================
