-------------------------- MODULE CollectionSetup --------------------------
(***************************************************************************)
(* What a project is set up to collect: its metric assignments             *)
(* (create_assignment of ProjectService), the items of its custom          *)
(* datasheets (CustomDatasheetService) and the forms that show them        *)
(* (FormConfigService).                                                    *)
(*                                                                         *)
(* Assignments are never deleted, and their metric and place never change. *)
(* Each request is one transaction and one step; overlapping ones are not  *)
(* modelled.  Steps, titles and order of the fields of a form are left     *)
(* out, and so is what a datasheet shows next to its items.                *)
(***************************************************************************)
EXTENDS Naturals, FiniteSets

CONSTANTS
  Metrics, TenantMetrics, Occurrences,  \* shared elements, and how many requirement items need each
  Entities, Facilities, Nowhere,        \* company entities, and the absence of one
  Drafts,                               \* the sets of fields that users submit
  MaxAssignments, MaxItems, MaxForms

VARIABLES
  metrics,     \* the shared elements that exist
  boundary,    \* the included entities of the project's boundary; Nowhere in it: no boundary
  assignment,  \* metric_assignments of the project, by id
  item,        \* custom_datasheet_items of one datasheet, by id
  form         \* form_configurations the project may use, by id

vars == <<metrics, boundary, assignment, item, form>>

None == 0
AssignmentIds == 1..MaxAssignments
ItemIds == 1..MaxItems
FormIds == 1..MaxForms
Scopes == {"project", "organization"}

\* The collection scopes "project", "entity" and "facility" of a datasheet item.
Places == [entity : Entities \cup {Nowhere}, facility : Facilities \cup {Nowhere}]
Everywhere == [entity |-> Nowhere, facility |-> Nowhere]

Unused == [status |-> "unused"]
Assignments == [status : {"assigned"}, metric : Metrics, place : Places]
DatasheetItems == [status : {"active", "archived"}, metric : Metrics, place : Places,
                   assignment : AssignmentIds]
Fields == [metric : Metrics, place : Places, assignment : AssignmentIds \cup {None}]

\* generated is history: the fields are those of _create_generated_config.
Forms == [status : {"active", "inactive"}, scope : Scopes, readable : BOOLEAN,
          generated : BOOLEAN, fields : SUBSET Fields]

ConstantsOK ==
  /\ TenantMetrics \subseteq Metrics /\ Occurrences \in [Metrics -> Nat]
  /\ Drafts \subseteq SUBSET Fields
  /\ MaxAssignments \in Nat /\ MaxItems \in Nat /\ MaxForms \in Nat

TypeOK ==
  /\ metrics \subseteq Metrics
  /\ boundary \subseteq Entities \cup Facilities \cup {Nowhere}
  /\ assignment \in [AssignmentIds -> Assignments \cup {Unused}]
  /\ item \in [ItemIds -> DatasheetItems \cup {Unused}]
  /\ \A f \in FormIds : form[f] = Unused \/
       /\ form[f].status \in {"active", "inactive"}
       /\ form[f].scope \in Scopes
       /\ form[f].fields \subseteq Fields

Init ==
  /\ metrics = Metrics \ TenantMetrics
  /\ boundary \in {{Nowhere}} \cup SUBSET (Entities \cup Facilities)
  /\ assignment = [a \in AssignmentIds |-> Unused]
  /\ item = [i \in ItemIds |-> Unused]
  /\ form = [f \in FormIds |-> Unused]

Used(table) == {k \in DOMAIN table : table[k] # Unused}
NextId(table, k) == table[k] = Unused /\ \A j \in DOMAIN table : j < k => table[j] # Unused

-----------------------------------------------------------------------------
(* Assignments.                                                            *)

ScopeEntity(place) == IF place.facility # Nowhere THEN place.facility ELSE place.entity
OutsideBoundary(place) ==
  /\ boundary # {Nowhere}
  /\ ScopeEntity(place) # Nowhere
  /\ ScopeEntity(place) \notin boundary

At(metric, place) ==
  {a \in Used(assignment) : assignment[a].metric = metric /\ assignment[a].place = place}

Assigned(a, metric, place) ==
  /\ NextId(assignment, a)
  /\ assignment' = [assignment EXCEPT ![a] =
                      [status |-> "assigned", metric |-> metric, place |-> place]]

CreateAssignment ==
  /\ \E m \in metrics, place \in Places, a \in AssignmentIds :
       /\ ~OutsideBoundary(place)
       /\ At(m, place) = {}
       /\ Assigned(a, m, place)
  /\ UNCHANGED <<metrics, boundary, item, form>>

\* replace_memberships, update_boundary: the boundary includes other entities.
ReplaceMemberships ==
  /\ boundary # {Nowhere}
  /\ boundary' \in SUBSET (Entities \cup Facilities)
  /\ UNCHANGED <<metrics, assignment, item, form>>

-----------------------------------------------------------------------------
(* Items of a custom datasheet.                                            *)

\* find_item_duplicate: archived items do not count.
Duplicates(metric, place) ==
  {i \in Used(item) : item[i].status = "active" /\ item[i].metric = metric
                      /\ item[i].place = place}

\* _resolve_assignment_for_item without an assignment_id: the assignment of the
\* metric and the place, made when there is none; with one, that one, which
\* must be of the metric and the place.
Existing(a, metric, place) ==
  /\ a \in At(metric, place)
  /\ UNCHANGED assignment
Resolve(a, metric, place) ==
  /\ ~OutsideBoundary(place)
  /\ \/ Existing(a, metric, place)
     \/ At(metric, place) = {} /\ Assigned(a, metric, place)

Write(i, status, metric, place, a) ==
  item' = [item EXCEPT ![i] =
             [status |-> status, metric |-> metric, place |-> place, assignment |-> a]]

Add(m, place) ==
  /\ Duplicates(m, place) = {}
  /\ \E i \in ItemIds, a \in AssignmentIds :
       /\ NextId(item, i)
       /\ Resolve(a, m, place)
       /\ Write(i, "active", m, place, a)
  /\ UNCHANGED <<boundary, form>>

AddItem == (\E m \in metrics, place \in Places : Add(m, place)) /\ UNCHANGED metrics

\* create_custom_metric_and_add_item.
AddCustomMetric ==
  \E m \in TenantMetrics \ metrics, place \in Places :
    /\ Add(m, place)
    /\ metrics' = metrics \cup {m}

\* update_item with a collection_scope, entity_id, facility_id or assignment_id.
Moved(i, place, a) ==
  /\ Resolve(a, item[i].metric, place)
  /\ Write(i, item[i].status, item[i].metric, place, a)
\* Mutant: the assignment is resolved for the place the item leaves.
MovedLate(i, place, a) ==
  /\ Resolve(a, item[i].metric, item[i].place)
  /\ Write(i, item[i].status, item[i].metric, place, a)
Move(i, place, a) == Moved(i, place, a)

\* The query returns any one of the duplicates.
NoOtherFound(i, duplicates) == duplicates = {} \/ i \in duplicates

MoveItem ==
  /\ \E i \in Used(item), place \in Places, a \in AssignmentIds :
       /\ NoOtherFound(i, Duplicates(item[i].metric, place))
       /\ Move(i, place, a)
  /\ UNCHANGED <<metrics, boundary, form>>

\* archive_item, and update_item with a status: nothing else is looked at.
SetItemStatus ==
  /\ \E i \in Used(item), status \in {"active", "archived"} :
       item' = [item EXCEPT ![i].status = status]
  /\ UNCHANGED <<metrics, boundary, assignment, form>>

-----------------------------------------------------------------------------
(* Forms.                                                                  *)

RowAware(fields) == {fl \in fields : fl.assignment # None \/ fl.place # Everywhere}

\* The assignments a field of a readable form stands for.
Meant(fl) ==
  IF fl.assignment # None THEN {fl.assignment} \cap Used(assignment)
  ELSE IF fl.place # Everywhere THEN At(fl.metric, fl.place) ELSE {}

Differs(part, field) == field # Nowhere /\ part # field

\* _build_health: the codes of the issues of one field, and of the whole form.
FieldIssues(fl) ==
  LET row == fl.assignment
      live == row \in Used(assignment)
      place == IF live THEN assignment[row].place ELSE fl.place
  IN (IF row # None /\ ~live THEN {"MISSING_ASSIGNMENT"} ELSE {})
     \cup (IF live /\ assignment[row].metric # fl.metric
           THEN {"ASSIGNMENT_ELEMENT_CHANGED"} ELSE {})
     \cup (IF live /\ (Differs(place.entity, fl.place.entity)
                       \/ Differs(place.facility, fl.place.facility))
           THEN {"ASSIGNMENT_CONTEXT_CHANGED"} ELSE {})
     \cup (IF row = None /\ fl.place # Everywhere /\ Meant(fl) = {}
           THEN {"UNRESOLVED_CONTEXT"} ELSE {})
     \cup (IF row = None /\ Cardinality(Meant(fl)) > 1 THEN {"AMBIGUOUS_CONTEXT"} ELSE {})
     \cup (IF (row = None \/ live) /\ OutsideBoundary(place) THEN {"OUTSIDE_BOUNDARY"} ELSE {})

Uncovered(fields) ==
  {a \in Used(assignment) :
     /\ \E fl \in RowAware(fields) : fl.metric = assignment[a].metric
     /\ \A fl \in fields : a \notin Meant(fl)}

Health(f) ==
  IF ~form[f].readable THEN {"INVALID_CONFIG"}
  ELSE (IF Uncovered(form[f].fields) # {} THEN {"UNCONFIGURED_ASSIGNMENT"} ELSE {})
       \cup UNION {FieldIssues(fl) : fl \in form[f].fields}

\* _create_generated_config: a field for every assignment of a metric that the
\* requirement items need, and one for a metric without any that several need.
FieldsOf(m) ==
  LET rows == {a \in Used(assignment) : assignment[a].metric = m} IN
  IF Occurrences[m] = 0 THEN {}
  ELSE IF rows # {}
       THEN {[metric |-> m, place |-> assignment[a].place, assignment |-> a] : a \in rows}
  ELSE IF Occurrences[m] > 1
       THEN {[metric |-> m, place |-> Everywhere, assignment |-> None]} ELSE {}
GeneratedFields == UNION {FieldsOf(m) : m \in Metrics}

\* deactivate_scope.
Deactivated(scope, except) ==
  [f \in FormIds |->
     IF form[f] # Unused /\ f # except /\ form[f].scope = scope
     THEN [form[f] EXCEPT !.status = "inactive"] ELSE form[f]]

Store(f, row) == [Deactivated(row.scope, f) EXCEPT ![f] = row]

\* generate_default and resync_project_config.
Generate ==
  /\ \E f \in FormIds :
       /\ NextId(form, f)
       /\ form' = Store(f, [status |-> "active", scope |-> "project", readable |-> TRUE,
                            generated |-> TRUE, fields |-> GeneratedFields])
  /\ UNCHANGED <<metrics, boundary, assignment, item>>

\* create() and update_config() take any configuration.
Submitted == [readable : {TRUE}, fields : Drafts] \cup [readable : {FALSE}, fields : {{}}]

Saved(f, row) == IF row.status = "active" THEN Store(f, row) ELSE [form EXCEPT ![f] = row]
\* Mutant: only a new form takes the place of the active one.
SavedAlone(f, row) ==
  IF row.status = "active" /\ form[f] = Unused THEN Store(f, row) ELSE [form EXCEPT ![f] = row]
Save(f, row) == Saved(f, row)

CreateForm ==
  /\ \E f \in FormIds, config \in Submitted, scope \in Scopes, status \in {"active", "inactive"} :
       /\ NextId(form, f)
       /\ form' = Save(f, [status |-> status, scope |-> scope, readable |-> config.readable,
                           generated |-> FALSE, fields |-> config.fields])
  /\ UNCHANGED <<metrics, boundary, assignment, item>>

\* The scope of a form is not editable: a request that sends another is rolled
\* back.
UpdateForm ==
  /\ \E f \in Used(form), status \in {"active", "inactive"} :
       \/ form' = Save(f, [form[f] EXCEPT !.status = status])
       \/ \E config \in Submitted :
            form' = Save(f, [form[f] EXCEPT !.status = status, !.generated = FALSE,
                             !.readable = config.readable, !.fields = config.fields])
  /\ UNCHANGED <<metrics, boundary, assignment, item>>

\* get_active_for_project: the project's own form before the organization's.
Active(scope) == {f \in Used(form) : form[f].status = "active" /\ form[f].scope = scope}

Next ==
  \/ CreateAssignment \/ ReplaceMemberships
  \/ AddItem \/ AddCustomMetric \/ MoveItem \/ SetItemStatus
  \/ Generate \/ CreateForm \/ UpdateForm

Spec == Init /\ [][Next]_vars

-----------------------------------------------------------------------------
\* Whoever made the assignment, whatever was moved, archived or taken back: an
\* item of a datasheet is collected by the assignment of its metric and place,
\* and a metric has one assignment at a place.
ItemsMeetAssignments ==
  /\ \A i \in Used(item) : item[i].assignment \in At(item[i].metric, item[i].place)
  /\ \A a, b \in Used(assignment) :
       assignment[a].metric = assignment[b].metric /\ assignment[a].place = assignment[b].place
       => a = b

\* A scope has one active form, whichever forms are created, switched on and
\* generated.
OneActiveForm == \A scope \in Scopes : Cardinality(Active(scope)) <= 1

\* The health of a generated form tells the truth.  While nothing but the
\* boundary is complained about, regenerating it would give the same fields
\* for every metric it has rows for, and a regenerated form is complained
\* about for nothing else.
HealthTellsDrift ==
  \A f \in Used(form) : form[f].generated =>
    /\ Health(f) \subseteq {"OUTSIDE_BOUNDARY", "UNCONFIGURED_ASSIGNMENT"}
    /\ ("UNCONFIGURED_ASSIGNMENT" \notin Health(f)) <=>
         \A fl \in RowAware(form[f].fields) :
           {g \in form[f].fields : g.metric = fl.metric} = FieldsOf(fl.metric)
=============================================================================
