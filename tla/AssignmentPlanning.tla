--------------------------- MODULE AssignmentPlanning ---------------------------
(* How a project is staffed: standards are attached, their indicators launched,  *)
(* metric assignments created, edited and given out automatically, and the pages *)
(* that plan it (ProjectService).                                                *)
(*                                                                               *)
(* A request reads what it needs and computes its writes; it may commit later,   *)
(* after others committed.  Its writes are edits of single columns and new rows. *)
(* No constraint of the database keeps two assignments of one metric apart.      *)
EXTENDS Naturals, Sequences, FiniteSets, SequencesExt

CONSTANTS
  Requirements,  \* required items with a current mapping: [standard, element, full]
  OwnCodes,      \* codes of metrics the tenant may add
  Parent,        \* company entity -> its parent, or Nowhere
  Nowhere,
  InBoundary,    \* the entities of the project's boundary
  Scopes,        \* what assignments may be made for: [entity, facility]
  Users, Nobody,
  Eligible,      \* duty -> the users whose role in the organization allows it
  Teams,         \* the people requests name: [collector, reviewer, backup]
  Companies,     \* [owners : entity -> [collector, reviewer], active : set of entities]
  MaxRows, MaxCommits

VARIABLES
  company,   \* the entities' default owners, and which entities are active
  attached,  \* the standards of the project
  added,     \* the metrics the tenant has added
  rows,      \* metric_assignments of the project
  points,    \* its data points: [element, entity] -> approved
  request,   \* a request that has read and not committed
  raced,     \* some request committed what it had computed before others committed
  commits

vars == <<company, attached, added, rows, points, request, raced, commits>>

Duties == {"collector", "reviewer", "backup"}
CompanyEntities == DOMAIN Parent
Catalogued == {q.element : q \in Requirements}
Standards == {q.standard : q \in Requirements}
Idle == [kind |-> "idle"]

Scope(row) == [entity |-> row.entity, facility |-> row.facility]
People(row) == [d \in Duties |-> row[d]]
Row(element, scope, team) ==
  [element |-> element, entity |-> scope.entity, facility |-> scope.facility,
   collector |-> team.collector, reviewer |-> team.reviewer, backup |-> team.backup]
Indices == DOMAIN rows

TypeOK ==
  /\ company \in Companies
  /\ attached \subseteq Standards /\ added \subseteq OwnCodes
  /\ Len(rows) <= MaxRows
  /\ \A i \in Indices :
       /\ rows[i].element \in Catalogued \cup added
       /\ Scope(rows[i]) \in Scopes
       /\ People(rows[i]) \in [Duties -> Users \cup {Nobody}]
  /\ DOMAIN points \subseteq (Catalogued \cup added) \X CompanyEntities
  /\ request.kind \in {"idle", "launch", "create", "edit", "auto"}
  /\ raced \in BOOLEAN /\ commits \in 0..MaxCommits

Init ==
  /\ company \in Companies
  /\ attached = {} /\ added = {} /\ rows = <<>> /\ points = <<>>
  /\ request = Idle /\ raced = FALSE /\ commits = 0

-----------------------------------------------------------------------------
(* Validation.                                                             *)

Holders(row) == {d \in Duties : row[d] # Nobody}
\* _validate_assignment_role_conflicts, _validate_assignment_user.
Distinct(row) == \A d, e \in Holders(row) : d # e => row[d] # row[e]
Qualified(row, duties) == \A d \in duties \cap Holders(row) : row[d] \in Eligible[d]

\* _validate_assignment_scope_in_boundary: the facility, or else the entity.
ScopeEntity(scope) == IF scope.facility # Nowhere THEN scope.facility ELSE scope.entity
ScopeAllowed(scope) == ScopeEntity(scope) \in InBoundary \cup {Nowhere}

Accepted(team, scope) ==
  Distinct(team) /\ Qualified(team, Duties) /\ ScopeAllowed(scope)

-----------------------------------------------------------------------------
(* The pages of the standards.                                             *)

\* _build_standard_launch_options: one option for each element.
ElementsOf(s) == {q.element : q \in {r \in Requirements : r.standard = s}}
Options(s) == IF s \in attached THEN ElementsOf(s) ELSE {}
RowsOf(e) == {i \in Indices : rows[i].element = e}
ExistingCount(e) == Cardinality(RowsOf(e))
AtEntity(i) == rows[i].entity # Nowhere /\ rows[i].facility = Nowhere
AssignedEntities(e) == {rows[i].entity : i \in {k \in RowsOf(e) : AtEntity(k)}}

\* _build_project_standard_attach_preview, before or after the standard is attached.
Assigned == {rows[i].element : i \in Indices}
Collected == {key[1] : key \in DOMAIN points}
Elsewhere(s) == UNION {ElementsOf(t) : t \in attached \ {s}}
PartlyMapped(s) ==
  {q.element : q \in {r \in Requirements : r.standard = s /\ ~r.full}}
Preview(s) ==
  LET known == Elsewhere(s) \cup Assigned \cup Collected
      old == ElementsOf(s) \cap known
  IN [total |-> Cardinality(ElementsOf(s)),
      reuse |-> Cardinality(old \ PartlyMapped(s)),
      review |-> Cardinality(old \cap PartlyMapped(s)),
      new |-> Cardinality(ElementsOf(s) \ known),
      live |-> Cardinality(ElementsOf(s) \cap (Assigned \cup Collected))]

-----------------------------------------------------------------------------
(* What requests compute: rows to add, columns to write, codes to add.     *)

Change(kind, news, edits, codes, aim) ==
  [kind |-> kind, news |-> news, edits |-> edits, codes |-> codes, aim |-> aim]

\* launch_project_standard_indicators, for some options of an attached standard; the
\* metrics that the entity is assigned already are skipped.
\* Mutant: the assignments of its facilities count as the entity's.
PairsOfSites == {<<rows[i].element, rows[i].entity>> : i \in Indices}
ExistingPairs == {<<rows[i].element, rows[i].entity>> : i \in {k \in Indices : AtEntity(k)}}
Launch(s, selected, scope, team) ==
  LET missing == {e \in selected : <<e, scope.entity>> \notin ExistingPairs} IN
  Change("launch", {Row(e, scope, team) : e \in missing}, {}, {},
         selected \X {scope.entity})
Launches ==
  {Launch(x[1], x[2], x[3], x[4]) :
     x \in {y \in attached \X (SUBSET Catalogued \ {{}}) \X Scopes \X Teams :
              /\ y[2] \subseteq Options(y[1])
              /\ y[3].entity # Nowhere /\ y[3].facility = Nowhere
              /\ Accepted(y[4], y[3])}}

\* _resolve_shared_element_id: an element by its id or code, or a new one of the tenant.
NewCodes(e) == IF e \in OwnCodes \ added THEN {e} ELSE {}
\* create_assignment, unless the metric has an assignment of this very scope; with two
\* of them the query fails, and nothing is created either.
Taken(e, scope) == \E i \in RowsOf(e) : Scope(rows[i]) = scope
Creations ==
  {Change("create", {Row(x[1], x[2], x[3])}, {}, NewCodes(x[1]), {}) :
     x \in {y \in (Catalogued \cup OwnCodes) \X Scopes \X Teams :
              Accepted(y[3], y[2]) /\ ~Taken(y[1], y[2])}}

\* inline_update_assignment, bulk_update_assignments: each row is judged as it is read,
\* and one that is refused refuses them all.
EditOk(i, duty, user) ==
  LET row == [rows[i] EXCEPT ![duty] = user] IN Distinct(row) /\ Qualified(row, {duty})
Edits ==
  {Change("edit", {}, {<<i, x[2], x[3]>> : i \in x[1]}, {}, {}) :
     x \in {y \in (SUBSET Indices \ {{}}) \X Duties \X (Users \cup {Nobody}) :
              \A i \in y[1] : EditOk(i, y[2], y[3])}}

\* _resolve_entity_owners: for each duty the nearest entity upwards that has a default.
Path[e \in CompanyEntities \cup {Nowhere}] ==
  IF e = Nowhere THEN <<>> ELSE <<e>> \o Path[Parent[e]]
Owner(owners, e, duty) ==
  LET HasOwner(n) == owners[n][duty] # Nobody
      owning == SelectSeq(Path[e], HasOwner)
  IN IF owning = <<>> THEN Nobody ELSE owners[owning[1]][duty]

\* _build_auto_assign_plan.  With one active entity at most, one entity of the
\* organization, whichever the query returns, stands for all, unless the request names
\* a collector; otherwise each assignment's own does, and the named collector is not used.
AutoDuties == {"collector", "reviewer"}
Mono == Cardinality(company.active) <= 1
Proposed(i, single, named) ==
  [d \in AutoDuties |->
     IF rows[i][d] # Nobody THEN Nobody
     ELSE IF ~Mono THEN Owner(company.owners, rows[i].entity, d)
     ELSE IF d = "collector" /\ named # Nobody THEN named
          ELSE Owner(company.owners, single, d)]
Fillings(single, named) ==
  UNION {{<<i, d, Proposed(i, single, named)[d]>> : d \in AutoDuties} : i \in Indices}
\* Mutant: the people who hold a duty are given new ones too.
PlanOfAll(single, named) ==
  {<<x[1], x[2], Owner(company.owners, rows[x[1]].entity, x[2])>> : x \in Indices \X AutoDuties}
Plan(single, named) == {x \in Fillings(single, named) : x[3] # Nobody}

\* auto_assign_apply: one refused assignment refuses them all.
Edited(row, i, edits) ==
  [f \in DOMAIN row |->
     IF \E x \in edits : x[1] = i /\ x[2] = f
     THEN (CHOOSE x \in edits : x[1] = i /\ x[2] = f)[3] ELSE row[f]]
PlanOk(plan) ==
  \A i \in {x[1] : x \in plan} :
    LET row == Edited(rows[i], i, plan) IN
    Distinct(row) /\ Qualified(row, {x[2] : x \in {y \in plan : y[1] = i}})
Askable ==
  IF Mono THEN CompanyEntities \X (Users \cup {Nobody}) ELSE {<<Nowhere, Nobody>>}
Autos ==
  {Change("auto", {}, Plan(x[1], x[2]), {}, x) :
     x \in {y \in Askable : PlanOk(Plan(y[1], y[2]))}}

Changes == Launches \cup Creations \cup Edits \cup Autos

-----------------------------------------------------------------------------
(* Requests.                                                               *)

\* A code that was added meanwhile is a conflict, and the request fails.
CanWrite(change) ==
  /\ commits < MaxCommits
  /\ change.codes \cap added = {}
  /\ Len(rows) + Cardinality(change.news) <= MaxRows

Written(change) ==
  [i \in Indices |-> Edited(rows[i], i, change.edits)] \o SetToSeq(change.news)

Write(change) ==
  /\ CanWrite(change)
  /\ rows' = Written(change)
  /\ added' = added \cup change.codes
  /\ commits' = commits + 1
  /\ UNCHANGED <<company, attached, points>>

\* Others committed since the request read.
Overtaken == IF request = Idle THEN request ELSE [request EXCEPT !.stale = TRUE]

Read ==
  /\ request = Idle /\ commits < MaxCommits
  /\ \E c \in Changes :
       request' = [kind |-> c.kind, change |-> c, stale |-> FALSE]
  /\ UNCHANGED <<company, attached, added, rows, points, raced, commits>>
Commit ==
  /\ request # Idle
  /\ Write(request.change)
  /\ raced' = (raced \/ request.stale)
  /\ request' = Idle
Abort ==
  /\ request # Idle
  /\ request' = Idle
  /\ UNCHANGED <<company, attached, added, rows, points, raced, commits>>

\* A request that no other overlaps but the one that is open.
Quick ==
  /\ request # Idle
  /\ \E c \in Launches \cup Creations \cup Edits : Write(c)
  /\ request' = Overtaken
  /\ UNCHANGED raced

AddStandard ==
  /\ \E s \in Standards \ attached : attached' = attached \cup {s}
  /\ request' = Overtaken
  /\ UNCHANGED <<company, added, rows, points, raced, commits>>

\* A data point is created, approved or reopened.
Collect ==
  /\ commits < MaxCommits
  /\ \E e \in Assigned, n \in CompanyEntities, ok \in BOOLEAN :
       points' = [k \in DOMAIN points \cup {<<e, n>>} |-> IF k = <<e, n>> THEN ok ELSE points[k]]
  /\ points' # points
  /\ commits' = commits + 1 /\ request' = Overtaken
  /\ UNCHANGED <<company, attached, added, rows, raced>>

Next == Read \/ Commit \/ Abort \/ Quick \/ AddStandard \/ Collect

Spec == Init /\ [][Next]_vars

-----------------------------------------------------------------------------
(* The pages of the assignments.                                           *)

\* assignment_matches_data_point: an assignment without an entity is for all of them;
\* none of the points here has a facility.
Matching(i) ==
  {k \in DOMAIN points : /\ k[1] = rows[i].element
                         /\ rows[i].entity \in {Nowhere, k[2]}
                         /\ rows[i].facility = Nowhere}
AllApproved(i) == Matching(i) # {} /\ \A k \in Matching(i) : points[k]
\* _coerce_assignment_status, without the deadline.
Status(i) ==
  IF AllApproved(i) THEN "completed"
  ELSE IF Matching(i) # {} THEN "in_progress" ELSE "assigned"

\* _build_assignment_matrix for a manager; and for a collector or a reviewer, whose
\* list is the one of get_user_assignments.
Seen(user, role) ==
  CASE role = "collector" -> {i \in Indices : user \in {rows[i].collector, rows[i].backup}}
    [] role = "reviewer" -> {i \in Indices : rows[i].reviewer = user}
Matrix(list) == {<<i, Status(i)>> : i \in list}

\* get_assignment_summary: what each person has in each duty.
Bucket(user, duty) ==
  LET held == {i \in Indices : rows[i][duty] = user} IN
  [assigned |-> Cardinality(held), completed |-> Cardinality({i \in held : AllApproved(i)})]

\* _build_setup_health, the part of the team.
TeamSize == Cardinality(UNION {{rows[i][d] : d \in Holders(rows[i])} : i \in Indices})
AllAssigned == rows # <<>> /\ \A i \in Indices : rows[i].collector # Nobody

-----------------------------------------------------------------------------
\* As long as no request commits what others have overtaken, a metric has one
\* assignment in each scope, and nobody has two duties in one.
RowsSeparate ==
  ~raced => \A i, j \in Indices :
              /\ Distinct(rows[i])
              /\ rows[i].element = rows[j].element /\ Scope(rows[i]) = Scope(rows[j]) => i = j

\* The pages count the same assignments.  The launch page and the preview: an option
\* that has assignments is in collection, and what the preview calls new has no
\* assignment, no point and no place in another attached standard.  The summary and the
\* matrix: a person's duties are the rows of that person's list, and as many are done.
Done(list) == Cardinality({x \in Matrix(list) : x[2] = "completed"})
PagesAgree ==
  /\ \A s \in attached :
       LET open == {e \in Options(s) : ExistingCount(e) = 0}
           others == UNION {Options(t) : t \in attached \ {s}}
       IN /\ Preview(s).total = Preview(s).reuse + Preview(s).review + Preview(s).new
          /\ Preview(s).new = Cardinality({e \in open : e \notin others \cup Collected})
          /\ Preview(s).live >= Cardinality(Options(s) \ open)
  /\ ~raced =>
       \A u \in Users :
         LET both == Bucket(u, "collector").assigned + Bucket(u, "backup").assigned
             done == Bucket(u, "collector").completed + Bucket(u, "backup").completed
         IN /\ both = Cardinality(Seen(u, "collector"))
            /\ done = Done(Seen(u, "collector"))
            /\ Bucket(u, "reviewer").completed = Done(Seen(u, "reviewer"))
  /\ TeamSize = Cardinality({u \in Users : \E d \in Duties : Bucket(u, d).assigned > 0})
  /\ AllAssigned => \A plan \in {Fillings(x[1], x[2]) : x \in Askable} :
                      \A y \in plan : y[2] = "collector" => y[3] = Nobody

\* What requests promise when they commit.  A launch: every selected metric is assigned
\* to the entity.  An automatic assignment, unless others committed meanwhile: asked again
\* for the entity it took its owners from, it has nothing left to fill, and nobody who
\* held a duty has lost it.
Launched ==
  request.kind = "launch" /\ Commit =>
    \A x \in request.change.aim : x[2] \in AssignedEntities(x[1])'
Settled ==
  request.kind = "auto" /\ ~request.stale /\ Commit =>
    /\ \A i \in Indices, d \in Duties : rows[i][d] \in {Nobody, rows'[i][d]}
    /\ \A aim \in {request.change.aim} : Plan(aim[1], aim[2])' = {}
PromisesKept == [][Launched /\ Settled]_vars

\* All of it.
AssignmentsPlanned == []RowsSeparate /\ []PagesAgree /\ PromisesKept
=============================================================================
