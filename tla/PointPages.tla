------------------------------ MODULE PointPages ------------------------------
(***************************************************************************)
(* One data point on many pages: the reviewers' queue and its items        *)
(* (ReviewService), the list and the page of data points                   *)
(* (DataPointService), the merged matrix (MergeService), the preview of a  *)
(* change of boundary (ImpactService) with what the dashboard makes of it  *)
(* (DashboardService), and the comments below a point (CommentService).    *)
(* Each page reads the tables by itself, and decides again who may see     *)
(* what, which boundary holds and which standards ask for a point.         *)
(*                                                                         *)
(* Users keep their role; a request is one transaction, and pages have no  *)
(* state of their own.  Values, words and order of the rows are left out.  *)
(***************************************************************************)
EXTENDS Integers, Sequences, FiniteSets, WorkflowState

CONSTANTS
  Users, RoleOf, Nobody,
  Points,       \* [project, element, entity, facility], the last two possibly Nowhere
  Nowhere,
  Assignments,  \* [id, project, element, entity, facility]
  Teams,        \* [collector, backup, reviewer] an assignment may have
  DaysLeft,     \* assignment -> days to its deadline, or NoDate
  NoDate,
  Completed,    \* the assignments whose own status is completed
  Projects, Entities,
  Members,      \* boundary -> entity -> "full", "share", "excluded" or "none"
  DefaultOne,   \* the default boundary of the organization
  NoBoundary,
  Mappings,     \* [item, standard, element]
  Allowed,      \* element -> the dimension types it may have, as they are stored
  Payloads,     \* dimensions in a request: sequences of [type, value]
  FirstTeams,   \* assignment -> who holds it in the beginning
  FirstStandard,  \* the standard every project begins with
  LegacyItems,  \* items that rows of former versions comment on
  MaxEdits      \* bound on the requests that change something

VARIABLES
  point,     \* data_points: who created it, its status, dimensions and evidence
  duty,      \* metric_assignments: the team of each
  boundary,  \* reporting_projects.boundary_definition_id
  snapshot,  \* boundary_snapshots: project -> boundary it was taken of
  attached,  \* reporting_project_standards, as pairs <<project, standard>>
  current,   \* the mappings that are current
  tracked,   \* requirement_item_statuses, as pairs <<project, item>>
  comments,  \* in the order of their ids
  count      \* requests so far

vars ==
  <<point, duty, boundary, snapshot, attached, current, tracked, comments, count>>

Boundaries == DOMAIN Members
Standards == {m.standard : m \in Mappings}
Absent == [by |-> Nobody, status |-> "absent", dims |-> {}, evidence |-> FALSE]
Exists(p) == point[p] # Absent
PointsOf(pr) == {p \in Points : p.project = pr /\ Exists(p)}
Edit == count < MaxEdits /\ count' = count + 1

TypeOK ==
  /\ \A p \in Points : Exists(p) => point[p].by \in Users /\ point[p].status \in Statuses
  /\ duty \in [Assignments -> Teams]
  /\ boundary \in [Projects -> Boundaries \cup {NoBoundary}]
  /\ snapshot \in [Projects -> Boundaries \cup {NoBoundary}]
  /\ attached \subseteq Projects \X Standards /\ current \subseteq Mappings
  /\ tracked \subseteq Projects \X {m.item : m \in Mappings}
  /\ \A i \in DOMAIN comments : comments[i].parent < i
  /\ count \in 0..MaxEdits

-----------------------------------------------------------------------------
(* Access (core/access).                                                   *)

Manages(u) == RoleOf[u] \in {"admin", "esg_manager"}
Holds(u, a) ==
  \/ RoleOf[u] = "collector" /\ u \in {duty[a].collector, duty[a].backup}
  \/ RoleOf[u] = "reviewer" /\ u = duty[a].reviewer
Held(u, pr) == {a \in Assignments : a.project = pr /\ Holds(u, a)}
SeesProject(u, pr) == RoleOf[u] \in {"collector", "reviewer"} => Held(u, pr) # {}

\* The WHERE clause of get_matching_assignment, and assignment_matches_data_point.
Fits(mine, asked) == IF asked # Nowhere THEN mine \in {asked, Nowhere} ELSE mine = Nowhere
MatchesInSql(a, p) ==
  a.element = p.element /\ Fits(a.entity, p.entity) /\ Fits(a.facility, p.facility)
Matches(a, p) ==
  /\ a.element = p.element
  /\ a.entity \in {p.entity, Nowhere} /\ a.facility \in {p.facility, Nowhere}

MayOpen(u, p) ==
  /\ Exists(p) /\ SeesProject(u, p.project)
  /\ RoleOf[u] = "collector" =>
       point[p].by = u \/ \E a \in Held(u, p.project) : MatchesInSql(a, p)
  /\ RoleOf[u] = "reviewer" => \E a \in Held(u, p.project) : MatchesInSql(a, p)

-----------------------------------------------------------------------------
(* What users do with points.                                              *)

Kind(type) == IF type \in {"gas", "gas_type"} THEN "gas_type" ELSE type

\* _validate_dimensions: each kind once, and only those of the element.
ValidDims(element, payload) ==
  /\ \A i, k \in DOMAIN payload : Kind(payload[i].type) = Kind(payload[k].type) => i = k
  /\ \A i \in DOMAIN payload :
       Kind(payload[i].type) \in {Kind(type) : type \in Allowed[element]}
Stored(payload) == {<<Kind(payload[i].type), payload[i].value>> : i \in DOMAIN payload}

Create(u, p, payload) ==
  /\ ~Exists(p) /\ Edit
  /\ RoleOf[u] = "collector" \/ Manages(u)
  /\ SeesProject(u, p.project)
  /\ RoleOf[u] = "collector" => \E a \in Held(u, p.project) : Matches(a, p)
  /\ ValidDims(p.element, payload)
  /\ point' = [point EXCEPT ![p] = [by |-> u, status |-> "draft",
                                    dims |-> Stored(payload), evidence |-> FALSE]]
  /\ UNCHANGED <<duty, boundary, snapshot, attached, current, tracked, comments>>

\* The dimensions are deleted and written again.
Update(u, p, payload) ==
  /\ MayOpen(u, p) /\ Edit
  /\ RoleOf[u] = "collector" \/ Manages(u)
  /\ point[p].status \in Editable
  /\ ValidDims(p.element, payload)
  /\ point' = [point EXCEPT ![p].dims = Stored(payload)]
  /\ UNCHANGED <<duty, boundary, snapshot, attached, current, tracked, comments>>

\* A transition of the workflow; what follows a submission goes on as "system".
Move(u, p, to) ==
  /\ MayOpen(u, p) /\ Edit
  /\ \E role \in {RoleOf[u], "system"} : CanTransition(point[p].status, to, role)
  /\ point' = [point EXCEPT ![p].status = to]
  /\ UNCHANGED <<duty, boundary, snapshot, attached, current, tracked, comments>>

LinkEvidence(u, p) ==
  /\ MayOpen(u, p) /\ Edit
  /\ RoleOf[u] = "collector" \/ Manages(u)
  /\ ~point[p].evidence
  /\ point' = [point EXCEPT ![p].evidence = TRUE]
  /\ UNCHANGED <<duty, boundary, snapshot, attached, current, tracked, comments>>

-----------------------------------------------------------------------------
(* What managers do.                                                       *)

Reassign(a, team) ==
  /\ duty[a] # team /\ Edit
  /\ duty' = [duty EXCEPT ![a] = team]
  /\ UNCHANGED <<point, boundary, snapshot, attached, current, tracked, comments>>

\* apply_boundary deletes the snapshot of the project.
ApplyBoundary(pr, b) ==
  /\ boundary[pr] # b /\ Edit
  /\ boundary' = [boundary EXCEPT ![pr] = b]
  /\ snapshot' = [snapshot EXCEPT ![pr] = NoBoundary]
  /\ UNCHANGED <<point, duty, attached, current, tracked, comments>>

SaveSnapshot(pr) ==
  /\ boundary[pr] # NoBoundary /\ snapshot[pr] # boundary[pr] /\ Edit
  /\ snapshot' = [snapshot EXCEPT ![pr] = boundary[pr]]
  /\ UNCHANGED <<point, duty, boundary, attached, current, tracked, comments>>

AddStandard(pr, s) ==
  /\ <<pr, s>> \notin attached /\ Edit
  /\ attached' = attached \cup {<<pr, s>>}
  /\ UNCHANGED <<point, duty, boundary, snapshot, current, tracked, comments>>

Retire(m) ==
  /\ m \in current /\ Edit
  /\ current' = current \ {m}
  /\ UNCHANGED <<point, duty, boundary, snapshot, attached, tracked, comments>>

Asked(pr) == {<<pr, m.item>> : m \in {n \in Mappings : <<pr, n.standard>> \in attached}}

\* Completeness writes a row for every item of the project's standards.
Recalculate(pr) ==
  /\ ~(Asked(pr) \subseteq tracked) /\ Edit
  /\ tracked' = tracked \cup Asked(pr)
  /\ UNCHANGED <<point, duty, boundary, snapshot, attached, current, comments>>

-----------------------------------------------------------------------------
(* Comments.  Only rows of former versions have no data point.             *)

NoPoint == [project |-> 0]
NoItem == "no item"
Legacy(item) == [on |-> NoPoint, item |-> item, parent |-> 0, resolved |-> FALSE]

\* Mutant: a reply is only held against the point of its parent.
ParentOfPoint(parent, p, item) == parent # 0 => comments[parent].on = p

\* A reply is about the same point and item as its parent.
ParentOk(parent, p, item) ==
  parent # 0 => comments[parent].on = p /\ comments[parent].item = item

ItemOk(item, p) ==
  item # NoItem =>
    \E m \in current : m.item = item /\ m.element = p.element /\ <<p.project, item>> \in tracked

Comment(u, p, item, parent) ==
  /\ RoleOf[u] # "auditor" /\ MayOpen(u, p) /\ Edit
  /\ ItemOk(item, p) /\ ParentOk(parent, p, item)
  /\ comments' = Append(comments, [on |-> p, item |-> item, parent |-> parent, resolved |-> FALSE])
  /\ UNCHANGED <<point, duty, boundary, snapshot, attached, current, tracked>>

\* A comment without a point is resolved by managers of an organization that has
\* the item in a project.
Resolve(u, i) ==
  /\ ~comments[i].resolved /\ Edit
  /\ RoleOf[u] = "reviewer" \/ Manages(u)
  /\ IF comments[i].on # NoPoint THEN MayOpen(u, comments[i].on)
     ELSE Manages(u) /\ \E pr \in Projects : <<pr, comments[i].item>> \in tracked
  /\ comments' = [comments EXCEPT ![i].resolved = TRUE]
  /\ UNCHANGED <<point, duty, boundary, snapshot, attached, current, tracked>>

\* list_for_data_point: a comment whose parent is not among those of the point is a root.
On(p) == {i \in DOMAIN comments : comments[i].on = p}
Roots(p) == {i \in On(p) : comments[i].parent \notin On(p)}
Replies(p, i) == {k \in On(p) : comments[k].parent = i}

-----------------------------------------------------------------------------
(* The pages.                                                              *)

\* list_review_items: within a project, and across those with duties of a reviewer,
\* where an assignment is not asked for its project.
Waiting == {"submitted", "in_review"}
Queue(u, pr) ==
  {p \in PointsOf(pr) :
     /\ point[p].status \in Waiting
     /\ RoleOf[u] = "reviewer" => \E a \in Held(u, pr) : Matches(a, p)}
QueueOfAll(u) ==
  {p \in UNION {PointsOf(pr) : pr \in {q \in Projects : SeesProject(u, q)}} :
     /\ point[p].status \in Waiting
     /\ RoleOf[u] = "reviewer" => \E a \in Assignments : Holds(u, a) /\ Matches(a, p)}

\* list_by_project: SQL chooses by the elements of the collector's assignments.
PointList(u, pr) ==
  IF RoleOf[u] # "collector" THEN PointsOf(pr)
  ELSE {p \in PointsOf(pr) :
          /\ \E a \in Held(u, pr) : a.element = p.element
          /\ point[p].by = u \/ \E a \in Held(u, pr) : Matches(a, p)}

Scope(x) == IF x.facility # Nowhere THEN x.facility ELSE x.entity
MemberOf(pr, e) == IF boundary[pr] = NoBoundary THEN "none" ELSE Members[boundary[pr]][e]
StatusOf(member) == IF member = "excluded" THEN "excluded" ELSE "included"
MethodOf(member) == IF member = "share" THEN "share" ELSE "full"

\* The queue reads the standards of all its projects at once, the page those of one.
AskingRows ==
  {<<row[1], row[2].element, row[2].standard>> :
     row \in {r \in Projects \X current : <<r[1], r[2].standard>> \in attached}}
ItemStandards(p) == {row[3] : row \in {r \in AskingRows : r[1] = p.project /\ r[2] = p.element}}
RelatedStandards(pr, element) ==
  {m.standard : m \in {n \in current : n.element = element /\ <<pr, n.standard>> \in attached}}

\* _pick_assignment: that of the facility before that of the entity, then by age.
Rank(a) == <<a.facility = Nowhere, a.entity = Nowhere, a.id>>
Before(a, b) ==
  \/ ~Rank(a)[1] /\ Rank(b)[1]
  \/ Rank(a)[1] = Rank(b)[1] /\ ~Rank(a)[2] /\ Rank(b)[2]
  \/ Rank(a)[1] = Rank(b)[1] /\ Rank(a)[2] = Rank(b)[2] /\ Rank(a)[3] < Rank(b)[3]
Matching(p) == {a \in Assignments : a.project = p.project /\ Matches(a, p)}
Pick(p) == CHOOSE a \in Matching(p) : \A b \in Matching(p) \ {a} : Before(a, b)

\* _compute_urgency, with whether the item is overdue.
Urgency(p) ==
  LET left == IF Matching(p) = {} THEN NoDate ELSE DaysLeft[Pick(p)]
      waiting == IF point[p].status = "submitted" THEN "high"
                 ELSE IF point[p].status = "in_review" THEN "medium" ELSE "low"
  IN IF left = NoDate \/ left > 5 THEN <<waiting, FALSE>>
     ELSE IF left < 0 THEN <<"critical", TRUE>>
     ELSE IF left <= 2 THEN <<"high", FALSE>> ELSE <<"medium", FALSE>>

\* The item of the queue takes the scope's membership, or says why there is none.
ItemBoundary(p) ==
  LET member == IF Scope(p) = Nowhere THEN "none" ELSE MemberOf(p.project, Scope(p))
  IN IF member # "none" THEN <<StatusOf(member), MethodOf(member)>>
     ELSE IF Scope(p) = Nowhere \/ boundary[p.project] = NoBoundary THEN <<"included", "full">>
     ELSE <<"partial", "full">>
ItemSnapshot(pr) ==
  IF snapshot[pr] = NoBoundary THEN "none"
  ELSE IF snapshot[pr] = boundary[pr] THEN "current" ELSE "outdated"
Valued(p, kind) == {d[2] : d \in {e \in point[p].dims : Kind(e[1]) = kind}}

\* Mutant: the page looks for the entity although the point has a facility.
BoundaryOfEntity(p) ==
  IF p.entity # Nowhere /\ MemberOf(p.project, p.entity) # "none"
  THEN <<StatusOf(MemberOf(p.project, p.entity)), MethodOf(MemberOf(p.project, p.entity))>>
  ELSE <<IF Scope(p) # Nowhere /\ boundary[p.project] # NoBoundary THEN "partial"
         ELSE "included", "full">>

\* The page of the point loads the members among its entity and facility.
PageBoundary(p) ==
  LET loaded == {e \in {p.entity, p.facility} \ {Nowhere} : MemberOf(p.project, e) # "none"}
  IN IF Scope(p) \in loaded
     THEN <<StatusOf(MemberOf(p.project, Scope(p))), MethodOf(MemberOf(p.project, Scope(p)))>>
     ELSE <<IF Scope(p) # Nowhere /\ boundary[p.project] # NoBoundary THEN "partial"
            ELSE "included", "full">>
Flags(element) == {Kind(type) : type \in Allowed[element]} \cap {"scope", "gas_type", "category"}

\* The merged matrix does not ask whether a mapping is current.
RequiredBy(pr, element) ==
  {m.standard : m \in {n \in Mappings : n.element = element /\ <<pr, n.standard>> \in attached}}
CellPoints(pr, element) == {p \in PointsOf(pr) : p.element = element}
CellEvidence(pr, element) ==
  LET with == {p \in CellPoints(pr, element) : point[p].evidence}
  IN IF CellPoints(pr, element) = {} THEN "none"
     ELSE IF with = CellPoints(pr, element) THEN "attached"
     ELSE IF with # {} THEN "partial" ELSE "pending"
MatrixScope(pr) ==
  {<<e, MemberOf(pr, e) # "excluded">> : e \in {f \in Entities : MemberOf(pr, f) # "none"}}

\* The dashboard's level of an assignment (resolve_assignment_sla, with three days).
Sla(a) ==
  LET points == {p \in PointsOf(a.project) : Matches(a, p)}
      left == DaysLeft[a]
  IN IF a \in Completed \/ (points # {} /\ \A p \in points : point[p].status = "approved")
     THEN "completed"
     ELSE IF left = NoDate THEN "no_deadline"
     ELSE IF left <= -7 THEN "breach_level_2"
     ELSE IF left <= -3 THEN "breach_level_1"
     ELSE IF left < 0 THEN "overdue"
     ELSE IF left = 0 THEN "due_today"
     ELSE IF left <= 3 THEN "warning" ELSE "on_track"
Late == {"overdue", "breach_level_1", "breach_level_2"}
OverdueOf(u, pr) ==
  Cardinality({a \in Assignments : a.project = pr /\ duty[a].reviewer = u /\ Sla(a) \in Late})

Included(b) == IF b = NoBoundary THEN {}
               ELSE {e \in Entities : Members[b][e] \in {"full", "share"}}

\* preview_boundary_change: assignments that fall out of the boundary, and what the
\* entities that come in would need after the example of those in it.
Leaving(pr, b) == Included(boundary[pr]) \ Included(b)
Entering(pr, b) == Included(b) \ Included(boundary[pr])

\* Mutant: the preview looks at the entities of assignments only.
RemovedOfEntities(pr, b) ==
  {a \in Assignments : a.project = pr /\ a.entity \in Leaving(pr, b)}

Removed(pr, b) == {a \in Assignments : a.project = pr /\ Scope(a) \in Leaving(pr, b)}
EntityLevel(pr) == {a \in Assignments : a.project = pr /\ a.facility = Nowhere}
Added(pr, b) ==
  {pair \in {a.element : a \in {c \in EntityLevel(pr) :
                                 c.entity \in Included(boundary[pr])}} \X Entering(pr, b) :
     ~\E a \in EntityLevel(pr) : a.element = pair[1] /\ a.entity = pair[2]}

\* What the dashboard warns of when the boundary is not the default one.
MissingIfDefault(pr) ==
  IF boundary[pr] \in {NoBoundary, DefaultOne} THEN {}
  ELSE {a \in Removed(pr, DefaultOne) : Sla(a) # "completed"}

-----------------------------------------------------------------------------
Init ==
  /\ \/ point = [p \in Points |-> Absent]
     \/ \E u \in {v \in Users : RoleOf[v] = "collector"} :
          point = [p \in Points |-> [Absent EXCEPT !.by = u, !.status = "draft"]]
  /\ duty = FirstTeams
  /\ boundary = [pr \in Projects |-> NoBoundary]
  /\ snapshot = [pr \in Projects |-> NoBoundary]
  /\ attached = {<<pr, FirstStandard>> : pr \in Projects}
  /\ current = Mappings
  /\ tracked = UNION {Asked(pr) : pr \in Projects}
  /\ comments \in {<<>>} \cup {<<Legacy(item)>> : item \in LegacyItems}
  /\ count = 0

Next ==
  \/ \E u \in Users, p \in Points :
       \/ \E payload \in Payloads : Create(u, p, payload) \/ Update(u, p, payload)
       \/ \E to \in Statuses : Move(u, p, to)
       \/ LinkEvidence(u, p)
       \/ \E item \in {m.item : m \in Mappings} \cup {NoItem}, parent \in 0..Len(comments) :
            Comment(u, p, item, parent)
  \/ \E u \in Users, i \in DOMAIN comments : Resolve(u, i)
  \/ \E a \in Assignments, team \in Teams : Reassign(a, team)
  \/ \E pr \in Projects :
       \/ \E b \in Boundaries : ApplyBoundary(pr, b)
       \/ \E s \in Standards : AddStandard(pr, s)
       \/ SaveSnapshot(pr) \/ Recalculate(pr)
  \/ \E m \in Mappings : Retire(m)

Spec == Init /\ [][Next]_vars

-----------------------------------------------------------------------------
\* The queue of a project holds the waiting points that the reviewer may open, no more
\* and no fewer, and the queue of all projects misses none; a collector's list is what
\* he may open of the elements he is assigned.
ListsAreOpenable ==
  \A u \in Users, pr \in Projects :
    SeesProject(u, pr) =>
      LET open == {p \in PointsOf(pr) : MayOpen(u, p)}
          waiting == {p \in open : point[p].status \in Waiting}
      IN /\ RoleOf[u] # "collector" => Queue(u, pr) = waiting /\ waiting \subseteq QueueOfAll(u)
         /\ RoleOf[u] # "reviewer" =>
              PointList(u, pr) =
                {p \in open : RoleOf[u] = "collector" =>
                               \E a \in Held(u, pr) : a.element = p.element}

\* The reviewer and the author see one point: its place in the boundary, the standards
\* that ask for it and its dimensions, at most one value of a kind and only of a kind
\* its page has a field for.  The matrix knows the same boundary, points and evidence,
\* and the same standards until a mapping is retired.
PagesAgree ==
  \A p \in {q \in Points : Exists(q)} :
    /\ ItemBoundary(p) = PageBoundary(p)
    /\ ItemStandards(p) = RelatedStandards(p.project, p.element)
    /\ \A kind \in {"scope", "gas_type", "category"} :
         /\ Cardinality(Valued(p, kind)) <= 1
         /\ Valued(p, kind) # {} => kind \in Flags(p.element)
    /\ ItemStandards(p) \subseteq RequiredBy(p.project, p.element)
    /\ current = Mappings => ItemStandards(p) = RequiredBy(p.project, p.element)
    /\ CellEvidence(p.project, p.element) = "attached" => point[p].evidence
    /\ Scope(p) # Nowhere /\ boundary[p.project] # NoBoundary =>
         PageBoundary(p)[1] =
           IF <<Scope(p), TRUE>> \in MatrixScope(p.project) THEN "included"
           ELSE IF <<Scope(p), FALSE>> \in MatrixScope(p.project) THEN "excluded" ELSE "partial"

\* An item that the queue calls overdue is late on the dashboard of its reviewer,
\* unless its assignment was declared complete; no snapshot is ever outdated.
DeadlinesAgree ==
  /\ \A p \in {q \in Points : Exists(q) /\ point[q].status \in Waiting} :
       Urgency(p)[2] /\ Pick(p) \notin Completed /\ duty[Pick(p)].reviewer # Nobody =>
         OverdueOf(duty[Pick(p)].reviewer, p.project) > 0
  /\ \A pr \in Projects : ItemSnapshot(pr) # "outdated"

\* Every comment of a point is in one thread, which is about one requirement item and
\* begins with a comment that replies to none; only rows of former versions have no point.
ThreadsAreWhole ==
  /\ \A p \in Points :
       /\ \A i \in Roots(p) : comments[i].parent = 0
       /\ \A i \in On(p) : \A k \in Replies(p, i) : comments[k].item = comments[i].item
  /\ \A i \in DOMAIN comments : comments[i].on = NoPoint => i = 1 /\ comments[i].parent = 0

\* When a boundary takes the place of another, exactly the assignments that the preview
\* removes have left the boundary, as the pages show it, and those whose removal the
\* dashboard warned of are open; the entities the preview adds assignments for came in.
PreviewIsKept ==
  [][\A pr \in Projects :
       boundary'[pr] # boundary[pr] /\ boundary[pr] # NoBoundary =>
         LET b == boundary'[pr]
             scoped == {a \in Assignments : a.project = pr /\ Scope(a) # Nowhere}
         IN /\ Removed(pr, b) =
                 {a \in scoped : /\ MemberOf(pr, Scope(a)) \in {"full", "share"}
                                 /\ ItemBoundary(a)'[1] # "included"}
            /\ b = DefaultOne =>
                 \A a \in MissingIfDefault(pr) : a \in Removed(pr, b) /\ Sla(a)' # "completed"
            /\ \A pair \in Added(pr, b) :
                 /\ <<pair[2], TRUE>> \in MatrixScope(pr)'
                 /\ <<pair[2], TRUE>> \notin MatrixScope(pr)]_vars
=============================================================================
