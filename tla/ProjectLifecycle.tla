--------------------------- MODULE ProjectLifecycle --------------------------
(***************************************************************************)
(* The lifecycle of reporting projects and the boundaries they report on.  *)
(*                                                                         *)
(* A lifecycle or boundary request reads rows and evaluates its gates, and *)
(* later writes and commits: two steps, between which other requests may   *)
(* run.  Its writes and its commit are one step, because row locks make a  *)
(* later writer wait for the commit and readers see the old rows until     *)
(* then.  Requests on data points, standards and entities are one step.    *)
(*                                                                         *)
(* Each standard stands for its one required item; a project has at most   *)
(* one data point for it.  Evidence and coverage are DataPointWorkflow's.  *)
(* A definition marked "Mutant" is a plausible bug, put in place of the    *)
(* definition after it to show that a property notices the difference.     *)
(***************************************************************************)
EXTENDS WorkflowState, Integers, FiniteSets

CONSTANTS
  Projects,
  Boundaries,
  Entities,    \* company entities, existing or to be created
  Root,        \* the parent company
  Standards,   \* standards, one required item each
  EntityOf,    \* standard -> the entity its data point reports on
  NoBoundary, NoSnapshot, NoPoint,
  NoRequest,   \* a free request slot
  Requests,    \* request slots: how many transactions may overlap
  Ops,         \* operations requests may perform
  MaxPoints    \* bound: no more data points than this are created

Lifecycle == {"start", "review", "publish", "rollback"}
BoundaryOps == {"apply", "snapshot", "members", "recalculate"}
OtherOps == {"default", "entity", "standard", "create", "bind", "decide",
             "batch", "completeness"}

ProjectRow == [status : {"draft", "active", "review", "published"},
               boundary : Boundaries \cup {NoBoundary}]
SnapshotRow == [boundary : Boundaries, members : SUBSET Entities]
ItemStatuses == {"none", "missing", "partial", "complete"}

\* What a request remembers between its two steps.
LifecycleRequest == [op : Lifecycle, project : Projects]
ApplyRequest == [op : {"apply"}, project : Projects, boundary : Boundaries,
                 row : ProjectRow]
SnapshotRequest == [op : {"snapshot"}, project : Projects,
                    found : SnapshotRow \cup {NoSnapshot}, new : SnapshotRow]
MembersRequest == [op : {"members"}, boundary : Boundaries,
                   members : SUBSET Entities, found : SUBSET Entities]
RecalculateRequest == [op : {"recalculate"}, boundary : Boundaries]
Request == LifecycleRequest \cup ApplyRequest \cup SnapshotRequest
             \cup MembersRequest \cup RecalculateRequest

ASSUME ConstantsOK ==
  /\ Root \in Entities
  /\ EntityOf \in [Standards -> Entities]
  /\ IsFiniteSet(Standards)
  /\ NoBoundary \notin Boundaries
  /\ NoSnapshot \notin SnapshotRow
  /\ NoPoint \notin Statuses
  /\ NoRequest \notin Request
  /\ Ops \subseteq Lifecycle \cup BoundaryOps \cup OtherOps
  /\ MaxPoints \in Nat

VARIABLES
  project,   \* the reporting_projects rows
  snapshot,  \* the boundary_snapshots row of each project, or NoSnapshot
  member,    \* boundary -> the entities with an included membership
  default,   \* the organization's default boundary, or NoBoundary
  known,     \* the company entities that exist
  attached,  \* project -> the standards attached to it
  data,      \* status of the data point for each standard, or NoPoint
  bound,     \* project -> the standards whose item is bound to its point
  stored,    \* stored item status; "none": never calculated, no row
  req        \* the requests

boundaries == <<member, default, known>>
content == <<attached, data, bound, stored>>
vars == <<project, snapshot, member, default, known, attached, data, bound,
          stored, req>>

-----------------------------------------------------------------------------
(* Completeness and the gates.                                              *)

InScope(row, mem, i) == row.boundary # NoBoundary => EntityOf[i] \in mem[row.boundary]

\* calculate_item_status, for one point without coverage or evidence rules.
ItemStatus(j, i, row, mem, points, bindings) ==
  CASE i \notin bindings[j] \/ ~InScope(row, mem, i) -> "missing"
    [] i \in bindings[j] /\ InScope(row, mem, i) /\ points[j][i] = "approved" -> "complete"
    [] OTHER -> "partial"

\* The stored statuses of a project after all its items are recalculated.
Recalculated(j, row, mem) ==
  [i \in Standards |-> IF i \in attached[j]
                       THEN ItemStatus(j, i, row, mem, data, bound)
                       ELSE stored[j][i]]

Having(j, statuses) == {i \in Standards : data[j][i] \in statuses}
Counted(j) == {i \in Standards : stored[j][i] # "none"}
Complete(j) == {i \in Standards : stored[j][i] = "complete"}

\* round(100 * part / total, 1) >= threshold; the tenth is rounded half up.
Reaches(part, total, threshold) == 2000 * part + total >= 20 * threshold * total

\* completion_percent against the threshold: the item statuses that exist, or
\* the data points if there are none, or zero.
ProjectIncompleteGate(j, threshold) ==
  IF Counted(j) # {}
  THEN Reaches(Cardinality(Complete(j)), Cardinality(Counted(j)), threshold)
  ELSE /\ Having(j, Statuses) # {}
       /\ Reaches(Cardinality(Having(j, {"approved"})),
                  Cardinality(Having(j, Statuses)), threshold)

\* boundary_snapshot_locked
SnapshotLocked(j) ==
  /\ project[j].boundary # NoBoundary
  /\ snapshot[j] # NoSnapshot
  /\ snapshot[j].boundary = project[j].boundary

ReviewNotCompletedGate(j) ==
  Having(j, Statuses) # {} => Having(j, {"approved", "rejected", "needs_revision"}) # {}
UnresolvedReviewGate(j) == Having(j, {"in_review", "rejected", "needs_revision"}) = {}

\* No project that uses the boundary is in review or published.
\* Mutant: review only.
LockedInReviewOnly(b) ==
  \A j \in Projects : project[j].boundary = b => project[j].status # "review"
BoundaryEditable(b) ==
  \A j \in Projects :
    project[j].boundary = b => project[j].status \notin {"review", "published"}

\* The status a lifecycle request needs, and the one it sets.
From == [start |-> "draft", review |-> "active", publish |-> "review",
         rollback |-> "published"]
To == [start |-> "active", review |-> "review", publish |-> "published",
       rollback |-> "active"]

Gates(op, j) ==
  CASE op = "start" -> attached[j] # {} /\ project[j].boundary # NoBoundary
    [] op = "review" -> ProjectIncompleteGate(j, 80)
    [] op = "publish" -> /\ SnapshotLocked(j)
                         /\ ProjectIncompleteGate(j, 100)
                         /\ ReviewNotCompletedGate(j)
                         /\ UnresolvedReviewGate(j)
    [] op = "rollback" -> TRUE

\* Mutant: the published check is missing.
ApplyAnyTime(j) == TRUE
ApplyAllowed(j) == project[j].status # "published"
SnapshotAllowed(j) ==
  project[j].status # "published" /\ project[j].boundary # NoBoundary

-----------------------------------------------------------------------------
(* Lifecycle and boundary requests, first step: load the rows the request   *)
(* will work on and pass the gates.  A blocked request leaves no trace and  *)
(* is not a step.                                                           *)

Begin(r, request) ==
  /\ request.op \in Ops
  /\ req[r] = NoRequest
  /\ req' = [req EXCEPT ![r] = request]
  /\ UNCHANGED <<project, snapshot, boundaries, content>>

BeginLifecycle(r, op, j) ==
  /\ project[j].status = From[op]
  /\ Gates(op, j)
  /\ Begin(r, [op |-> op, project |-> j])

BeginApply(r, j, b) ==
  /\ ApplyAllowed(j)
  /\ Begin(r, [op |-> "apply", project |-> j, boundary |-> b, row |-> project[j]])

BeginSnapshot(r, j) ==
  /\ SnapshotAllowed(j)
  /\ Begin(r, [op |-> "snapshot", project |-> j, found |-> snapshot[j],
               new |-> [boundary |-> project[j].boundary,
                        members |-> member[project[j].boundary]]])

BeginMembers(r, b, set) ==
  /\ BoundaryEditable(b)
  /\ Begin(r, [op |-> "members", boundary |-> b, members |-> set,
               found |-> member[b]])

BeginRecalculate(r, b) ==
  /\ BoundaryEditable(b)
  /\ Begin(r, [op |-> "recalculate", boundary |-> b])

-----------------------------------------------------------------------------
(* Second step: write and commit.                                           *)

Finishing(r, ops) ==
  /\ req[r] # NoRequest
  /\ req[r].op \in ops
  /\ req' = [req EXCEPT ![r] = NoRequest]

\* start_project, review_project, publish_project, rollback_project.
Advance(r) ==
  /\ Finishing(r, Lifecycle)
  /\ project' = [project EXCEPT ![req[r].project].status = To[req[r].op]]
  /\ UNCHANGED <<snapshot, boundaries, content>>

\* The boundary column is written only if it differs from the loaded row; the
\* snapshot goes in any case, and no item is recalculated.
ApplyBoundary(r) ==
  LET j == req[r].project
      b == req[r].boundary
  IN /\ Finishing(r, {"apply"})
     /\ project' = [project EXCEPT ![j].boundary =
                      IF b # req[r].row.boundary THEN b ELSE @]
     /\ snapshot' = [snapshot EXCEPT ![j] = NoSnapshot]
     /\ UNCHANGED <<boundaries, content>>

\* INSERT, or UPDATE of the columns that differ; a row that came or went in
\* between makes the request fail, which is Abort.
SaveSnapshot(r) ==
  LET j == req[r].project
      new == req[r].new
      old == req[r].found
  IN /\ Finishing(r, {"snapshot"})
     /\ old = NoSnapshot => snapshot[j] = NoSnapshot
     /\ old \notin {NoSnapshot, new} => snapshot[j] # NoSnapshot
     /\ snapshot' = [snapshot EXCEPT ![j] =
          CASE old = NoSnapshot -> new
            [] old = new -> @
            [] OTHER -> [boundary |-> IF new.boundary # old.boundary
                                      THEN new.boundary ELSE @.boundary,
                         members |-> IF new.members # old.members
                                     THEN new.members ELSE @.members]]
     /\ UNCHANGED <<project, boundaries, content>>

Users(b) == {j \in Projects : project[j].boundary = b}

\* What follows a change of memberships: the snapshots of the projects that
\* use the boundary go, and their items are recalculated.
\* Mutant: the snapshots stay.
RecalculateOnly(b, mem) ==
  /\ stored' = [j \in Projects |-> IF j \in Users(b)
                                   THEN Recalculated(j, project[j], mem)
                                   ELSE stored[j]]
  /\ UNCHANGED snapshot
InvalidateAndRecalculate(b, mem) ==
  /\ snapshot' = [j \in Projects |-> IF j \in Users(b) THEN NoSnapshot ELSE snapshot[j]]
  /\ stored' = [j \in Projects |-> IF j \in Users(b)
                                   THEN Recalculated(j, project[j], mem)
                                   ELSE stored[j]]

\* Only memberships that differ from the loaded ones are written; one that was
\* inserted in between makes the request fail.
ReplaceMemberships(r) ==
  LET b == req[r].boundary
      gone == req[r].found \ req[r].members
      new == req[r].members \ req[r].found
      mem == [member EXCEPT ![b] = (@ \ gone) \cup new]
  IN /\ Finishing(r, {"members"})
     /\ new \cap member[b] = {}
     /\ member' = mem
     /\ InvalidateAndRecalculate(b, mem)
     /\ UNCHANGED <<project, default, known, attached, data, bound>>

\* The default boundary gets the parent company back.
RecalculateMemberships(r) ==
  LET b == req[r].boundary
      mem == [member EXCEPT ![b] = IF b = default THEN @ \cup {Root} ELSE @]
  IN /\ Finishing(r, {"recalculate"})
     /\ member' = mem
     /\ InvalidateAndRecalculate(b, mem)
     /\ UNCHANGED <<project, default, known, attached, data, bound>>

Abort(r) ==
  /\ req[r] # NoRequest
  /\ req' = [req EXCEPT ![r] = NoRequest]
  /\ UNCHANGED <<project, snapshot, boundaries, content>>

-----------------------------------------------------------------------------
(* Requests that are one step here.                                         *)

Quick(r, op) ==
  /\ op \in Ops
  /\ req[r] = NoRequest
  /\ UNCHANGED <<project, req>>

\* update_boundary with is_default.
SetDefault(r, b, on) ==
  /\ Quick(r, "default")
  /\ BoundaryEditable(b)
  /\ default' = IF on THEN b ELSE IF default = b THEN NoBoundary ELSE default
  /\ UNCHANGED <<snapshot, member, known, content>>

\* create_entity enters the default boundary whatever its projects are doing;
\* snapshots and items stay as they are.
\* Mutant: the membership is written without the entity.
MembershipOnly(r, e) ==
  /\ Quick(r, "entity")
  /\ member' = [b \in Boundaries |-> IF b = default THEN member[b] \cup {e} ELSE member[b]]
  /\ UNCHANGED <<known, snapshot, default, content>>
CreateEntity(r, e) ==
  /\ Quick(r, "entity")
  /\ e \notin known
  /\ known' = known \cup {e}
  /\ member' = [b \in Boundaries |-> IF b = default THEN member[b] \cup {e} ELSE member[b]]
  /\ UNCHANGED <<snapshot, default, content>>

\* In any project status, and without item rows.
AddStandard(r, j, i) ==
  /\ Quick(r, "standard")
  /\ i \notin attached[j]
  /\ attached' = [attached EXCEPT ![j] = @ \cup {i}]
  /\ UNCHANGED <<snapshot, boundaries, data, bound, stored>>

Created == {x \in Projects \X Standards : data[x[1]][x[2]] # NoPoint}
CreatePoint(r, j, i) ==
  /\ Quick(r, "create")
  /\ data[j][i] = NoPoint
  /\ Cardinality(Created) < MaxPoints
  /\ data' = [data EXCEPT ![j][i] = "draft"]
  /\ UNCHANGED <<snapshot, boundaries, attached, bound, stored>>

BindPoint(r, j, i) ==
  /\ Quick(r, "bind")
  /\ data[j][i] # NoPoint /\ i \notin bound[j]
  /\ bound' = [bound EXCEPT ![j] = @ \cup {i}]
  /\ stored' = [stored EXCEPT ![j][i] =
                  ItemStatus(j, i, project[j], member, data, bound')]
  /\ UNCHANGED <<snapshot, boundaries, attached, data>>

\* submit and rollback look at the project, reviews do not.
\* Mutant: the gate is not among the gates of the workflow service.
GateMissing(j, to) == TRUE
ProjectLockedGate(j, to) ==
  to \in {"submitted", "draft"} => project[j].status # "published"

\* A submit may go straight on to in_review.
Reached(to) == IF to = "submitted" THEN {"submitted", "in_review"} ELSE {to}

\* A single-point status change.
DecidePoint(r, j, i, to) ==
  /\ Quick(r, "decide")
  /\ data[j][i] # NoPoint
  /\ \E role \in Roles : CanTransition(data[j][i], to, role)
  /\ ProjectLockedGate(j, to)
  /\ \E reached \in Reached(to) : data' = [data EXCEPT ![j][i] = reached]
  /\ stored' = [stored EXCEPT ![j][i] =
                  IF i \in bound[j] THEN ItemStatus(j, i, project[j], member, data', bound)
                  ELSE @]
  /\ UNCHANGED <<snapshot, boundaries, attached, bound>>

\* Batch review recalculates nothing.
BatchDecide(r, j, i, to) ==
  /\ Quick(r, "batch")
  /\ data[j][i] = "in_review"
  /\ data' = [data EXCEPT ![j][i] = to]
  /\ UNCHANGED <<snapshot, boundaries, attached, bound, stored>>

GetCompleteness(r, j) ==
  /\ Quick(r, "completeness")
  /\ stored' = [stored EXCEPT ![j] = Recalculated(j, project[j], member)]
  /\ UNCHANGED <<snapshot, boundaries, attached, data, bound>>

-----------------------------------------------------------------------------

\* Onboarding puts every entity into the default boundary, other boundaries
\* start empty; a project starts on the default boundary of its time, if any,
\* with the organization's default standards.
Init ==
  /\ default \in Boundaries \cup {NoBoundary}
  /\ known \in {K \in SUBSET Entities : Root \in K}
  /\ member = [b \in Boundaries |-> IF b = default THEN known ELSE {}]
  /\ \E b \in {NoBoundary, default} :
       project = [j \in Projects |-> [status |-> "draft", boundary |-> b]]
  /\ snapshot = [j \in Projects |-> NoSnapshot]
  /\ attached \in [Projects -> SUBSET Standards]
  /\ data = [j \in Projects |-> [i \in Standards |-> NoPoint]]
  /\ bound = [j \in Projects |-> {}]
  /\ stored = [j \in Projects |-> [i \in Standards |-> "none"]]
  /\ req = [r \in Requests |-> NoRequest]

Finish(r) ==
  \/ Advance(r)
  \/ ApplyBoundary(r)
  \/ SaveSnapshot(r)
  \/ ReplaceMemberships(r)
  \/ RecalculateMemberships(r)
  \/ Abort(r)

Direct(r) ==
  \/ \E b \in Boundaries, on \in BOOLEAN : SetDefault(r, b, on)
  \/ \E e \in Entities : CreateEntity(r, e)
  \/ \E j \in Projects, i \in Standards :
       \/ AddStandard(r, j, i)
       \/ CreatePoint(r, j, i)
       \/ BindPoint(r, j, i)
       \/ \E to \in Statuses : DecidePoint(r, j, i, to)
       \/ \E to \in {"approved", "rejected", "needs_revision"} : BatchDecide(r, j, i, to)
  \/ \E j \in Projects : GetCompleteness(r, j)

Start(r) ==
  \/ \E j \in Projects :
       \/ \E op \in Lifecycle : BeginLifecycle(r, op, j)
       \/ \E b \in Boundaries : BeginApply(r, j, b)
       \/ BeginSnapshot(r, j)
  \/ \E b \in Boundaries :
       \/ \E set \in SUBSET known : BeginMembers(r, b, set)
       \/ BeginRecalculate(r, b)

Next == \E r \in Requests : Start(r) \/ Finish(r) \/ Direct(r)

Spec == Init /\ [][Next]_vars

-----------------------------------------------------------------------------
(* Properties.                                                              *)

\* The variables keep their types; memberships, snapshots and bindings refer
\* to entities and points that exist.
TypeOK ==
  /\ project \in [Projects -> ProjectRow]
  /\ snapshot \in [Projects -> SnapshotRow \cup {NoSnapshot}]
  /\ member \in [Boundaries -> SUBSET known]
  /\ default \in Boundaries \cup {NoBoundary}
  /\ known \in SUBSET Entities /\ Root \in known
  /\ attached \in [Projects -> SUBSET Standards]
  /\ data \in [Projects -> [Standards -> Statuses \cup {NoPoint}]]
  /\ bound \in [Projects -> SUBSET Standards]
  /\ stored \in [Projects -> [Standards -> ItemStatuses]]
  /\ req \in [Requests -> Request \cup {NoRequest}]
  /\ \A j \in Projects : \A i \in bound[j] : data[j][i] # NoPoint

\* With requests that do not overlap, a published project has the snapshot of
\* the boundary it reports on: neither its own boundary requests nor changes of
\* memberships, its own or made for another project that shares the boundary,
\* take it away.
PublishedHasSnapshot ==
  \A j \in Projects : project[j].status = "published" => SnapshotLocked(j)

\* With requests that do not overlap, no data point of a published project is
\* under review or sent back: publication waits for reviews to be settled, and
\* submit, the only way into review, is closed.
PublishedSettled ==
  \A j \in Projects : project[j].status = "published" => UnresolvedReviewGate(j)

\* With requests that do not overlap, no entity of a locked snapshot has left
\* the boundary: what the snapshot says was reported on still is.  Entities
\* created later enter the default boundary beside it.
SnapshotCovered ==
  \A j \in Projects :
    SnapshotLocked(j) => snapshot[j].members \subseteq member[project[j].boundary]

\* With requests that do not overlap, the lifecycle is ReportingPeriod.
Period == INSTANCE ReportingPeriod WITH
  status <- [j \in Projects |-> project[j].status],
  boundary <- [j \in Projects |-> project[j].boundary]
ImplementsPeriod == Period!Spec

-----------------------------------------------------------------------------
(* A promise of the documentation the code does not keep.                   *)

\* A project is published only when every required item is complete: items
\* that were never calculated have no status row and are not counted.
PublishedComplete ==
  [][\A j \in Projects :
       project[j].status = "review" /\ project'[j].status = "published"
         => \A i \in attached[j] : stored[j][i] = "complete"]_vars
=============================================================================
