--------------------------- MODULE EvidenceLinks ---------------------------
(***************************************************************************)
(* Evidence of one organization: who may open and change it, the data      *)
(* points and requirement items it supports, and what the pages tell of    *)
(* both (EvidenceService, EvidenceRepository, core/access).                *)
(*                                                                         *)
(* Users keep their role; duties on assignments move.  An upload stores    *)
(* the file before the transaction that records it commits, a binding to a *)
(* requirement item reads its context before it inserts, and a deletion    *)
(* asks for approved points before it deletes.                             *)
(***************************************************************************)
EXTENDS Naturals, FiniteSets

CONSTANTS
  Users, RoleOf, Nobody,
  Evidences,
  Points,        \* [project, element, entity, facility, by], either place possibly Nowhere
  Nowhere,
  Projects,
  Assignments,   \* [project, element, entity, facility], likewise
  Teams,         \* [collector, backup, reviewer]: who can be on duty, each of his role
  Items,         \* [standard]: requirement items
  Standards

VARIABLES
  evidence,  \* evidences: who created each, and whether with a file that was uploaded
  stored,    \* the evidence whose file is in the storage
  links,     \* data_point_evidences
  bindings,  \* requirement_item_evidences
  attached,  \* reporting_project_standards, as pairs <<project, standard>>
  current,   \* requirement items that are current
  duty,      \* collector, backup collector and reviewer of each assignment
  approved,  \* the points that are approved
  request,   \* the upload or the binding in flight
  deletion   \* the deletion in flight, with the points approved with it since its check

vars == <<evidence, stored, links, bindings, attached, current, duty, approved, request, deletion>>

Rows == [by : Users, uploaded : BOOLEAN]
Absent == [by |-> Nobody, state |-> "absent"]
\* Deleted, or never committed: its name is not used again.
Gone == [by |-> Nobody, state |-> "gone"]
Idle == [stage |-> "idle"]
Links == Points \X Evidences
Bindings == [project : Projects, item : Items, evidence : Evidences]
NoTeam == [collector |-> Nobody, backup |-> Nobody, reviewer |-> Nobody]

TypeOK ==
  /\ evidence \in [Evidences -> Rows \cup {Absent, Gone}]
  /\ stored \subseteq Evidences
  /\ links \subseteq Links /\ bindings \subseteq Bindings
  /\ attached \subseteq Projects \X Standards /\ current \subseteq Items
  /\ duty \in [Assignments -> Teams \cup {NoTeam}]
  /\ approved \subseteq Points
  /\ request.stage \in {"idle", "uploaded", "resolved"}
  /\ deletion.stage \in {"idle", "checked"}

Init ==
  /\ evidence = [e \in Evidences |-> Absent]
  /\ stored = {} /\ links = {} /\ bindings = {}
  /\ attached = {} /\ current = Items
  /\ duty = [a \in Assignments |-> NoTeam]
  /\ approved = {}
  /\ request = Idle /\ deletion = Idle

Exists(e) == evidence[e] \notin {Absent, Gone}
Everywhere(u) == RoleOf[u] \in {"admin", "esg_manager", "auditor"}
MayCreate(u) == RoleOf[u] \in {"admin", "esg_manager", "collector"}

-----------------------------------------------------------------------------
(* Access.                                                                 *)

Holds(u, a) == \/ RoleOf[u] = "collector" /\ u \in {duty[a].collector, duty[a].backup}
               \/ RoleOf[u] = "reviewer" /\ duty[a].reviewer = u

\* get_matching_assignment: the WHERE clause.  assignment_matches_data_point: the
\* same in Python.
Fits(mine, asked) == IF asked # Nowhere THEN mine \in {asked, Nowhere} ELSE mine = Nowhere
MatchesInSql(a, p) ==
  /\ a.project = p.project /\ a.element = p.element
  /\ Fits(a.entity, p.entity) /\ Fits(a.facility, p.facility)
MatchesInPython(a, p) ==
  /\ a.element = p.element
  /\ ~(a.entity # Nowhere /\ a.entity # p.entity)
  /\ ~(a.facility # Nowhere /\ a.facility # p.facility)

SeesProject(u, pr) ==
  Everywhere(u) \/ \E a \in Assignments : a.project = pr /\ Holds(u, a)

SeesPoint(u, p) ==
  /\ SeesProject(u, p.project)
  /\ \/ Everywhere(u)
     \/ RoleOf[u] = "collector" /\ p.by = u
     \/ \E a \in Assignments : MatchesInSql(a, p) /\ Holds(u, a)

VisibleByPoint(u, e) == \E p \in Points : <<p, e>> \in links /\ SeesPoint(u, p)

\* Mutant: only collectors find evidence by its points.
MayReadOwn(u, e) ==
  \/ Everywhere(u)
  \/ RoleOf[u] = "collector" /\ (evidence[e].by = u \/ VisibleByPoint(u, e))

MayRead(u, e) ==
  \/ Everywhere(u)
  \/ RoleOf[u] = "collector" /\ evidence[e].by = u
  \/ RoleOf[u] \in {"collector", "reviewer"} /\ VisibleByPoint(u, e)

MayModify(u, e) ==
  \/ RoleOf[u] \in {"admin", "esg_manager"}
  \/ RoleOf[u] = "collector" /\ evidence[e].by = u

-----------------------------------------------------------------------------
(* Operations.                                                             *)

\* A link, or a file under a URI that its creator names: whether it is there nobody asks.
Create(u, e) ==
  /\ MayCreate(u) /\ evidence[e] = Absent /\ request = Idle
  /\ evidence' = [evidence EXCEPT ![e] = [by |-> u, uploaded |-> FALSE]]
  /\ UNCHANGED <<stored, links, bindings, attached, current, duty, approved, request, deletion>>

\* create_with_file: the file goes to the storage first.
Upload(u, e) ==
  /\ request = Idle /\ MayCreate(u) /\ evidence[e] = Absent
  /\ stored' = stored \cup {e}
  /\ request' = [stage |-> "uploaded", user |-> u, evidence |-> e]
  /\ UNCHANGED <<evidence, links, bindings, attached, current, duty, approved, deletion>>

\* A request that fails after the upload leaves a file that nothing names.
Record ==
  /\ request.stage = "uploaded"
  /\ \E row \in {[by |-> request.user, uploaded |-> TRUE], Gone} :
       evidence' = [evidence EXCEPT ![request.evidence] = row]
  /\ request' = Idle
  /\ UNCHANGED <<stored, links, bindings, attached, current, duty, approved, deletion>>

\* What came to be approved with the evidence since the deletion asked.
Since(p) ==
  IF deletion # Idle /\ p \in approved' /\ <<p, deletion.evidence>> \in links'
  THEN [deletion EXCEPT !.since = @ \cup {p}]
  ELSE deletion

Link(u, p, e) ==
  /\ Exists(e) /\ MayCreate(u) /\ MayModify(u, e) /\ SeesPoint(u, p)
  /\ <<p, e>> \notin links                              \* uq_dp_evidence
  /\ links' = links \cup {<<p, e>>}
  /\ UNCHANGED <<evidence, stored, bindings, attached, current, duty, approved, request>>
  /\ deletion' = Since(p)

Unlink(u, p, e) ==
  /\ MayCreate(u) /\ SeesPoint(u, p) /\ <<p, e>> \in links
  /\ links' = links \ {<<p, e>>}
  /\ UNCHANGED <<evidence, stored, bindings, attached, current, duty, approved, request, deletion>>

ItemProjects(i) == {pr \in Projects : <<pr, i.standard>> \in attached}
EvidenceProjects(e) == {p.project : p \in {q \in Points : <<q, e>> \in links}}

\* Mutant: the projects of the evidence are taken without asking for the item's.
CandidatesOfEvidence(i, e) ==
  IF EvidenceProjects(e) = {} THEN ItemProjects(i) ELSE EvidenceProjects(e)

\* _resolve_bindable_requirement_context: the projects a binding may be for.
Candidates(i, e) ==
  IF EvidenceProjects(e) = {} THEN ItemProjects(i)
  ELSE IF EvidenceProjects(e) \subseteq ItemProjects(i) THEN EvidenceProjects(e) ELSE {}

\* Without a chosen project there must be one candidate.
Resolve(u, i, e) ==
  /\ request = Idle /\ Exists(e) /\ MayCreate(u) /\ MayModify(u, e) /\ i \in current
  /\ \E pr \in Candidates(i, e), chosen \in BOOLEAN :
       /\ chosen \/ Cardinality(Candidates(i, e)) = 1
       /\ [project |-> pr, item |-> i, evidence |-> e] \notin bindings
       /\ request' = [stage |-> "resolved",
                      binding |-> [project |-> pr, item |-> i, evidence |-> e]]
  /\ UNCHANGED <<evidence, stored, links, bindings, attached, current, duty, approved, deletion>>

\* The foreign key refuses the binding of what was deleted meanwhile.
Bind ==
  /\ request.stage = "resolved"
  /\ bindings' = IF Exists(request.binding.evidence) THEN bindings \cup {request.binding}
                 ELSE bindings
  /\ request' = Idle
  /\ UNCHANGED <<evidence, stored, links, attached, current, duty, approved, deletion>>

\* not_in_approved_scope.
InApprovedScope(e) == \E p \in approved : <<p, e>> \in links

\* Mutant: the points are not asked for.
CheckNothing(u, e) ==
  /\ deletion = Idle /\ Exists(e) /\ MayModify(u, e)
  /\ deletion' = [stage |-> "checked", evidence |-> e, since |-> {}]
  /\ UNCHANGED <<evidence, stored, links, bindings, attached, current, duty, approved, request>>

\* delete_evidence: checks first.
CheckDelete(u, e) ==
  /\ deletion = Idle /\ Exists(e) /\ MayModify(u, e) /\ ~InApprovedScope(e)
  /\ deletion' = [stage |-> "checked", evidence |-> e, since |-> {}]
  /\ UNCHANGED <<evidence, stored, links, bindings, attached, current, duty, approved, request>>

\* Links and bindings go with the row, the file stays.  Or the request fails.
Delete ==
  LET e == deletion.evidence IN
  /\ deletion.stage = "checked"
  /\ \/ /\ evidence' = [evidence EXCEPT ![e] = Gone]
        /\ links' = {l \in links : l[2] # e}
        /\ bindings' = {b \in bindings : b.evidence # e}
     \/ UNCHANGED <<evidence, links, bindings>>
  /\ deletion' = Idle
  /\ UNCHANGED <<stored, attached, current, duty, approved, request>>

\* What other services do meanwhile.
Attach(pr, s) ==
  /\ <<pr, s>> \notin attached
  /\ attached' = attached \cup {<<pr, s>>}
  /\ UNCHANGED <<evidence, stored, links, bindings, current, duty, approved, request, deletion>>

Retire(i) ==
  /\ i \in current
  /\ current' = current \ {i}
  /\ UNCHANGED <<evidence, stored, links, bindings, attached, duty, approved, request, deletion>>

Reassign(a) ==
  /\ \E team \in Teams : duty' = [duty EXCEPT ![a] = team]
  /\ UNCHANGED <<evidence, stored, links, bindings, attached, current, approved, request, deletion>>

\* DataPointWorkflow has the gates of the approval.
Approve(p) ==
  /\ p \notin approved
  /\ approved' = approved \cup {p}
  /\ UNCHANGED <<evidence, stored, links, bindings, attached, current, duty, request>>
  /\ deletion' = Since(p)

Reopen(p) ==
  /\ p \in approved
  /\ approved' = approved \ {p}
  /\ UNCHANGED <<evidence, stored, links, bindings, attached, current, duty, request, deletion>>

Next ==
  \/ Record \/ Bind \/ Delete
  \/ \E u \in Users, e \in Evidences :
       \/ Create(u, e) \/ Upload(u, e) \/ CheckDelete(u, e)
       \/ \E p \in Points : Link(u, p, e) \/ Unlink(u, p, e)
       \/ \E i \in Items : Resolve(u, i, e)
  \/ \E pr \in Projects, s \in Standards : Attach(pr, s)
  \/ \E i \in Items : Retire(i)
  \/ \E a \in Assignments : Reassign(a)
  \/ \E p \in Points : Approve(p) \/ Reopen(p)

Spec == Init /\ [][Next]_vars

-----------------------------------------------------------------------------
(* What the pages tell.                                                    *)

LinkedPoints(e) == {p \in Points : <<p, e>> \in links}
LinkedRequirements(e) == {b \in bindings : b.evidence = e}
Status(e) == IF LinkedPoints(e) # {} \/ LinkedRequirements(e) # {} THEN "bound" ELSE "unbound"

\* The filter of the list is a WHERE clause of its own.
ListedUnlinked(e) == /\ ~\E p \in Points : <<p, e>> \in links
                     /\ ~\E b \in bindings : b.evidence = e

-----------------------------------------------------------------------------
\* Whoever may open a data point may open the evidence its page lists, and whoever
\* may change evidence may open it, although duties move and evidence is linked by
\* others; the two ways an assignment is matched with a point agree.
AccessAgrees ==
  /\ \A l \in links, u \in Users : SeesPoint(u, l[1]) => MayRead(u, l[2])
  /\ \A e \in Evidences, u \in Users : Exists(e) /\ MayModify(u, e) => MayRead(u, e)
  /\ \A a \in Assignments, p \in Points :
       a.project = p.project => (MatchesInSql(a, p) <=> MatchesInPython(a, p))

\* Evidence supports an item only for a project that reports on the item's
\* standard, also when links and standards change while the binding is made, or the
\* evidence is deleted; and every page that shows a binding of the evidence agrees with
\* the list of evidence that supports nothing.  A file recorded by an upload is in the
\* storage.  A deletion takes evidence only from points that were not approved with it
\* when it asked, or from no approved point.
EvidenceInContext ==
  /\ \A b \in bindings : b.project \in ItemProjects(b.item) /\ Exists(b.evidence)
  /\ \A l \in links : Exists(l[2])
  /\ \A e \in Evidences : Exists(e) => (Status(e) = "unbound" <=> ListedUnlinked(e))
  /\ \A e \in Evidences : Exists(e) /\ evidence[e].uploaded => e \in stored
  /\ deletion # Idle =>
       \A p \in approved : <<p, deletion.evidence>> \in links => p \in deletion.since
=============================================================================
