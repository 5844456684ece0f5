---------------------------- MODULE ProgressViews ----------------------------
(***************************************************************************)
(* How far a project is, told in five places: the completeness page        *)
(* (CompletenessService), the progress per standard and per disclosure of  *)
(* DashboardService, the coverage of MergeService, the project and its     *)
(* standards in ProjectService, and the stored rows they are computed from.*)
(*                                                                         *)
(* Each request is one transaction and one step; overlapping workflow      *)
(* transactions, and evidence, are in DataPointWorkflow.  So an answer the *)
(* dashboard keeps is dropped together with the change, where the code     *)
(* drops it before the commit, in the process that serves the request.     *)
(* One viewer and one process are modelled.  A percentage is a pair of     *)
(* counts: its rounding to one decimal is left out.                        *)
(***************************************************************************)
EXTENDS Naturals, FiniteSets

CONSTANTS
  Items, Optional, EntityWide,   \* requirement items; those not required, and those
                                 \* that every entity of the boundary must report
  DisclosureOf, StandardOf,      \* functions of the items, and of their disclosures
  Points, ItemOf, EntityOf,      \* data points, the item and the entity of each
  Entities, Nowhere              \* company entities, and the absence of one

VARIABLES
  created,    \* the requirement items that exist
  retired,    \* those of them that are no longer current
  attached,   \* the standards of the project
  point,      \* each data point: unbound, or bound and in a status
  boundary,   \* the included entities of the project's boundary; Nowhere in it: no boundary
  itemRow,    \* requirement_item_statuses of the project
  disclosed,  \* disclosure_requirement_statuses of the project
  cached,     \* the answer the dashboard keeps for a minute
  shown       \* history: the completeness page has just been shown

vars == <<created, retired, attached, point, boundary, itemRow, disclosed, cached, shown>>

Disclosures == DOMAIN StandardOf
Standards == {StandardOf[d] : d \in Disclosures}
Absent == "absent"
Statuses == {"complete", "partial", "missing"}
NoBoundary == {Nowhere}
Unstored == [status |-> Absent, complete |-> 0, total |-> 0]
NotKept == [kept |-> 0]
\* An answer a change did not drop; what it says is not modelled.
Outdated == [kept |-> 2]

ConstantsOK ==
  /\ IsFiniteSet(Items)
  /\ DisclosureOf \in [Items -> Disclosures]
  /\ ItemOf \in [Points -> Items]
  /\ EntityOf \in [Points -> Entities \cup {Nowhere}]
  /\ Nowhere \notin Entities

TypeOK ==
  /\ created \subseteq Items
  /\ retired \subseteq created
  /\ attached \subseteq Standards
  /\ point \in [Points -> {"unbound", "open", "approved"}]
  /\ boundary \in {NoBoundary} \cup SUBSET Entities
  /\ itemRow \in [Items -> Statuses \cup {Absent}]
  /\ disclosed \in [Disclosures -> [status : Statuses \cup {Absent},
                                    complete : 0..Cardinality(Items),
                                    total : 0..Cardinality(Items)]]
  /\ shown \in BOOLEAN

Init ==
  /\ created = {}
  /\ retired = {}
  /\ attached = {}
  /\ point = [p \in Points |-> "unbound"]
  /\ boundary = NoBoundary
  /\ itemRow = [i \in Items |-> Absent]
  /\ disclosed = [d \in Disclosures |-> Unstored]
  /\ cached = NotKept
  /\ shown = FALSE

\* get_required_items, list_project_items.
Required == created \ (Optional \cup retired)
RequiredOf(d) == {i \in Required : DisclosureOf[i] = d}
StandardItems(s) == {i \in Required : StandardOf[DisclosureOf[i]] = s}
ProjectItems == UNION {StandardItems(s) : s \in attached}

-----------------------------------------------------------------------------
(* Writing the rows.                                                       *)

\* calculate_item_status.
InScope(i) ==
  {p \in Points : /\ ItemOf[p] = i
                  /\ point[p] # "unbound"
                  /\ boundary = NoBoundary \/ EntityOf[p] \in boundary \cup {Nowhere}}
ApprovedIn(i) == {p \in InScope(i) : point[p] = "approved"}
EntitiesOf(S) == {EntityOf[p] : p \in S} \ {Nowhere}
LeavesOut(i) == boundary \notin {NoBoundary, {}} /\ EntitiesOf(ApprovedIn(i)) # boundary

ItemStatus(i) ==
  IF InScope(i) = {} THEN "missing"
  ELSE IF ApprovedIn(i) = {} \/ (i \in EntityWide /\ LeavesOut(i)) THEN "partial"
  ELSE "complete"

Recalculated(S) == [i \in Items |-> IF i \in S THEN ItemStatus(i) ELSE itemRow[i]]

\* aggregate_disclosure_status, from the rows: an item without one is missing.
Stored(row, i) == IF row[i] = Absent THEN "missing" ELSE row[i]
With(row, S, status) == {i \in S : Stored(row, i) = status}
Share(row, S) == [complete |-> Cardinality(With(row, S, "complete")), total |-> Cardinality(S)]

AggregateOf(row, S) ==
  LET share == Share(row, S) IN
  [status |-> IF share.complete = share.total THEN "complete"
              ELSE IF share.complete > 0 THEN "partial" ELSE "missing",
   complete |-> share.complete, total |-> share.total]
\* Mutant: the items are aggregated before they are recalculated.
AggregateLate(row, S) == AggregateOf(itemRow, S)
Aggregate(row, S) == AggregateOf(row, S)

-----------------------------------------------------------------------------
(* The dashboard.                                                          *)

\* _build_standard_progress of the dashboard.
StandardProgress(s) == Share(itemRow, StandardItems(s))

\* _build_disclosure_progress of the dashboard: the worst status of the items.
DisclosureProgress(d) ==
  IF With(itemRow, RequiredOf(d), "missing") # {} THEN "missing"
  ELSE IF With(itemRow, RequiredOf(d), "partial") # {} THEN "partial" ELSE "complete"

\* _item_status_counts: over every row that is stored.
StoredItems == {i \in Items : itemRow[i] # Absent}
DashboardOverall == Share(itemRow, StoredItems)

\* _build_project_progress, and the answer get_project_progress gives.
Answer ==
  [kept |-> 1, overall |-> DashboardOverall,
   standards |-> [s \in attached |-> StandardProgress(s)],
   disclosures |-> [d \in Disclosures |-> DisclosureProgress(d)]]
Dashboard == IF cached = NotKept THEN Answer ELSE cached

ShowDashboard ==
  /\ cached = NotKept
  /\ cached' = Answer
  /\ UNCHANGED <<created, retired, attached, point, boundary, itemRow, disclosed>>

\* invalidate_dashboard_project, and the end of the minute.
DropAnswer == cached' = NotKept
Expire ==
  /\ DropAnswer
  /\ UNCHANGED <<created, retired, attached, point, boundary, itemRow, disclosed>>

\* A change that drops nothing.
KeepAnswer(changed) ==
  cached' = IF changed /\ cached # NotKept THEN Outdated ELSE cached

-----------------------------------------------------------------------------
(* The requests.                                                           *)

Refreshed(S) ==
  LET row == Recalculated(S)
      touched == {DisclosureOf[i] : i \in S}
  IN /\ itemRow' = row
     /\ disclosed' = [d \in Disclosures |->
                        IF d \in touched THEN Aggregate(row, RequiredOf(d)) ELSE disclosed[d]]

\* What get_project_completeness compares to see whether anything has changed:
\* the statuses of the items, and status and percentage of the disclosures.
SamePercent(a, b) == a.status = b.status /\ a.complete * b.total = b.complete * a.total
DisclosuresDiffer == \E d \in Disclosures : ~SamePercent(disclosed'[d], disclosed[d])
NoticedInRows == itemRow' # itemRow \/ DisclosuresDiffer
\* Mutant: only the disclosures are compared.
NoticedInDisclosures == DisclosuresDiffer
Noticed == NoticedInRows

\* get_project_completeness, for one standard or for all.
ShowCompleteness(S) ==
  /\ S \subseteq attached
  /\ Refreshed(UNION {StandardItems(s) : s \in S})
  /\ \/ Noticed /\ DropAnswer
     \/ ~Noticed /\ KeepAnswer(FALSE)
  /\ UNCHANGED <<created, retired, attached, point, boundary>>
ShowAll == ShowCompleteness(attached)

\* The requests for one item, which may be any item, and for one disclosure.
ShowItem ==
  /\ \E i \in created : itemRow' = Recalculated({i})
  /\ KeepAnswer(itemRow' # itemRow)
  /\ UNCHANGED <<created, retired, attached, point, boundary, disclosed>>
ShowDisclosure ==
  /\ \E d \in Disclosures :
       disclosed' = [disclosed EXCEPT ![d] = Aggregate(itemRow, RequiredOf(d))]
  /\ KeepAnswer(FALSE)
  /\ UNCHANGED <<created, retired, attached, point, boundary, itemRow>>

\* bind_data_point, or a change of status in the workflow, with the item it is
\* bound to recalculated and the disclosure left alone.  (Batch decisions leave the
\* row as well; they are in DataPointWorkflow.)
ChangePoint ==
  /\ DropAnswer
  /\ UNCHANGED <<created, retired, attached, boundary, disclosed>>
  /\ \E p \in Points, status \in {"open", "approved"} :
       /\ ItemOf[p] \in created
       /\ point[p] # status
       /\ point[p] = "unbound" => status = "open"
       /\ point' = [point EXCEPT ![p] = status]
       /\ itemRow' = [itemRow EXCEPT ![ItemOf[p]] = ItemStatus(ItemOf[p])']

\* replace_memberships of BoundaryService recalculates every item and
\* disclosure of the projects that use the boundary.
ReplaceMemberships ==
  /\ DropAnswer
  /\ UNCHANGED <<created, retired, attached, point>>
  /\ boundary # NoBoundary
  /\ boundary' \in SUBSET Entities
  /\ LET row == [i \in Items |-> IF i \in ProjectItems THEN ItemStatus(i)' ELSE itemRow[i]]
         touched == {DisclosureOf[i] : i \in ProjectItems}
     IN /\ itemRow' = row
        /\ disclosed' = [d \in Disclosures |->
                           IF d \in touched THEN Aggregate(row, RequiredOf(d)) ELSE disclosed[d]]

\* apply_boundary of ProjectService: another boundary, nothing recalculated.
ApplyBoundary ==
  /\ boundary' \in SUBSET Entities
  /\ DropAnswer
  /\ UNCHANGED <<created, retired, attached, point, itemRow, disclosed>>

CreateItem ==
  /\ \E i \in Items \ created : created' = created \cup {i}
  /\ KeepAnswer(TRUE)
  /\ UNCHANGED <<retired, attached, point, boundary, itemRow, disclosed>>

\* deactivate_stale_requirement_items of the catalogue imports: the items of a
\* disclosure that the new edition does not have.  Their rows stay, and no
\* import makes an item current again.
RetireItems ==
  /\ \E d \in Disclosures :
       \E S \in SUBSET {i \in created \ retired : DisclosureOf[i] = d} :
         /\ S # {}
         /\ retired' = retired \cup S
  /\ KeepAnswer(TRUE)
  /\ UNCHANGED <<created, attached, point, boundary, itemRow, disclosed>>

AddStandard ==
  /\ \E s \in Standards \ attached : attached' = attached \cup {s}
  /\ DropAnswer
  /\ UNCHANGED <<created, retired, point, boundary, itemRow, disclosed>>

Next ==
  \/ ShowAll /\ shown' = TRUE
  \/ /\ \/ \E s \in attached : ShowCompleteness({s})
        \/ ShowItem \/ ShowDisclosure \/ ChangePoint \/ ReplaceMemberships \/ ApplyBoundary
        \/ CreateItem \/ RetireItems \/ AddStandard \/ ShowDashboard \/ Expire
     /\ shown' = FALSE

Spec == Init /\ [][Next]_vars

-----------------------------------------------------------------------------
(* The other views.                                                        *)

\* get_coverage of merge joins the rows to the items instead: there is no row
\* for what has none, the missing are those that are neither complete nor
\* partial, and a retired item counts like any other.
Rows(s) == {<<i, itemRow[i]>> : i \in {k \in created : StandardOf[DisclosureOf[k]] = s}}
CoverageRows(s) == {x \in Rows(s) : x[1] \notin Optional}
Coverage(s) ==
  [complete |-> Cardinality({x \in CoverageRows(s) : x[2] = "complete"}),
   total |-> Cardinality(CoverageRows(s))]

\* overall_percent of the completeness page, over the items of the project.
PageOverall == Share(itemRow, ProjectItems)
AllComplete(share) == share.complete = share.total

\* list_project_standards and _project_completion_percentage of ProjectService: what
\* is complete, partial or missing, an item without a row among the missing.
Tallied(S) ==
  LET Tally(status) == Cardinality(With(itemRow, S, status)) IN
  [complete |-> Tally("complete"),
   total |-> Tally("complete") + Tally("partial") + Tally("missing")]
StandardSummary(s) == Tallied(StandardItems(s))
ProjectSummary == Tallied(ProjectItems)

\* _missing_boundary_entity_names of the breakdown by disclosure.
WithoutData(d) ==
  {e \in boundary \ {Nowhere} : \A i \in RequiredOf(d) : e \notin EntitiesOf(InScope(i))}

-----------------------------------------------------------------------------
\* The dashboard and the list of the project's standards agree on every standard
\* at any time, whatever rows are there; the merge view counts the required
\* items that are retired on top of theirs, and nothing else.
RetiredOf(s) == {i \in retired \ Optional : StandardOf[DisclosureOf[i]] = s}

StandardsAgree ==
  \A s \in attached :
    /\ StandardSummary(s) = StandardProgress(s)
    /\ Coverage(s).total = StandardProgress(s).total + Cardinality(RetiredOf(s))
    /\ Coverage(s).complete = StandardProgress(s).complete
                              + Cardinality(With(itemRow, RetiredOf(s), "complete"))

\* A dashboard the minute's answer is shown for is the one that would be
\* computed, unless an item was created or retired since, or the request for
\* one item changed its row.
DashboardCurrent == cached = Outdated \/ Dashboard = Answer

\* What holds when the completeness page has just been shown: every row says
\* what the points say; each disclosure is complete on the page exactly when it
\* is on the dashboard, with the percentage of the same counts; the page says
\* 100 % exactly when every standard does, and then the dashboard does too
\* unless it counts items the project does not require; and a disclosure with
\* an entity-wide item that is complete has no entity without data.
PagesAgree ==
  /\ \A i \in ProjectItems : itemRow[i] = ItemStatus(i)
  /\ \A d \in {DisclosureOf[i] : i \in ProjectItems} :
       /\ disclosed[d].status = "complete" <=> DisclosureProgress(d) = "complete"
       /\ disclosed[d].complete = Share(itemRow, RequiredOf(d)).complete
       /\ disclosed[d].total = Share(itemRow, RequiredOf(d)).total
       /\ (\E i \in RequiredOf(d) \cap EntityWide : itemRow[i] = "complete")
          => WithoutData(d) = {}
  /\ ProjectSummary = PageOverall
  /\ AllComplete(PageOverall) <=> \A s \in attached : AllComplete(StandardProgress(s))
  /\ StoredItems = ProjectItems => DashboardOverall = PageOverall

\* Whatever was bound, approved, created, retired, attached or moved out of the
\* boundary before, and whichever rows were stale: the completeness page, the
\* dashboard, the list of standards and, but for retired items, the merge view
\* agree once the page has been shown.  No request leaves an answer of the
\* dashboard behind that its own change has made wrong, but for the three above.
ViewsAgree == StandardsAgree /\ DashboardCurrent /\ (shown => PagesAgree)
=============================================================================
