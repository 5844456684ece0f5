-------------------------- MODULE DataPointWorkflow --------------------------
(***************************************************************************)
(* Data points of one reporting project under concurrent HTTP requests.    *)
(*                                                                         *)
(* A request is one READ COMMITTED transaction (backend/app/db/session.py):*)
(* it loads the point and evaluates the gates, later flushes an UPDATE     *)
(* that takes the row lock, appends version rows under that lock,          *)
(* recomputes the status of the requirement items bound to the point, and  *)
(* commits.  Other requests run between any two of these steps.  Nothing   *)
(* re-reads the row after the lock is taken, and the UPDATE carries only   *)
(* the columns that differ from the ones the request loaded.               *)
(*                                                                         *)
(* A definition marked "Mutant" is a plausible bug, put in place of the    *)
(* definition after it to show that a property notices the difference.     *)
(***************************************************************************)
EXTENDS WorkflowState, Naturals, Sequences, FiniteSets

CONSTANTS
  Points,         \* data points of the project
  Items,          \* required items, numbered in id order
  Requests,       \* request slots: how many transactions may overlap
  Values,         \* reported values
  NoValue,        \* the empty value of a new point
  Misfits,        \* pairs of a point and a value of another type than its first item expects
  Comments,       \* review comments
  NoComment,      \* no comment given
  NoRequest,      \* the owner of an unlocked row
  Clean,          \* a row with no uncommitted write
  Bound,          \* item -> the points bound to it
  EvidenceItems,  \* items with requires_evidence
  CoverageItems,  \* items with boundary_coverage_required
  SortOrder,      \* item -> its position in the project listing
  Ops,            \* operations requests may perform
  MaxVersions     \* bound: a point with this many versions starts nothing new

StatusOps == {"submit", "approve", "reject", "request_revision", "rollback"}
PointOps == StatusOps \cup {"edit"}
BatchOps == {"batch_approve", "batch_reject", "batch_request_revision"}
OtherOps == {"completeness", "link", "unlink", "assign", "unassign", "lifecycle"}
\* A RequirementItemStatus row: the status and the points status_reason names.
Reason == [why : {"no data", "not approved", "coverage", "evidence", "none"},
           points : SUBSET Points]
ItemRow == [status : {"missing", "partial", "complete"}, reason : Reason]
Row == [status : Statuses, value : Values \cup {NoValue},
        comment : Comments \cup {NoComment}]

ASSUME ConstantsOK ==
  /\ Items \subseteq Nat /\ IsFiniteSet(Items)
  /\ Bound \in [Items -> SUBSET Points]
  /\ EvidenceItems \subseteq Items /\ CoverageItems \subseteq Items
  /\ SortOrder \in [Items -> Nat]
  /\ \A i, j \in Items : SortOrder[i] = SortOrder[j] => i = j
  /\ Ops \subseteq PointOps \cup BatchOps \cup OtherOps
  /\ NoValue \notin Values /\ NoComment \notin Comments
  /\ Misfits \subseteq Points \X Values
  /\ NoRequest \notin Requests
  /\ Clean \notin Row /\ Clean \notin ItemRow
  /\ MaxVersions \in Nat

VARIABLES
  point,     \* committed row of each point
  history,   \* committed version table of each point, summarised
  dirty,     \* uncommitted row of the point, or Clean
  owner,     \* which request holds the row lock of a point
  item,      \* committed RequirementItemStatus rows
  dirtyItem, \* uncommitted RequirementItemStatus rows, or Clean
  itemOwner, \* which request holds the row lock of an item status
  evidence,  \* does the point have at least one evidence link?
  reviewer,  \* does a matching assignment name a reviewer?
  published, \* is the project published?
  req        \* the requests

rows == <<point, history, dirty, owner>>
items == <<item, dirtyItem, itemOwner>>
setting == <<evidence, reviewer, published>>
vars == <<point, history, dirty, owner, item, dirtyItem, itemOwner, evidence,
          reviewer, published, req>>

\* rows: how many version rows; top: max(version); status and value: what the
\* newest version row recorded.
History == [rows : Nat, top : Nat, status : Statuses, value : Values \cup {NoValue}]
\* The version rows a transaction inserts: count rows numbered from first.
Insert == [first : Nat, count : Nat, status : Statuses, value : Values \cup {NoValue}]
Request == [pc : {"idle", "load", "write", "items", "put", "commit"},
            op : PointOps \cup BatchOps \cup OtherOps,
            todo : Seq(Points), arg : Values \cup Comments \cup {NoValue, NoComment},
            loaded : Row, insert : Insert, pending : SUBSET Items,
            seen : [Items -> ItemRow], calc : ItemRow]

NewRow == [status |-> "draft", value |-> NoValue, comment |-> NoComment]
NoHistory == [rows |-> 0, top |-> 0, status |-> "draft", value |-> NoValue]
NoInsert == [first |-> 1, count |-> 0, status |-> "draft", value |-> NoValue]
ItemWith(status, why, named) ==
  [status |-> status, reason |-> [why |-> why, points |-> named]]
NoData == ItemWith("missing", "no data", {})
Idle == [pc |-> "idle", op |-> "edit", todo |-> <<>>, arg |-> NoValue,
         loaded |-> NewRow, insert |-> NoInsert, pending |-> {},
         seen |-> [i \in Items |-> NoData], calc |-> NoData]

-----------------------------------------------------------------------------
(* Completeness of one requirement item, as calculate_item_status sees it.  *)
(* db gives every point the row the transaction can see.  All points here   *)
(* lie inside the boundary, one entity each, so boundary-wide coverage      *)
(* means that every bound point is approved.                                *)

Approved(db, i) == {p \in Bound[i] : db[p].status = "approved"}

Unevidenced(db, ev, i) == {p \in Approved(db, i) : ~ev[p]}

ItemStatus(db, ev, i) ==
  CASE Bound[i] = {} -> NoData
    [] Bound[i] # {} /\ Approved(db, i) = {} -> ItemWith("partial", "not approved", {})
    [] /\ Approved(db, i) # {}
       /\ i \in CoverageItems /\ Approved(db, i) # Bound[i] ->
         ItemWith("partial", "coverage", Bound[i] \ Approved(db, i))
    [] /\ Approved(db, i) # {}
       /\ i \in CoverageItems => Approved(db, i) = Bound[i]
       /\ i \in EvidenceItems /\ Unevidenced(db, ev, i) # {} ->
         ItemWith("partial", "evidence", Unevidenced(db, ev, i))
    [] OTHER -> ItemWith("complete", "none", {})

\* Points have just been created, with or without a value; creating a point
\* writes no version row.  Evidence may be linked already, and assignments may
\* be older than the points.
Init ==
  /\ \E v \in [Points -> Values \cup {NoValue}] :
       point = [p \in Points |-> [NewRow EXCEPT !.value = v[p]]]
  /\ history = [p \in Points |-> NoHistory]
  /\ dirty = [p \in Points |-> Clean]
  /\ owner = [p \in Points |-> NoRequest]
  /\ item = [i \in Items |-> ItemStatus([p \in Points |-> NewRow],
                                        [p \in Points |-> FALSE], i)]
  /\ dirtyItem = [i \in Items |-> Clean]
  /\ itemOwner = [i \in Items |-> NoRequest]
  /\ evidence \in [Points -> BOOLEAN]
  /\ reviewer \in [Points -> BOOLEAN]
  /\ published = FALSE
  /\ req = [r \in Requests |-> Idle]

-----------------------------------------------------------------------------
(* Gates and role checks, on the committed row the request loads.           *)

RequiresEvidence(p) == \E i \in EvidenceItems : p \in Bound[i]
EvidenceGate(p) == RequiresEvidence(p) => evidence[p]
InvalidValueTypeGate(p) == <<p, point[p].value>> \notin Misfits
ProjectLockedGate == ~published

\* get_data_point_for_ctx: a reviewer reaches only points assigned to him.
CanAccess(p, role) == role = "reviewer" => reviewer[p]

Target == [submit |-> "submitted", approve |-> "approved", reject |-> "rejected",
           request_revision |-> "needs_revision", rollback |-> "draft",
           batch_approve |-> "approved", batch_reject |-> "rejected",
           batch_request_revision |-> "needs_revision"]

TransitionGate(op, p, role) == CanTransition(point[p].status, Target[op], role)
\* Mutant: the gate is missing.
CommentOptional(op, p, arg) == TRUE
CommentGate(op, p, arg) ==
  RequiresComment(point[p].status, Target[op]) => arg # NoComment

Submittable(p, role, arg) ==
  /\ role \in Submitters
  /\ TransitionGate("submit", p, role)
  /\ ProjectLockedGate
  /\ point[p].value # NoValue
  /\ InvalidValueTypeGate(p)
  /\ EvidenceGate(p)

Reviewable(op, p, role, arg) ==
  /\ role \in Reviewers
  /\ TransitionGate(op, p, role)
  /\ CommentGate(op, p, arg)
  /\ op = "approve" => EvidenceGate(p)

Rollbackable(p, role, arg) ==
  /\ role \in Rollbackers
  /\ TransitionGate("rollback", p, role)
  /\ CommentGate("rollback", p, arg)
  /\ ProjectLockedGate

\* Mutant: the status is not looked at.
EditAnyTime(p, role) == role \in Submitters
EditAllowed(p, role) ==
  /\ role \in Submitters
  /\ point[p].status \in Editable

Allowed(op, p, role, arg) ==
  /\ CanAccess(p, role)
  /\ CASE op = "edit" -> EditAllowed(p, role)
       [] op = "submit" -> Submittable(p, role, arg)
       [] op = "rollback" -> Rollbackable(p, role, arg)
       [] OTHER -> Reviewable(op, p, role, arg)

Arguments(op) ==
  CASE op = "edit" -> Values \cup {NoValue}
    [] op \in {"batch_reject", "batch_request_revision"} -> Comments
    [] OTHER -> Comments \cup {NoComment}

-----------------------------------------------------------------------------
(* Single-point requests.                                                   *)

\* The request loads the point and passes every gate; a blocked request ends
\* without a trace and is not a step.
Begin(r, op, p, arg) ==
  /\ op \in Ops \cap PointOps
  /\ req[r].pc = "idle"
  /\ history[p].rows < MaxVersions
  /\ \E role \in Roles : Allowed(op, p, role, arg)
  /\ req' = [req EXCEPT ![r] =
               [Idle EXCEPT !.pc = "write", !.op = op, !.todo = <<p>>, !.arg = arg,
                            !.loaded = point[p]]]
  /\ UNCHANGED <<rows, items, setting>>

\* The ORM object after setattr; submit moves on to in_review when a reviewer
\* is assigned at the time of the write.
OrmRow(r, p) ==
  LET old == req[r].loaded
      op == req[r].op
  IN CASE op = "edit" -> [old EXCEPT !.value = req[r].arg]
       [] op = "submit" ->
            [old EXCEPT !.status = IF reviewer[p] THEN "in_review" ELSE "submitted"]
       [] OTHER -> [old EXCEPT !.status = Target[op], !.comment = req[r].arg]

Changed(field, old, orm, current) ==
  IF orm[field] # old[field] THEN orm[field] ELSE current[field]

\* The UPDATE statement: only columns that differ from the loaded ones.
Merge(old, orm, current) ==
  [status |-> Changed("status", old, orm, current),
   value |-> Changed("value", old, orm, current),
   comment |-> Changed("comment", old, orm, current)]

\* create_data_point_version: max(version) + 1, with the ORM object's columns.
\* A submit that finds a reviewer writes two version rows.
NextVersion(p) == history[p].top + 1
VersionRows(op, orm) == IF op = "submit" /\ orm.status = "in_review" THEN 2 ELSE 1
\* Mutant: the version row is built before setattr.
VersionsBeforeChange(op, p, orm) ==
  [first |-> NextVersion(p), count |-> VersionRows(op, orm),
   status |-> point[p].status, value |-> point[p].value]
NewVersions(op, p, orm) ==
  [first |-> NextVersion(p), count |-> VersionRows(op, orm),
   status |-> orm.status, value |-> orm.value]

\* The row lock is taken by the UPDATE, or by the SELECT ... FOR UPDATE of
\* create_data_point_version when no column changed.
\* Mutant: max(version) is read before anything locks the row.
NotYetLocked(old, orm) == FALSE
RowLocked(old, orm) == TRUE

\* Mutant: first() for all().
FirstBoundItem(p) ==
  {i \in Items : p \in Bound[i] /\ \A j \in Items : p \in Bound[j] => i <= j}
BoundItems(p) == {i \in Items : p \in Bound[i]}

\* The flush of the UPDATE, waiting for the row lock, and the version rows.
Write(r) ==
  LET p == Head(req[r].todo)
      op == req[r].op
      old == req[r].loaded
      orm == OrmRow(r, p)
  IN /\ req[r].pc = "write" /\ op \in PointOps
     /\ IF RowLocked(old, orm)
        THEN /\ owner[p] = NoRequest
             /\ owner' = [owner EXCEPT ![p] = r]
             /\ dirty' = [dirty EXCEPT ![p] = Merge(old, orm, point[p])]
        ELSE UNCHANGED <<owner, dirty>>
     /\ req' = [req EXCEPT
                  ![r].pc = IF op = "edit" THEN "commit" ELSE "items",
                  ![r].insert = NewVersions(op, p, orm),
                  ![r].pending = IF op = "edit" THEN {} ELSE BoundItems(p)]
     /\ UNCHANGED <<point, history, items, setting>>

-----------------------------------------------------------------------------
(* Batch review: one transaction, point by point, with a status check only: *)
(* no gates, no version row, no recomputation of the bound items.           *)

BeginBatch(r, op, todo, arg) ==
  /\ op \in Ops \cap BatchOps
  /\ req[r].pc = "idle"
  /\ req' = [req EXCEPT ![r] = [Idle EXCEPT !.pc = "load", !.op = op,
                                            !.todo = todo, !.arg = arg]]
  /\ UNCHANGED <<rows, items, setting>>

\* The next point is loaded; one that is not in review is skipped.
\* Mutant: the loop does not move on from such a point.
BatchLoadInReview(r) ==
  /\ req[r].pc = "load" /\ req[r].todo # <<>>
  /\ point[Head(req[r].todo)].status = "in_review"
  /\ req' = [req EXCEPT ![r].pc = "write", ![r].loaded = point[Head(req[r].todo)]]
  /\ UNCHANGED <<rows, items, setting>>
BatchLoad(r) ==
  LET p == Head(req[r].todo)
  IN /\ req[r].pc = "load" /\ req[r].todo # <<>>
     /\ IF point[p].status = "in_review"
        THEN req' = [req EXCEPT ![r].pc = "write", ![r].loaded = point[p]]
        ELSE req' = [req EXCEPT ![r].todo = Tail(@)]
     /\ UNCHANGED <<rows, items, setting>>

BatchWrite(r) ==
  LET p == Head(req[r].todo)
  IN /\ req[r].pc = "write" /\ req[r].op \in BatchOps
     /\ owner[p] = NoRequest
     /\ owner' = [owner EXCEPT ![p] = r]
     /\ dirty' = [dirty EXCEPT
                    ![p] = Merge(req[r].loaded, OrmRow(r, p), point[p])]
     /\ req' = [req EXCEPT ![r].pc = "load", ![r].todo = Tail(@)]
     /\ UNCHANGED <<point, history, items, setting>>

-----------------------------------------------------------------------------
(* Recomputing item statuses: after a single-point status change for the    *)
(* bound items in id order, or for the whole project in listing order by    *)
(* the completeness request.                                                *)

\* What r's transaction reads: its own writes over the committed rows.
Visible(r) == [p \in Points |-> IF owner[p] = r THEN dirty[p] ELSE point[p]]

NextItem(r, i) ==
  /\ i \in req[r].pending
  /\ \A j \in req[r].pending :
       IF req[r].op = "completeness" THEN SortOrder[i] <= SortOrder[j] ELSE i <= j

\* get_project_completeness reads every item status first and holds on to the
\* objects, so a later SELECT of the same row does not refresh them.
BeginCompleteness(r) ==
  /\ "completeness" \in Ops
  /\ req[r].pc = "idle"
  /\ req' = [req EXCEPT ![r] = [Idle EXCEPT !.pc = "items", !.op = "completeness",
                                            !.pending = Items, !.seen = item]]
  /\ UNCHANGED <<rows, items, setting>>

\* calculate_item_status up to the SELECT of upsert_item_status.
ComputeItem(r) ==
  /\ req[r].pc = "items"
  /\ \E i \in Items :
       /\ NextItem(r, i)
       /\ req' = [req EXCEPT
                    ![r].pc = "put",
                    ![r].calc = ItemStatus(Visible(r), evidence, i),
                    ![r].seen = IF req[r].op = "completeness" THEN @
                                ELSE [@ EXCEPT ![i] = item[i]]]
  /\ UNCHANGED <<rows, items, setting>>

\* The flush of upsert_item_status: no UPDATE when the computed row is the one
\* the object was loaded with; otherwise the row lock, and the changed columns.
MergeItem(old, new, current) ==
  [status |-> Changed("status", old, new, current),
   reason |-> Changed("reason", old, new, current)]
PutItem(r) ==
  /\ req[r].pc = "put"
  /\ \E i \in Items :
       /\ NextItem(r, i)
       /\ req' = [req EXCEPT ![r].pc = "items", ![r].pending = @ \ {i}]
       /\ IF req[r].calc = req[r].seen[i]
          THEN UNCHANGED items
          ELSE /\ itemOwner[i] = NoRequest
               /\ itemOwner' = [itemOwner EXCEPT ![i] = r]
               /\ dirtyItem' = [dirtyItem EXCEPT
                    ![i] = MergeItem(req[r].seen[i], req[r].calc, item[i])]
               /\ UNCHANGED item
  /\ UNCHANGED <<rows, setting>>

-----------------------------------------------------------------------------
(* The end of a transaction.                                                *)

\* Mutant: commits before the loop is over.
FinishedEarly(r) == req[r].pc \in {"commit", "items", "load"}
Finished(r) ==
  \/ req[r].pc = "commit"
  \/ req[r].pc = "items" /\ req[r].pending = {}
  \/ req[r].pc = "load" /\ req[r].todo = <<>>

\* Mutant: the locks outlive the transaction.
KeepLock(r) ==
  /\ dirty' = [p \in Points |-> IF owner[p] = r THEN Clean ELSE dirty[p]]
  /\ dirtyItem' = [i \in Items |-> IF itemOwner[i] = r THEN Clean ELSE dirtyItem[i]]
  /\ req' = [req EXCEPT ![r] = Idle]
  /\ UNCHANGED <<owner, itemOwner, setting>>
Release(r) ==
  /\ dirty' = [p \in Points |-> IF owner[p] = r THEN Clean ELSE dirty[p]]
  /\ owner' = [p \in Points |-> IF owner[p] = r THEN NoRequest ELSE owner[p]]
  /\ dirtyItem' = [i \in Items |-> IF itemOwner[i] = r THEN Clean ELSE dirtyItem[i]]
  /\ itemOwner' = [i \in Items |-> IF itemOwner[i] = r THEN NoRequest ELSE itemOwner[i]]
  /\ req' = [req EXCEPT ![r] = Idle]
  /\ UNCHANGED setting

\* The version table of p once r has committed.
Logged(r, p) ==
  LET new == req[r].insert
      last == new.first + new.count - 1
  IN IF req[r].todo # <<>> /\ p = Head(req[r].todo) /\ new.count > 0
     THEN [rows |-> history[p].rows + new.count,
           top |-> IF last > history[p].top THEN last ELSE history[p].top,
           status |-> new.status, value |-> new.value]
     ELSE history[p]

Commit(r) ==
  /\ Finished(r)
  /\ point' = Visible(r)
  /\ history' = [p \in Points |-> Logged(r, p)]
  /\ item' = [i \in Items |-> IF itemOwner[i] = r THEN dirtyItem[i] ELSE item[i]]
  /\ Release(r)

\* Rollback: an exception, a client that went away, the statement timeout.
Abort(r) ==
  /\ req[r].pc # "idle"
  /\ Release(r)
  /\ UNCHANGED <<point, history, item>>

\* The database breaks a cycle of requests that wait for each other's rows.
WantedItems(r) == {i \in Items : NextItem(r, i) /\ req[r].calc # req[r].seen[i]}
WaitsFor(r) ==
  CASE req[r].pc = "write" -> {owner[Head(req[r].todo)]} \ {NoRequest}
    [] req[r].pc = "put" -> {itemOwner[i] : i \in WantedItems(r)} \ {NoRequest}
    [] OTHER -> {}
Deadlocked(r) ==
  \E S \in SUBSET Requests : r \in S /\ \A s \in S : WaitsFor(s) \cap S # {}
BreakDeadlock(r) == Deadlocked(r) /\ Abort(r)

-----------------------------------------------------------------------------
(* Requests of one statement that change what gates and completeness read.  *)
(* Each needs a free slot, takes no lock that matters here and commits.     *)

Quick(r, op) ==
  /\ op \in Ops
  /\ req[r].pc = "idle"
  /\ UNCHANGED <<rows, items, req>>

\* link_to_data_point and unlink_from_data_point check access only: not the
\* status of the point, and they leave the item statuses as they are.  The
\* foreign key of a new link waits for the SELECT ... FOR UPDATE of
\* create_data_point_version, not for the plain UPDATE of a batch.
LinkEvidence(r, p) ==
  /\ Quick(r, "link")
  /\ owner[p] # NoRequest => req[owner[p]].op \in BatchOps
  /\ evidence' = [evidence EXCEPT ![p] = TRUE]
  /\ UNCHANGED <<reviewer, published>>

UnlinkEvidence(r, p) ==
  /\ Quick(r, "unlink")
  /\ evidence[p]
  /\ evidence' = [evidence EXCEPT ![p] = FALSE]
  /\ UNCHANGED <<reviewer, published>>

\* Creating or changing an assignment; nothing looks at submitted points.
AssignReviewer(r, p) ==
  /\ Quick(r, "assign")
  /\ ~reviewer[p]
  /\ reviewer' = [reviewer EXCEPT ![p] = TRUE]
  /\ UNCHANGED <<evidence, published>>

UnassignReviewer(r, p) ==
  /\ Quick(r, "unassign")
  /\ reviewer[p]
  /\ reviewer' = [reviewer EXCEPT ![p] = FALSE]
  /\ UNCHANGED <<evidence, published>>

\* publish_project and rollback_project, seen from the points.
ChangeLifecycle(r) ==
  /\ Quick(r, "lifecycle")
  /\ published' = ~published
  /\ UNCHANGED <<evidence, reviewer>>

\* The batches a client can send: any order of any set of points.
Batches == {<<p>> : p \in Points}
             \cup UNION {{<<p, q>> : q \in Points \ {p}} : p \in Points}

Step(r) ==
  \/ Write(r)
  \/ BatchLoad(r)
  \/ BatchWrite(r)
  \/ ComputeItem(r)
  \/ PutItem(r)
  \/ Commit(r)
  \/ BreakDeadlock(r)

Client(r) ==
  \/ \E op \in PointOps, p \in Points : \E arg \in Arguments(op) : Begin(r, op, p, arg)
  \/ \E op \in BatchOps, todo \in Batches : \E arg \in Arguments(op) :
       BeginBatch(r, op, todo, arg)
  \/ BeginCompleteness(r)
  \/ Abort(r)
  \/ \E p \in Points :
       \/ LinkEvidence(r, p)
       \/ UnlinkEvidence(r, p)
       \/ AssignReviewer(r, p)
       \/ UnassignReviewer(r, p)
  \/ ChangeLifecycle(r)

Next == \E r \in Requests : Step(r) \/ Client(r)

Spec == Init /\ [][Next]_vars

\* A transaction that can take its next statement takes it; clients owe nothing.
\* Strong fairness, because a row lock is granted to its waiters in turn: a
\* request is not passed over for ever by later ones.
FairSpec == Spec /\ \A r \in Requests : SF_vars(Step(r))

-----------------------------------------------------------------------------
(* Properties.                                                              *)

\* The variables keep their types, and a row is dirty only while it is locked.
TypeOK ==
  /\ point \in [Points -> Row]
  /\ history \in [Points -> History]
  /\ dirty \in [Points -> Row \cup {Clean}]
  /\ owner \in [Points -> Requests \cup {NoRequest}]
  /\ item \in [Items -> ItemRow]
  /\ dirtyItem \in [Items -> ItemRow \cup {Clean}]
  /\ itemOwner \in [Items -> Requests \cup {NoRequest}]
  /\ evidence \in [Points -> BOOLEAN]
  /\ reviewer \in [Points -> BOOLEAN]
  /\ published \in BOOLEAN
  /\ req \in [Requests -> Request]
  /\ \A p \in Points : owner[p] # NoRequest => dirty[p] # Clean
  /\ \A i \in Items : itemOwner[i] # NoRequest => dirtyItem[i] # Clean

\* Version numbers of a point are 1, 2, ..., one per version row, however many
\* requests overlap: the row lock makes max(version) + 1 unique, so no request
\* ever fails on the unique constraint of data_point_versions.
VersionsContiguous == \A p \in Points : history[p].top = history[p].rows

\* Every transaction ends: row waits are finite because the owner of a row
\* commits or aborts, and the database breaks cycles of waits.
RequestsEnd == \A r \in Requests : req[r].pc # "idle" ~> req[r].pc = "idle"

\* With requests that do not overlap, commits implement PointLifecycle: status
\* moves along TRANSITIONS only and submitted values are frozen.
Lifecycle == INSTANCE PointLifecycle WITH
  status <- [p \in Points |-> point[p].status],
  value <- [p \in Points |-> point[p].value]
ImplementsLifecycle == Lifecycle!Spec

Decisions == {"approved", "rejected", "needs_revision"}

\* With requests that do not overlap, the newest version row tells the state of
\* the point, except that a batch decision is missing from the history.
HistoryTellsState ==
  \A p \in Points :
    history[p].rows > 0 =>
    /\ history[p].value = point[p].value
    /\ \/ history[p].status = point[p].status
       \/ history[p].status = "in_review" /\ point[p].status \in Decisions

\* With requests that do not overlap, a rejected point and a point under
\* revision carry the comment of the decision.
DecisionExplained ==
  \A p \in Points :
    point[p].status \in {"rejected", "needs_revision"} => point[p].comment # NoComment

Fresh == \A i \in Items : item[i] = ItemStatus(point, evidence, i)

\* With requests that do not overlap, a request that changes one point leaves every
\* item as the points amount to, if it found them so: the submits, decisions,
\* rollbacks and edits, but not the batches, which recalculate nothing, nor a link
\* of evidence (_refresh_bound_item_statuses); a completeness request repairs every
\* stale item, whatever made it stale (get_project_completeness).
ItemsFresh ==
  [][\A r \in Requests :
       /\ req[r].pc # "idle" /\ Commit(r)
       /\ req[r].op = "completeness" \/ (req[r].op \in PointOps /\ Fresh)
       => Fresh']_vars

-----------------------------------------------------------------------------
(* Promises of the documentation the code does not keep.                    *)

\* Every committed status change is in the transition table; overlapping
\* requests overwrite each other's change.
StatusFollowsTable ==
  [][\A p \in Points :
       \/ point'[p].status = point[p].status
       \/ <<point[p].status, point'[p].status>>
             \in Lifecycle!ClientMoves \cup Lifecycle!SubmitMoves]_vars

\* A submitted point moves into review once a reviewer is assigned: only
\* submit itself makes the automatic transition.
SubmittedMovesOn ==
  \A p \in Points :
    point[p].status = "submitted" /\ reviewer[p]
      ~> point[p].status # "submitted" \/ ~reviewer[p]

\* A point whose item requires evidence has some when it is approved: batch
\* approval runs no gate, and evidence can be unlinked during review.
ApprovalHasEvidence ==
  [][\A p \in Points :
       point'[p].status = "approved" /\ point[p].status # "approved"
         => EvidenceGate(p)]_vars

=============================================================================
