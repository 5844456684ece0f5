------------------------ MODULE ProjectLifecycle_proofs ------------------------
(***************************************************************************)
(* Theorems about ProjectLifecycle.  The types hold for any number of      *)
(* overlapping requests.  The promises about published projects hold when  *)
(* requests do not overlap (Serial): finding_publish_race shows that they  *)
(* do not otherwise.                                                       *)
(*                                                                         *)
(* Between the two steps of a request nothing happens then, so what the    *)
(* gates saw still holds when it writes (GatesHold); together with the     *)
(* three promises and the types this is inductive.                         *)
(***************************************************************************)
EXTENDS ProjectLifecycle, TLAPS

-----------------------------------------------------------------------------
(* The completion gate.                                                     *)

\* With fewer than 2000 items the rounded percentage reaches 100 only when
\* every counted item is complete.
THEOREM GateExact ==
  ASSUME NEW total \in Nat, NEW part \in 0 .. total, 0 < total, total < 2000
  PROVE  Reaches(part, total, 100) <=> part = total
<1>1. part \in Nat /\ part <= total
  OBVIOUS
<1> QED
  BY <1>1, SMT DEF Reaches

-----------------------------------------------------------------------------
(* Types.                                                                   *)

LEMMA ItemStatusType ==
  ASSUME NEW j, NEW i, NEW row, NEW mem, NEW points, NEW bindings
  PROVE  ItemStatus(j, i, row, mem, points, bindings) \in ItemStatuses
<1>1. CASE i \notin bindings[j] \/ ~InScope(row, mem, i)
  BY <1>1 DEF ItemStatus, ItemStatuses
<1>2. CASE i \in bindings[j] /\ InScope(row, mem, i)
  BY <1>2 DEF ItemStatus, ItemStatuses
<1> QED
  BY <1>1, <1>2

LEMMA RecalculatedType ==
  ASSUME TypeOK, NEW j \in Projects, NEW row, NEW mem
  PROVE  Recalculated(j, row, mem) \in [Standards -> ItemStatuses]
BY ItemStatusType DEF Recalculated, TypeOK

\* A request that replaces memberships names entities that exist.
MembersKnown ==
  \A r \in Requests :
    req[r] # NoRequest /\ req[r].op = "members" => req[r].members \subseteq known
TypeInv == TypeOK /\ MembersKnown

THEOREM TypesInit == Init => TypeInv
<1> SUFFICES ASSUME Init PROVE TypeInv
  OBVIOUS
<1>1. PICK b \in {NoBoundary, default} :
        project = [j \in Projects |-> [status |-> "draft", boundary |-> b]]
  BY DEF Init
<1>2. project \in [Projects -> ProjectRow]
  BY <1>1 DEF Init, ProjectRow
<1>3. member \in [Boundaries -> SUBSET known]
  BY DEF Init
<1>4. stored \in [Projects -> [Standards -> ItemStatuses]]
  BY DEF Init, ItemStatuses
<1> QED
  BY <1>2, <1>3, <1>4 DEF Init, TypeInv, TypeOK, MembersKnown

LEMMA BeginTypes ==
  ASSUME TypeInv, NEW r \in Requests, NEW request \in Request, Begin(r, request),
         request.op = "members" => request.members \subseteq known
  PROVE  TypeInv'
<1>1. TypeOK'
  BY DEF TypeInv, TypeOK, Begin, boundaries, content
<1>2. MembersKnown'
  <2> SUFFICES ASSUME NEW s \in Requests, req'[s] # NoRequest, req'[s].op = "members"
               PROVE  req'[s].members \subseteq known'
    BY DEF MembersKnown
  <2>1. known' = known /\ req'[s] = IF s = r THEN request ELSE req[s]
    BY DEF Begin, boundaries, TypeInv, TypeOK
  <2> QED
    BY <2>1 DEF TypeInv, MembersKnown
<1> QED
  BY <1>1, <1>2 DEF TypeInv

LEMMA StartTypes ==
  ASSUME TypeInv, NEW r \in Requests, Start(r) PROVE TypeInv'
<1>1. ASSUME NEW j \in Projects, NEW op \in Lifecycle, BeginLifecycle(r, op, j)
      PROVE  TypeInv'
  <2>1. [op |-> op, project |-> j] \in Request
    BY DEF Request, LifecycleRequest
  <2> QED
    BY <1>1, <2>1, BeginTypes DEF BeginLifecycle, Lifecycle
<1>2. ASSUME NEW j \in Projects, NEW b \in Boundaries, BeginApply(r, j, b) PROVE TypeInv'
  <2>1. [op |-> "apply", project |-> j, boundary |-> b, row |-> project[j]] \in Request
    BY DEF Request, ApplyRequest, TypeInv, TypeOK
  <2> QED
    BY <1>2, <2>1, BeginTypes DEF BeginApply
<1>3. ASSUME NEW j \in Projects, BeginSnapshot(r, j) PROVE TypeInv'
  <2>1. project[j].boundary \in Boundaries
    BY <1>3 DEF BeginSnapshot, SnapshotAllowed, TypeInv, TypeOK, ProjectRow
  <2>2. [boundary |-> project[j].boundary, members |-> member[project[j].boundary]]
          \in SnapshotRow
    BY <2>1 DEF SnapshotRow, TypeInv, TypeOK
  <2>3. [op |-> "snapshot", project |-> j, found |-> snapshot[j],
         new |-> [boundary |-> project[j].boundary,
                  members |-> member[project[j].boundary]]] \in Request
    BY <2>2 DEF Request, SnapshotRequest, TypeInv, TypeOK
  <2> QED
    BY <1>3, <2>3, BeginTypes DEF BeginSnapshot
<1>4. ASSUME NEW b \in Boundaries, NEW set \in SUBSET known, BeginMembers(r, b, set)
      PROVE  TypeInv'
  <2>1. [op |-> "members", boundary |-> b, members |-> set, found |-> member[b]] \in Request
    BY DEF Request, MembersRequest, TypeInv, TypeOK
  <2> QED
    BY <1>4, <2>1, BeginTypes DEF BeginMembers
<1>5. ASSUME NEW b \in Boundaries, BeginRecalculate(r, b) PROVE TypeInv'
  <2>1. [op |-> "recalculate", boundary |-> b] \in Request
    BY DEF Request, RecalculateRequest
  <2> QED
    BY <1>5, <2>1, BeginTypes DEF BeginRecalculate
<1> QED
  BY <1>1, <1>2, <1>3, <1>4, <1>5 DEF Start

\* The request slot is freed; the other requests stay as they are.
LEMMA FreeTypes ==
  ASSUME TypeInv, NEW r \in Requests, req' = [req EXCEPT ![r] = NoRequest], known' = known
  PROVE  req' \in [Requests -> Request \cup {NoRequest}] /\ MembersKnown'
BY DEF TypeInv, TypeOK, MembersKnown

LEMMA InvalidateTypes ==
  ASSUME TypeInv, NEW b, NEW mem, InvalidateAndRecalculate(b, mem)
  PROVE  /\ snapshot' \in [Projects -> SnapshotRow \cup {NoSnapshot}]
         /\ stored' \in [Projects -> [Standards -> ItemStatuses]]
BY RecalculatedType DEF InvalidateAndRecalculate, TypeInv, TypeOK

LEMMA FinishTypes ==
  ASSUME TypeInv, NEW r \in Requests, Finish(r) PROVE TypeInv'
<1>1. CASE Advance(r)
  <2>1. req[r] \in LifecycleRequest
    BY <1>1 DEF Advance, Finishing, TypeInv, TypeOK, Request, Lifecycle, LifecycleRequest,
       ApplyRequest, SnapshotRequest, MembersRequest, RecalculateRequest
  <2>2. project' \in [Projects -> ProjectRow]
    <3>1. To[req[r].op] \in {"active", "review", "published"} /\ req[r].project \in Projects
      BY <2>1 DEF LifecycleRequest, Lifecycle, To
    <3> QED
      <4> DEFINE j == req[r].project
                 t == To[req[r].op]
      <4>1. project' = [project EXCEPT ![j].status = t]
        BY <1>1 DEF Advance
      <4>2. project \in [Projects -> ProjectRow]
        BY DEF TypeInv, TypeOK
      <4> HIDE DEF j, t
      <4>3. j \in Projects /\ t \in {"active", "review", "published"}
        BY <3>1 DEF j, t
      <4> QED
        BY <4>1, <4>2, <4>3 DEF ProjectRow
  <2> QED
    BY <1>1, <2>2, FreeTypes DEF Advance, Finishing, boundaries, content, TypeInv, TypeOK
<1>2. CASE ApplyBoundary(r)
  <2>1. req[r] \in ApplyRequest
    BY <1>2 DEF ApplyBoundary, Finishing, TypeInv, TypeOK, Request, Lifecycle, LifecycleRequest,
       ApplyRequest, SnapshotRequest, MembersRequest, RecalculateRequest
  <2>2. project' \in [Projects -> ProjectRow]
    BY <1>2, <2>1 DEF ApplyBoundary, TypeInv, TypeOK, ApplyRequest, ProjectRow
  <2> QED
    BY <1>2, <2>2, FreeTypes DEF ApplyBoundary, Finishing, boundaries, content, TypeInv, TypeOK
<1>3. CASE SaveSnapshot(r)
  <2>1. req[r] \in SnapshotRequest
    BY <1>3 DEF SaveSnapshot, Finishing, TypeInv, TypeOK, Request, Lifecycle, LifecycleRequest,
       ApplyRequest, SnapshotRequest, MembersRequest, RecalculateRequest
  <2>2. snapshot' \in [Projects -> SnapshotRow \cup {NoSnapshot}]
    <3> DEFINE new == req[r].new
               old == req[r].found
               j == req[r].project
    <3>1. new \in SnapshotRow /\ old \in SnapshotRow \cup {NoSnapshot} /\ j \in Projects
      BY <2>1 DEF SnapshotRequest
    <3>2. snapshot[j] \in SnapshotRow \cup {NoSnapshot}
      BY <3>1 DEF TypeInv, TypeOK
    <3>3. CASE old = NoSnapshot
      BY <1>3, <3>1, <3>3 DEF SaveSnapshot, TypeInv, TypeOK
    <3>4. CASE old = new /\ old # NoSnapshot
      BY <1>3, <3>1, <3>2, <3>4 DEF SaveSnapshot, TypeInv, TypeOK
    <3>5. CASE old \notin {NoSnapshot, new}
      <4>1. snapshot[j] \in SnapshotRow
        BY <1>3, <3>2, <3>5 DEF SaveSnapshot
      <4>2. snapshot' = [snapshot EXCEPT ![j] =
              [boundary |-> IF new.boundary # old.boundary
                            THEN new.boundary ELSE snapshot[j].boundary,
               members |-> IF new.members # old.members
                           THEN new.members ELSE snapshot[j].members]]
        BY <1>3, <3>5 DEF SaveSnapshot
      <4> QED
        BY <3>1, <4>1, <4>2 DEF TypeInv, TypeOK, SnapshotRow
    <3> QED
      BY <3>3, <3>4, <3>5
  <2> QED
    BY <1>3, <2>2, FreeTypes DEF SaveSnapshot, Finishing, boundaries, content, TypeInv, TypeOK
<1>4. CASE ReplaceMemberships(r)
  <2>1. req[r] \in MembersRequest /\ req[r].members \subseteq known
    BY <1>4 DEF ReplaceMemberships, Finishing, TypeInv, TypeOK, MembersKnown, Request, Lifecycle,
       LifecycleRequest, ApplyRequest, SnapshotRequest, MembersRequest, RecalculateRequest
  <2>2. member' \in [Boundaries -> SUBSET known]
    BY <1>4, <2>1 DEF ReplaceMemberships, TypeInv, TypeOK, MembersRequest
  <2> QED
    BY <1>4, <2>2, FreeTypes, InvalidateTypes
    DEF ReplaceMemberships, Finishing, TypeInv, TypeOK
<1>5. CASE RecalculateMemberships(r)
  <2>1. req[r] \in RecalculateRequest
    BY <1>5 DEF RecalculateMemberships, Finishing, TypeInv, TypeOK, Request, Lifecycle,
       LifecycleRequest, ApplyRequest, SnapshotRequest, MembersRequest, RecalculateRequest
  <2>2. member' \in [Boundaries -> SUBSET known]
    BY <1>5, <2>1, ConstantsOK DEF RecalculateMemberships, TypeInv, TypeOK, RecalculateRequest
  <2> QED
    BY <1>5, <2>2, FreeTypes, InvalidateTypes
    DEF RecalculateMemberships, Finishing, TypeInv, TypeOK
<1>6. CASE Abort(r)
  BY <1>6, FreeTypes DEF Abort, boundaries, content, TypeInv, TypeOK
<1> QED
  BY <1>1, <1>2, <1>3, <1>4, <1>5, <1>6 DEF Finish

LEMMA DirectTypes ==
  ASSUME TypeInv, NEW r \in Requests, Direct(r) PROVE TypeInv'
<1> USE DEF Quick
<1>1. ASSUME NEW b \in Boundaries, NEW on \in BOOLEAN, SetDefault(r, b, on) PROVE TypeInv'
  BY <1>1 DEF SetDefault, content, TypeInv, TypeOK, MembersKnown
<1>2. ASSUME NEW e \in Entities, CreateEntity(r, e) PROVE TypeInv'
  <2>1. member' \in [Boundaries -> SUBSET known'] /\ known' \in SUBSET Entities
    BY <1>2 DEF CreateEntity, TypeInv, TypeOK
  <2>2. MembersKnown'
    BY <1>2 DEF CreateEntity, TypeInv, MembersKnown
  <2> QED
    BY <1>2, <2>1, <2>2 DEF CreateEntity, content, TypeInv, TypeOK
<1>3. ASSUME NEW j \in Projects, NEW i \in Standards,
             AddStandard(r, j, i) \/ CreatePoint(r, j, i) \/ BindPoint(r, j, i)
      PROVE  TypeInv'
  <2>1. CASE AddStandard(r, j, i)
    BY <2>1 DEF AddStandard, boundaries, TypeInv, TypeOK, MembersKnown
  <2>2. CASE CreatePoint(r, j, i)
    <3>1. data' \in [Projects -> [Standards -> Statuses \cup {NoPoint}]]
      BY <2>2 DEF CreatePoint, TypeInv, TypeOK, Statuses
    <3>2. \A k \in Projects : \A s \in Standards : data[k][s] # NoPoint => data'[k][s] # NoPoint
      BY <2>2, ConstantsOK DEF CreatePoint, TypeInv, TypeOK, Statuses
    <3> QED
      BY <2>2, <3>1, <3>2 DEF CreatePoint, boundaries, TypeInv, TypeOK, MembersKnown
  <2>3. CASE BindPoint(r, j, i)
    <3>1. stored' \in [Projects -> [Standards -> ItemStatuses]]
      BY <2>3, ItemStatusType DEF BindPoint, TypeInv, TypeOK
    <3> QED
      BY <2>3, <3>1 DEF BindPoint, boundaries, TypeInv, TypeOK, MembersKnown
  <2> QED
    BY <1>3, <2>1, <2>2, <2>3
<1>4. ASSUME NEW j \in Projects, NEW i \in Standards, NEW to \in Statuses,
             DecidePoint(r, j, i, to)
      PROVE  TypeInv'
  <2>1. PICK reached \in Reached(to) : data' = [data EXCEPT ![j][i] = reached]
    BY <1>4 DEF DecidePoint
  <2>2. reached \in Statuses
    BY <2>1 DEF Reached, Statuses
  <2>3. stored' \in [Projects -> [Standards -> ItemStatuses]]
    BY <1>4, ItemStatusType DEF DecidePoint, TypeInv, TypeOK
  <2>4. \A k \in Projects : \A s \in Standards : data[k][s] # NoPoint => data'[k][s] # NoPoint
    BY <2>1, <2>2, ConstantsOK DEF TypeInv, TypeOK
  <2> QED
    BY <1>4, <2>1, <2>2, <2>3, <2>4 DEF DecidePoint, boundaries, TypeInv, TypeOK, MembersKnown
<1>5. ASSUME NEW j \in Projects, NEW i \in Standards,
             NEW to \in {"approved", "rejected", "needs_revision"}, BatchDecide(r, j, i, to)
      PROVE  TypeInv'
  <2>1. to \in Statuses
    BY DEF Statuses
  <2>2. \A k \in Projects : \A s \in Standards : data[k][s] # NoPoint => data'[k][s] # NoPoint
    BY <1>5, <2>1, ConstantsOK DEF BatchDecide, TypeInv, TypeOK
  <2> QED
    BY <1>5, <2>1, <2>2 DEF BatchDecide, boundaries, TypeInv, TypeOK, MembersKnown
<1>6. ASSUME NEW j \in Projects, GetCompleteness(r, j) PROVE TypeInv'
  BY <1>6, RecalculatedType DEF GetCompleteness, boundaries, TypeInv, TypeOK, MembersKnown
<1> QED
  BY <1>1, <1>2, <1>3, <1>4, <1>5, <1>6 DEF Direct

THEOREM TypesNext == TypeInv /\ [Next]_vars => TypeInv'
<1> SUFFICES ASSUME TypeInv, [Next]_vars PROVE TypeInv'
  OBVIOUS
<1>1. CASE UNCHANGED vars
  BY <1>1 DEF vars, TypeInv, TypeOK, MembersKnown
<1>2. CASE Next
  BY <1>2, StartTypes, FinishTypes, DirectTypes DEF Next
<1> QED
  BY <1>1, <1>2

\* The types, and the references between rows, hold in every reachable state.
THEOREM TypeCorrect == Spec => []TypeOK
<1>1. TypeInv => TypeOK
  BY DEF TypeInv
<1> QED
  BY <1>1, TypesInit, TypesNext, PTL DEF Spec

-----------------------------------------------------------------------------
(* One request at a time.                                                   *)

Serial == \A r, s \in Requests : r = s

\* What the gates of a request saw still holds when it writes.
GatesHold(r) ==
  LET q == req[r] IN
  q # NoRequest =>
    /\ q.op \in Lifecycle => project[q.project].status = From[q.op] /\ Gates(q.op, q.project)
    /\ q.op = "apply" => ApplyAllowed(q.project) /\ q.row = project[q.project]
    /\ q.op = "snapshot" =>
         /\ SnapshotAllowed(q.project)
         /\ q.found = snapshot[q.project]
         /\ q.new = [boundary |-> project[q.project].boundary,
                     members |-> member[project[q.project].boundary]]
    /\ q.op = "members" => BoundaryEditable(q.boundary) /\ q.found = member[q.boundary]
    /\ q.op = "recalculate" => BoundaryEditable(q.boundary)

SerialInv ==
  /\ TypeInv
  /\ \A r \in Requests : GatesHold(r)
  /\ PublishedHasSnapshot
  /\ PublishedSettled
  /\ SnapshotCovered

THEOREM SerialInit == Init => SerialInv
<1> SUFFICES ASSUME Init PROVE SerialInv
  OBVIOUS
<1>1. \A j \in Projects : project[j].status = "draft" /\ snapshot[j] = NoSnapshot
  BY DEF Init
<1> QED
  BY <1>1, TypesInit
  DEF Init, SerialInv, GatesHold, PublishedHasSnapshot, PublishedSettled, SnapshotCovered,
      SnapshotLocked

\* A slot that is free satisfies GatesHold, and it is the only one.
LEMMA FreeHolds ==
  ASSUME Serial, NEW r \in Requests, req'[r] = NoRequest
  PROVE  \A s \in Requests : GatesHold(s)'
BY DEF Serial, GatesHold

\* Gates read nothing but these variables.
LEMMA GatesStay ==
  ASSUME NEW op \in Lifecycle, NEW j,
         UNCHANGED <<project, snapshot, attached, data, stored>>, Gates(op, j)
  PROVE  Gates(op, j)'
<1>1. \A S : Having(j, S)' = Having(j, S)
  BY DEF Having
<1>2. Counted(j)' = Counted(j) /\ Complete(j)' = Complete(j)
  BY DEF Counted, Complete
<1>3. CASE op = "start"
  BY <1>3 DEF Gates
<1>4. ASSUME NEW t, ProjectIncompleteGate(j, t) PROVE ProjectIncompleteGate(j, t)'
  <2>1. Having(j, Statuses)' = Having(j, Statuses)
        /\ Having(j, {"approved"})' = Having(j, {"approved"})
    BY <1>1
  <2>2. CASE Counted(j) # {}
    BY <1>2, <1>4, <2>2 DEF ProjectIncompleteGate
  <2>3. CASE Counted(j) = {}
    BY <1>2, <1>4, <2>1, <2>3 DEF ProjectIncompleteGate
  <2> QED
    BY <2>2, <2>3
<1>5. CASE op = "review"
  <2>1. ProjectIncompleteGate(j, 80)
    BY <1>5 DEF Gates
  <2>2. ProjectIncompleteGate(j, 80)'
    BY <1>4, <2>1
  <2> QED
    BY <1>5, <2>2 DEF Gates
<1>6. CASE op = "publish"
  <2>1. /\ SnapshotLocked(j) /\ ProjectIncompleteGate(j, 100)
        /\ ReviewNotCompletedGate(j) /\ UnresolvedReviewGate(j)
    BY <1>6 DEF Gates
  <2>2. SnapshotLocked(j)' /\ ProjectIncompleteGate(j, 100)'
    BY <1>4, <2>1 DEF SnapshotLocked
  <2>3. ReviewNotCompletedGate(j)' /\ UnresolvedReviewGate(j)'
    BY <1>1, <2>1, Zenon DEF ReviewNotCompletedGate, UnresolvedReviewGate
  <2> QED
    BY <1>6, <2>2, <2>3 DEF Gates
<1>7. CASE op = "rollback"
  BY <1>7 DEF Gates
<1> QED
  BY <1>3, <1>5, <1>6, <1>7 DEF Lifecycle

LEMMA SerialStart ==
  ASSUME Serial, SerialInv, NEW r \in Requests, Start(r) PROVE SerialInv'
<1>1. UNCHANGED <<project, snapshot, boundaries, content>>
  BY DEF Start, BeginLifecycle, BeginApply, BeginSnapshot, BeginMembers, BeginRecalculate, Begin
<1>2. TypeInv'
  BY StartTypes DEF SerialInv
<1>3. PublishedHasSnapshot' /\ PublishedSettled' /\ SnapshotCovered'
  BY <1>1 DEF SerialInv, PublishedHasSnapshot, PublishedSettled, SnapshotCovered, SnapshotLocked,
     UnresolvedReviewGate, Having, boundaries, content
<1>4. GatesHold(r)'
  <2>1. ASSUME NEW request, req'[r] = request, request.op \in Lifecycle,
               request = [op |-> request.op, project |-> request.project],
               project[request.project].status = From[request.op],
               Gates(request.op, request.project)
        PROVE  GatesHold(r)'
    <3> DEFINE op == request.op
               j == request.project
    <3>1. project' = project /\ snapshot' = snapshot /\ data' = data /\ stored' = stored
          /\ attached' = attached
      BY <1>1 DEF content
    <3>2. Gates(op, j)'
      BY <2>1, <3>1, GatesStay
    <3>3. op \notin BoundaryOps
      BY <2>1 DEF Lifecycle, BoundaryOps
    <3> QED
      BY <2>1, <3>1, <3>2, <3>3 DEF GatesHold, BoundaryOps
  <2>2. ASSUME NEW request \in Request, Begin(r, request) PROVE req'[r] = request
    BY <2>2 DEF Begin, SerialInv, TypeInv, TypeOK
  <2>3. ASSUME NEW j \in Projects, NEW op \in Lifecycle, BeginLifecycle(r, op, j)
        PROVE  GatesHold(r)'
    <3> DEFINE request == [op |-> op, project |-> j]
    <3>1. request \in Request
      BY DEF Request, LifecycleRequest
    <3> QED
      BY <2>1, <2>2, <2>3, <3>1 DEF BeginLifecycle
  <2>4. ASSUME NEW j \in Projects, NEW b \in Boundaries, BeginApply(r, j, b)
        PROVE  GatesHold(r)'
    <3>1. [op |-> "apply", project |-> j, boundary |-> b, row |-> project[j]] \in Request
      BY DEF Request, ApplyRequest, SerialInv, TypeInv, TypeOK
    <3> QED
      BY <1>1, <2>2, <2>4, <3>1 DEF BeginApply, GatesHold, Lifecycle, ApplyAllowed
  <2>5. ASSUME NEW j \in Projects, BeginSnapshot(r, j) PROVE GatesHold(r)'
    <3>1. project[j].boundary \in Boundaries
      BY <2>5 DEF BeginSnapshot, SnapshotAllowed, SerialInv, TypeInv, TypeOK, ProjectRow
    <3>2. [boundary |-> project[j].boundary, members |-> member[project[j].boundary]]
            \in SnapshotRow
      BY <3>1 DEF SnapshotRow, SerialInv, TypeInv, TypeOK
    <3>3. [op |-> "snapshot", project |-> j, found |-> snapshot[j],
           new |-> [boundary |-> project[j].boundary,
                    members |-> member[project[j].boundary]]] \in Request
      BY <3>2 DEF Request, SnapshotRequest, SerialInv, TypeInv, TypeOK
    <3> QED
      BY <1>1, <2>2, <2>5, <3>3 DEF BeginSnapshot, GatesHold, Lifecycle, SnapshotAllowed, boundaries
  <2>6. ASSUME NEW b \in Boundaries, NEW set \in SUBSET known, BeginMembers(r, b, set)
        PROVE  GatesHold(r)'
    <3>1. [op |-> "members", boundary |-> b, members |-> set, found |-> member[b]] \in Request
      BY DEF Request, MembersRequest, SerialInv, TypeInv, TypeOK
    <3> QED
      BY <1>1, <2>2, <2>6, <3>1 DEF BeginMembers, GatesHold, Lifecycle, BoundaryEditable, boundaries
  <2>7. ASSUME NEW b \in Boundaries, BeginRecalculate(r, b) PROVE GatesHold(r)'
    <3>1. [op |-> "recalculate", boundary |-> b] \in Request
      BY DEF Request, RecalculateRequest
    <3> QED
      BY <1>1, <2>2, <2>7, <3>1 DEF BeginRecalculate, GatesHold, Lifecycle, BoundaryEditable
  <2> QED
    BY <2>3, <2>4, <2>5, <2>6, <2>7 DEF Start
<1> QED
  BY <1>2, <1>3, <1>4 DEF SerialInv, Serial

\* With one slot, the slot of a request that ends is free and no other exists.
LEMMA Ends ==
  ASSUME TypeInv, NEW r \in Requests, req' = [req EXCEPT ![r] = NoRequest]
  PROVE  req'[r] = NoRequest
BY DEF TypeInv, TypeOK

\* A project whose row, snapshot, memberships and points stay keeps its promises.
LEMMA Kept ==
  ASSUME SerialInv, UNCHANGED <<project, snapshot, member, data>>
  PROVE  PublishedHasSnapshot' /\ PublishedSettled' /\ SnapshotCovered'
BY DEF SerialInv, PublishedHasSnapshot, PublishedSettled, SnapshotCovered, SnapshotLocked,
   UnresolvedReviewGate, Having

\* Points stay, so reviews stay settled where a project does not become published.
LEMMA SettledKept ==
  ASSUME PublishedSettled, data' = data,
         \A j \in Projects : project'[j].status = "published" => project[j].status = "published"
  PROVE  PublishedSettled'
BY DEF PublishedSettled, UnresolvedReviewGate, Having

\* A change of memberships takes the snapshots of the projects that use the
\* boundary, none of which is published.
LEMMA InvalidateKeeps ==
  ASSUME SerialInv, NEW b \in Boundaries, NEW set, NEW mem, BoundaryEditable(b),
         InvalidateAndRecalculate(b, mem), member' = [member EXCEPT ![b] = set],
         UNCHANGED <<project, data>>
  PROVE  PublishedHasSnapshot' /\ PublishedSettled' /\ SnapshotCovered'
<1>1. ASSUME NEW j \in Projects, project[j].boundary # b
      PROVE  snapshot'[j] = snapshot[j]
  BY <1>1 DEF InvalidateAndRecalculate, Users
<1>2. ASSUME NEW j \in Projects, project[j].boundary = b
      PROVE  snapshot'[j] = NoSnapshot /\ project[j].status # "published"
  BY <1>2 DEF InvalidateAndRecalculate, Users, BoundaryEditable
<1>3. PublishedHasSnapshot'
  BY <1>1, <1>2 DEF SerialInv, PublishedHasSnapshot, SnapshotLocked
<1>4. SnapshotCovered'
  <2> SUFFICES ASSUME NEW j \in Projects, SnapshotLocked(j)'
               PROVE  snapshot'[j].members \subseteq member'[project'[j].boundary]
    BY DEF SnapshotCovered
  <2>1. project[j].boundary # b /\ snapshot'[j] = snapshot[j]
    BY <1>1, <1>2 DEF SnapshotLocked
  <2>2. project[j].boundary \in Boundaries
    BY DEF SnapshotLocked, SerialInv, TypeInv, TypeOK, ProjectRow
  <2>3. member'[project'[j].boundary] = member[project[j].boundary]
    BY <2>1, <2>2 DEF SerialInv, TypeInv, TypeOK
  <2> QED
    BY <2>1, <2>3 DEF SnapshotLocked, SerialInv, SnapshotCovered
<1> QED
  BY <1>3, <1>4, SettledKept DEF SerialInv

LEMMA SerialFinish ==
  ASSUME Serial, SerialInv, NEW r \in Requests, Finish(r) PROVE SerialInv'
<1>1. req' = [req EXCEPT ![r] = NoRequest] /\ req[r] # NoRequest
  BY DEF Finish, Advance, ApplyBoundary, SaveSnapshot, ReplaceMemberships,
     RecalculateMemberships, Abort, Finishing
<1>2. TypeInv' /\ \A s \in Requests : GatesHold(s)'
  BY <1>1, FinishTypes, Ends, FreeHolds DEF SerialInv
<1>3. GatesHold(r) /\ req[r] \in Request
  BY <1>1 DEF SerialInv, TypeInv, TypeOK
<1> SUFFICES PublishedHasSnapshot' /\ PublishedSettled' /\ SnapshotCovered'
  BY <1>2 DEF SerialInv
<1>4. CASE Advance(r)
  <2> DEFINE op == req[r].op
             j == req[r].project
  <2>1. op \in Lifecycle /\ j \in Projects
    BY <1>3, <1>4 DEF Advance, Finishing, Request, Lifecycle, LifecycleRequest, ApplyRequest,
       SnapshotRequest, MembersRequest, RecalculateRequest
  <2>2. Gates(op, j)
    BY <1>1, <1>3, <2>1 DEF GatesHold
  <2>3. project' = [project EXCEPT ![j].status = To[op]]
    BY <1>4 DEF Advance
  <2>4. UNCHANGED <<snapshot, member, data>>
    BY <1>4 DEF Advance, boundaries, content
  <2>5. To[op] = "published" => SnapshotLocked(j) /\ UnresolvedReviewGate(j)
    <3>1. To[op] = "published" => op = "publish"
      BY <2>1 DEF Lifecycle, To
    <3> QED
      BY <2>2, <3>1 DEF Gates
  <2> HIDE DEF op, j
  <2>6. project \in [Projects -> ProjectRow]
    BY DEF SerialInv, TypeInv, TypeOK
  <2>7. \A k \in Projects : project'[k].boundary = project[k].boundary
    BY <2>1, <2>3, <2>6 DEF ProjectRow
  <2>8. \A k \in Projects : project'[k].status = "published" =>
          project[k].status = "published" \/ (k = j /\ To[op] = "published")
    BY <2>1, <2>3, <2>6 DEF ProjectRow
  <2> QED
    BY <2>4, <2>5, <2>7, <2>8
    DEF SerialInv, PublishedHasSnapshot, PublishedSettled, SnapshotCovered, SnapshotLocked,
        UnresolvedReviewGate, Having
<1>5. CASE ApplyBoundary(r)
  <2> DEFINE j == req[r].project
  <2>1. req[r].op = "apply" /\ j \in Projects
    BY <1>3, <1>5 DEF ApplyBoundary, Finishing, Request, Lifecycle, LifecycleRequest, ApplyRequest,
       SnapshotRequest, MembersRequest, RecalculateRequest
  <2>2. project[j].status # "published"
    BY <1>1, <1>3, <2>1 DEF GatesHold, ApplyAllowed
  <2>3. snapshot' = [snapshot EXCEPT ![j] = NoSnapshot]
    BY <1>5 DEF ApplyBoundary
  <2>4. PICK b : project' = [project EXCEPT ![j].boundary = b]
    BY <1>5 DEF ApplyBoundary
  <2>5. UNCHANGED <<member, data>>
    BY <1>5 DEF ApplyBoundary, boundaries, content
  <2> HIDE DEF j
  <2>6. project \in [Projects -> ProjectRow] /\ DOMAIN snapshot = Projects
    BY DEF SerialInv, TypeInv, TypeOK
  <2>7. \A k \in Projects : project'[k].status = project[k].status
    BY <2>1, <2>4, <2>6 DEF ProjectRow
  <2>8. \A k \in Projects : k # j => project'[k] = project[k] /\ snapshot'[k] = snapshot[k]
    BY <2>1, <2>3, <2>4, <2>6
  <2>9. snapshot'[j] = NoSnapshot
    BY <2>1, <2>3, <2>6
  <2>10. PublishedHasSnapshot'
    BY <2>2, <2>7, <2>8, <2>1 DEF SerialInv, PublishedHasSnapshot, SnapshotLocked
  <2>11. SnapshotCovered'
    BY <2>5, <2>8, <2>9 DEF SerialInv, SnapshotCovered, SnapshotLocked
  <2> QED
    BY <2>5, <2>7, <2>10, <2>11, SettledKept DEF SerialInv
<1>6. CASE SaveSnapshot(r)
  <2> DEFINE j == req[r].project
             new == req[r].new
  <2>1. req[r].op = "snapshot" /\ j \in Projects
    BY <1>3, <1>6 DEF SaveSnapshot, Finishing, Request, Lifecycle, LifecycleRequest, ApplyRequest,
       SnapshotRequest, MembersRequest, RecalculateRequest
  <2>2. /\ project[j].status # "published"
        /\ req[r].found = snapshot[j]
        /\ new = [boundary |-> project[j].boundary, members |-> member[project[j].boundary]]
    BY <1>1, <1>3, <2>1 DEF GatesHold, SnapshotAllowed
  <2>3. snapshot' = [snapshot EXCEPT ![j] = new]
    <3> DEFINE old == req[r].found
    <3>1. CASE old = NoSnapshot \/ old = new
      BY <1>6, <2>2, <3>1 DEF SaveSnapshot
    <3>2. CASE old \notin {NoSnapshot, new}
      <4>1. snapshot' = [snapshot EXCEPT ![j] =
              [boundary |-> IF new.boundary # old.boundary
                            THEN new.boundary ELSE snapshot[j].boundary,
               members |-> IF new.members # old.members
                           THEN new.members ELSE snapshot[j].members]]
        BY <1>6, <3>2 DEF SaveSnapshot
      <4> QED
        BY <2>2, <4>1
    <3> QED
      BY <3>1, <3>2
  <2>4. UNCHANGED <<project, member, data>>
    BY <1>6 DEF SaveSnapshot, boundaries, content
  <2> HIDE DEF j, new
  <2>5. DOMAIN snapshot = Projects
    BY DEF SerialInv, TypeInv, TypeOK
  <2>6. \A k \in Projects : snapshot'[k] = IF k = j THEN new ELSE snapshot[k]
    BY <2>3, <2>5
  <2>7. PublishedHasSnapshot'
    BY <2>2, <2>4, <2>6 DEF SerialInv, PublishedHasSnapshot, SnapshotLocked
  <2>8. SnapshotCovered'
    BY <2>2, <2>4, <2>6 DEF SerialInv, SnapshotCovered, SnapshotLocked
  <2> QED
    BY <2>4, <2>7, <2>8, SettledKept DEF SerialInv
<1>7. CASE ReplaceMemberships(r) \/ RecalculateMemberships(r)
  <2>1. req[r].op \in {"members", "recalculate"} /\ req[r].boundary \in Boundaries
    BY <1>3, <1>7 DEF ReplaceMemberships, RecalculateMemberships, Finishing, Request, Lifecycle,
       LifecycleRequest, ApplyRequest, SnapshotRequest, MembersRequest, RecalculateRequest
  <2>2. BoundaryEditable(req[r].boundary)
    BY <1>1, <1>3, <2>1 DEF GatesHold
  <2>3. PICK set, mem : /\ member' = [member EXCEPT ![req[r].boundary] = set]
                        /\ InvalidateAndRecalculate(req[r].boundary, mem)
    BY <1>7 DEF ReplaceMemberships, RecalculateMemberships
  <2>4. UNCHANGED <<project, data>>
    BY <1>7 DEF ReplaceMemberships, RecalculateMemberships
  <2> QED
    BY <2>1, <2>2, <2>3, <2>4, InvalidateKeeps
<1>8. CASE Abort(r)
  BY <1>8, Kept DEF Abort, boundaries, content
<1> QED
  BY <1>4, <1>5, <1>6, <1>7, <1>8 DEF Finish

LEMMA SerialDirect ==
  ASSUME Serial, SerialInv, NEW r \in Requests, Direct(r) PROVE SerialInv'
<1>1. project' = project /\ req' = req /\ req[r] = NoRequest /\ snapshot' = snapshot
  BY DEF Direct, Quick, SetDefault, CreateEntity, AddStandard, CreatePoint, BindPoint,
     DecidePoint, BatchDecide, GetCompleteness
<1>2. TypeInv' /\ \A s \in Requests : GatesHold(s)'
  BY <1>1, DirectTypes, FreeHolds DEF SerialInv
<1>3. \A b \in Boundaries : member[b] \subseteq member'[b]
  <2>1. CASE \E e \in Entities : CreateEntity(r, e)
    BY <2>1 DEF CreateEntity
  <2>2. CASE member' = member
    BY <2>2
  <2> QED
    BY <2>1, <2>2 DEF Direct, SetDefault, AddStandard, CreatePoint, BindPoint, DecidePoint,
       BatchDecide, GetCompleteness, boundaries
<1>4. SnapshotCovered'
  <2> SUFFICES ASSUME NEW j \in Projects, SnapshotLocked(j)'
               PROVE  snapshot'[j].members \subseteq member'[project'[j].boundary]
    BY DEF SnapshotCovered
  <2>1. SnapshotLocked(j) /\ project[j].boundary \in Boundaries
    BY <1>1 DEF SnapshotLocked, SerialInv, TypeInv, TypeOK, ProjectRow
  <2> QED
    BY <1>1, <1>3, <2>1 DEF SerialInv, SnapshotCovered
<1>5. PublishedHasSnapshot'
  BY <1>1 DEF SerialInv, PublishedHasSnapshot, SnapshotLocked
<1>6. PublishedSettled'
  <2>1. CASE data' = data
    BY <1>1, <2>1, SettledKept DEF SerialInv
  <2>2. ASSUME NEW j \in Projects, NEW i \in Standards, CreatePoint(r, j, i)
        PROVE  PublishedSettled'
    <3>1. \A k \in Projects, s \in Standards :
            data'[k][s] = data[k][s] \/ data'[k][s] = "draft"
      BY <2>2 DEF CreatePoint, SerialInv, TypeInv, TypeOK
    <3> QED
      BY <1>1, <3>1 DEF SerialInv, PublishedSettled, UnresolvedReviewGate, Having
  <2>3. ASSUME NEW j \in Projects, NEW i \in Standards, NEW to \in Statuses,
               DecidePoint(r, j, i, to)
        PROVE  PublishedSettled'
    <3>1. CASE project[j].status = "published"
      <4>1. data[j][i] \notin {"in_review", "rejected", "needs_revision"}
        BY <3>1 DEF SerialInv, PublishedSettled, UnresolvedReviewGate, Having
      <4>2. to \notin {"submitted", "draft"}
        BY <2>3, <3>1 DEF DecidePoint, ProjectLockedGate
      <4>3. PICK role \in Roles : CanTransition(data[j][i], to, role)
        BY <2>3 DEF DecidePoint
      <4> QED
        BY <4>1, <4>2, <4>3 DEF CanTransition, Transitions, Roles
    <3>2. CASE project[j].status # "published"
      <4>1. PICK reached : data' = [data EXCEPT ![j][i] = reached]
        BY <2>3 DEF DecidePoint
      <4>2. \A k \in Projects : k # j => data'[k] = data[k]
        BY <4>1 DEF SerialInv, TypeInv, TypeOK
      <4> QED
        BY <1>1, <3>2, <4>2 DEF SerialInv, PublishedSettled, UnresolvedReviewGate, Having
    <3> QED
      BY <3>1, <3>2
  <2>4. ASSUME NEW j \in Projects, NEW i \in Standards,
               NEW to \in {"approved", "rejected", "needs_revision"}, BatchDecide(r, j, i, to)
        PROVE  PublishedSettled'
    <3>1. project[j].status # "published"
      BY <2>4 DEF BatchDecide, SerialInv, PublishedSettled, UnresolvedReviewGate, Having
    <3>2. \A k \in Projects : k # j => data'[k] = data[k]
      BY <2>4 DEF BatchDecide, SerialInv, TypeInv, TypeOK
    <3> QED
      BY <1>1, <3>1, <3>2 DEF SerialInv, PublishedSettled, UnresolvedReviewGate, Having
  <2> QED
    BY <2>1, <2>2, <2>3, <2>4
    DEF Direct, SetDefault, CreateEntity, AddStandard, BindPoint, GetCompleteness, content
<1> QED
  BY <1>2, <1>4, <1>5, <1>6 DEF SerialInv

THEOREM SerialNext ==
  ASSUME Serial PROVE SerialInv /\ [Next]_vars => SerialInv'
<1> SUFFICES ASSUME SerialInv, [Next]_vars PROVE SerialInv'
  OBVIOUS
<1>1. CASE UNCHANGED vars
  <2>1. UNCHANGED <<project, snapshot, member, attached, data, stored, req>>
    BY <1>1 DEF vars
  <2>2. TypeInv'
    BY <1>1, TypesNext DEF SerialInv
  <2>3. \A r \in Requests : GatesHold(r)'
    BY <2>1, GatesStay, Zenon
    DEF SerialInv, GatesHold, ApplyAllowed, SnapshotAllowed, BoundaryEditable
  <2> QED
    BY <2>1, <2>2, <2>3, Kept DEF SerialInv
<1>2. CASE Next
  BY <1>2, SerialStart, SerialFinish, SerialDirect DEF Next
<1> QED
  BY <1>1, <1>2

-----------------------------------------------------------------------------
(* The lifecycle is ReportingPeriod.                                        *)

LEMMA PeriodInit == Init => Period!Init
<1> SUFFICES ASSUME Init PROVE Period!Init
  OBVIOUS
<1>1. PICK b \in {NoBoundary, default} :
        project = [j \in Projects |-> [status |-> "draft", boundary |-> b]]
  BY DEF Init
<1>2. b \in Boundaries \cup {NoBoundary}
  BY <1>1 DEF Init
<1> QED
  BY <1>1, <1>2 DEF Init, Period!Init

\* What a step does to one project, in the words of ReportingPeriod.
PeriodStep(j) ==
  Period!Start(j) \/ Period!Review(j) \/ Period!Publish(j) \/ Period!Rollback(j)
    \/ Period!Prepare(j)

\* A step that leaves the status alone, and the rest of a published project.
LEMMA Prepares ==
  ASSUME NEW j \in Projects, project'[j].status = project[j].status,
         project[j].status = "published" =>
           project'[j].boundary = project[j].boundary /\ snapshot'[j] = snapshot[j]
  PROVE  PeriodStep(j)
BY DEF PeriodStep, Period!Prepare, Period!Frozen

LEMMA AdvanceImplements ==
  ASSUME SerialInv, NEW r \in Requests, Advance(r), NEW j \in Projects
  PROVE  PeriodStep(j)
<1> DEFINE op == req[r].op
           k == req[r].project
<1>1. op \in Lifecycle /\ k \in Projects /\ req[r] # NoRequest
  BY DEF Advance, Finishing, SerialInv, TypeInv, TypeOK, Request, Lifecycle, LifecycleRequest,
     ApplyRequest, SnapshotRequest, MembersRequest, RecalculateRequest
<1>2. Gates(op, k) /\ project[k].status = From[op]
  BY <1>1 DEF SerialInv, GatesHold
<1>3. project' = [project EXCEPT ![k].status = To[op]] /\ snapshot' = snapshot
  BY DEF Advance
<1> HIDE DEF op, k
<1>4. project \in [Projects -> ProjectRow]
  BY DEF SerialInv, TypeInv, TypeOK
<1>5. /\ project'[j].boundary = project[j].boundary
      /\ project'[j].status = IF j = k THEN To[op] ELSE project[j].status
      /\ snapshot'[j] = snapshot[j]
  BY <1>1, <1>3, <1>4 DEF ProjectRow
<1>6. CASE j # k
  BY <1>5, <1>6, Prepares
<1>7. CASE j = k /\ op = "start"
  <2>1. Gates("start", j) /\ project[j].status = "draft" /\ project'[j].status = "active"
    BY <1>2, <1>5, <1>7 DEF From, To
  <2>2. project[j].boundary # NoBoundary
    BY <2>1 DEF Gates
  <2> QED
    BY <1>5, <2>1, <2>2 DEF PeriodStep, Period!Start, Period!Frozen
<1>8. CASE j = k /\ op = "review"
  BY <1>2, <1>5, <1>8 DEF From, To, PeriodStep, Period!Review, Period!Frozen
<1>9. CASE j = k /\ op = "publish"
  <2>1. Gates("publish", j) /\ project[j].status = "review" /\ project'[j].status = "published"
    BY <1>2, <1>5, <1>9 DEF From, To
  <2>2. SnapshotLocked(j)
    BY <2>1 DEF Gates
  <2> QED
    BY <1>5, <2>1, <2>2 DEF SnapshotLocked, PeriodStep, Period!Publish, Period!Locked, Period!Frozen
<1>10. CASE j = k /\ op = "rollback"
  BY <1>2, <1>5, <1>10 DEF From, To, PeriodStep, Period!Rollback, Period!Frozen
<1> QED
  BY <1>1, <1>6, <1>7, <1>8, <1>9, <1>10 DEF Lifecycle

\* A boundary request names a project that is not published, or a boundary of
\* none that is.
LEMMA BoundaryImplements ==
  ASSUME SerialInv, NEW r \in Requests, NEW j \in Projects,
         ApplyBoundary(r) \/ SaveSnapshot(r) \/ ReplaceMemberships(r) \/ RecalculateMemberships(r)
  PROVE  PeriodStep(j)
<1>1. req[r] \in Request /\ req[r] # NoRequest /\ req[r].op \in BoundaryOps
  BY DEF ApplyBoundary, SaveSnapshot, ReplaceMemberships, RecalculateMemberships, Finishing,
     BoundaryOps, SerialInv, TypeInv, TypeOK
<1>2. GatesHold(r)
  BY DEF SerialInv
<1>3. project \in [Projects -> ProjectRow] /\ DOMAIN snapshot = Projects
  BY DEF SerialInv, TypeInv, TypeOK
<1>4. CASE ApplyBoundary(r)
  <2> DEFINE k == req[r].project
  <2>1. req[r].op = "apply" /\ k \in Projects
    BY <1>1, <1>4 DEF ApplyBoundary, Finishing, Request, Lifecycle, LifecycleRequest, ApplyRequest,
       SnapshotRequest, MembersRequest, RecalculateRequest
  <2>2. project[k].status # "published"
    BY <1>1, <1>2, <2>1 DEF GatesHold, ApplyAllowed
  <2>3. PICK b : project' = [project EXCEPT ![k].boundary = b]
    BY <1>4 DEF ApplyBoundary
  <2>4. snapshot' = [snapshot EXCEPT ![k] = NoSnapshot]
    BY <1>4 DEF ApplyBoundary
  <2> HIDE DEF k
  <2>5. /\ project'[j].status = project[j].status
        /\ j # k => project'[j] = project[j] /\ snapshot'[j] = snapshot[j]
    BY <1>3, <2>1, <2>3, <2>4 DEF ProjectRow
  <2> QED
    BY <2>2, <2>5, Prepares
<1>5. CASE SaveSnapshot(r)
  <2> DEFINE k == req[r].project
  <2>1. req[r].op = "snapshot" /\ k \in Projects
    BY <1>1, <1>5 DEF SaveSnapshot, Finishing, Request, Lifecycle, LifecycleRequest, ApplyRequest,
       SnapshotRequest, MembersRequest, RecalculateRequest
  <2>2. project[k].status # "published"
    BY <1>1, <1>2, <2>1 DEF GatesHold, SnapshotAllowed
  <2>3. PICK new : snapshot' = [snapshot EXCEPT ![k] = new]
    BY <1>5 DEF SaveSnapshot
  <2>4. project' = project
    BY <1>5 DEF SaveSnapshot
  <2> HIDE DEF k
  <2>5. j # k => snapshot'[j] = snapshot[j]
    BY <1>3, <2>1, <2>3
  <2> QED
    BY <2>2, <2>4, <2>5, Prepares
<1>6. CASE ReplaceMemberships(r) \/ RecalculateMemberships(r)
  <2>1. req[r].op \in {"members", "recalculate"}
    BY <1>6 DEF ReplaceMemberships, RecalculateMemberships, Finishing
  <2>2. BoundaryEditable(req[r].boundary)
    BY <1>1, <1>2, <2>1 DEF GatesHold
  <2>3. PICK mem : InvalidateAndRecalculate(req[r].boundary, mem)
    BY <1>6 DEF ReplaceMemberships, RecalculateMemberships
  <2>4. project' = project
    BY <1>6 DEF ReplaceMemberships, RecalculateMemberships
  <2>5. project[j].status = "published" => snapshot'[j] = snapshot[j]
    BY <2>2, <2>3 DEF BoundaryEditable, InvalidateAndRecalculate, Users
  <2> QED
    BY <2>4, <2>5, Prepares
<1> QED
  BY <1>4, <1>5, <1>6

THEOREM StepImplements ==
  SerialInv /\ [Next]_vars
    => [Period!Next]_<<[j \in Projects |-> project[j].status],
                       [j \in Projects |-> project[j].boundary], snapshot>>
<1> SUFFICES ASSUME SerialInv, [Next]_vars PROVE \A j \in Projects : PeriodStep(j)
  BY DEF Period!Next, PeriodStep
<1> TAKE j \in Projects
<1>1. CASE UNCHANGED <<project, snapshot>>
  BY <1>1, Prepares
<1>2. CASE UNCHANGED vars
  BY <1>1, <1>2 DEF vars
<1>3. ASSUME NEW r \in Requests, Start(r) PROVE PeriodStep(j)
  BY <1>1, <1>3 DEF Start, BeginLifecycle, BeginApply, BeginSnapshot, BeginMembers,
     BeginRecalculate, Begin
<1>4. ASSUME NEW r \in Requests, Direct(r) PROVE PeriodStep(j)
  BY <1>1, <1>4 DEF Direct, Quick, SetDefault, CreateEntity, AddStandard, CreatePoint, BindPoint,
     DecidePoint, BatchDecide, GetCompleteness
<1>5. ASSUME NEW r \in Requests, Finish(r) PROVE PeriodStep(j)
  <2>1. CASE Abort(r)
    BY <1>1, <2>1 DEF Abort
  <2> QED
    BY <1>5, <2>1, AdvanceImplements, BoundaryImplements DEF Finish
<1> QED
  BY <1>2, <1>3, <1>4, <1>5 DEF Next

-----------------------------------------------------------------------------
(* The results.                                                             *)

\* Requests that do not overlap never leave a published project without the
\* snapshot of its own boundary.
THEOREM PublishedLocked == ASSUME Serial PROVE Spec => []PublishedHasSnapshot
<1>1. SerialInv /\ [Next]_vars => SerialInv'
  BY SerialNext
<1>2. SerialInv => PublishedHasSnapshot
  BY DEF SerialInv
<1> QED
  BY <1>1, <1>2, SerialInit, PTL DEF Spec

\* Requests that do not overlap never leave an unsettled review in a published
\* project.
THEOREM ReviewsSettled == ASSUME Serial PROVE Spec => []PublishedSettled
<1>1. SerialInv /\ [Next]_vars => SerialInv'
  BY SerialNext
<1>2. SerialInv => PublishedSettled
  BY DEF SerialInv
<1> QED
  BY <1>1, <1>2, SerialInit, PTL DEF Spec

\* Requests that do not overlap never take an entity of a locked snapshot out
\* of the boundary.
THEOREM SnapshotStaysCovered == ASSUME Serial PROVE Spec => []SnapshotCovered
<1>1. SerialInv /\ [Next]_vars => SerialInv'
  BY SerialNext
<1>2. SerialInv => SnapshotCovered
  BY DEF SerialInv
<1> QED
  BY <1>1, <1>2, SerialInit, PTL DEF Spec

\* Requests that do not overlap implement the lifecycle of ReportingPeriod: the
\* boundary and the snapshot stand still from publication to rollback.
THEOREM PeriodImplemented == ASSUME Serial PROVE Spec => ImplementsPeriod
<1>1. SerialInv /\ [Next]_vars => SerialInv'
  BY SerialNext
<1> QED
  BY <1>1, SerialInit, PeriodInit, StepImplements, PTL DEF Spec, ImplementsPeriod, Period!Spec

=============================================================================
