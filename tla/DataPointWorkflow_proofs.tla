----------------------- MODULE DataPointWorkflow_proofs -----------------------
(***************************************************************************)
(* Proofs about DataPointWorkflow for any sets of points, items, requests  *)
(* and values: first what holds however requests overlap, then what the    *)
(* workflow guarantees in addition while they do not.                      *)
(***************************************************************************)
EXTENDS DataPointWorkflow, SequenceTheorems, TLAPS

\* What a request carries at each stage.  A request has version rows to insert
\* only after its write, while it holds the row lock of the point, and they
\* continue the committed version table of that point.
RequestOK(r) ==
  /\ req[r].op = "edit" => req[r].arg \in Values \cup {NoValue}
  /\ req[r].op \in StatusOps \cup BatchOps => req[r].arg \in Comments \cup {NoComment}
  /\ req[r].pc = "write" => req[r].todo # <<>> /\ req[r].op \in PointOps \cup BatchOps
  /\ req[r].pc = "load" => req[r].op \in BatchOps
  /\ req[r].pc \in {"idle", "load", "write"} => req[r].insert.count = 0
  /\ req[r].insert.count > 0 =>
     /\ req[r].todo # <<>>
     /\ owner[Head(req[r].todo)] = r
     /\ req[r].insert.first = history[Head(req[r].todo)].top + 1

\* The inductive invariant: types, the stages above, and contiguous versions.
IInv ==
  /\ TypeOK
  /\ \A r \in Requests : RequestOK(r)
  /\ VersionsContiguous

-----------------------------------------------------------------------------
(* Types of the operators the actions are built from.                       *)

\* The empty row, request and item row have their types.
LEMMA BlankTypes ==
  /\ NewRow \in Row /\ NoHistory \in History /\ NoInsert \in Insert
  /\ NoData \in ItemRow
  /\ Idle \in Request
<1>1. NewRow \in Row
  BY DEF NewRow, Row, Statuses
<1>2. NoHistory \in History /\ NoInsert \in Insert
  BY DEF NoHistory, NoInsert, History, Insert, Statuses
<1>3. NoData \in ItemRow
  BY DEF NoData, ItemWith, ItemRow, Reason
<1>4. [i \in Items |-> NoData] \in [Items -> ItemRow]
  BY <1>3
<1>5. <<>> \in Seq(Points)
  OBVIOUS
<1>6. Idle \in Request
  BY <1>1, <1>2, <1>3, <1>4, <1>5 DEF Idle, Request, PointOps
<1> QED
  BY <1>1, <1>2, <1>3, <1>6

\* calculate_item_status returns a row of RequirementItemStatus.
LEMMA ItemStatusType ==
  ASSUME NEW db, NEW ev, NEW i \in Items
  PROVE  ItemStatus(db, ev, i) \in ItemRow
<1>1. Bound[i] \subseteq Points
  BY ConstantsOK DEF ConstantsOK
<1>2. Approved(db, i) \subseteq Points /\ Unevidenced(db, ev, i) \subseteq Points
  BY <1>1 DEF Approved, Unevidenced
<1>3. \A s \in {"missing", "partial", "complete"},
         w \in {"no data", "not approved", "coverage", "evidence", "none"},
         n \in SUBSET Points : ItemWith(s, w, n) \in ItemRow
  BY DEF ItemWith, ItemRow, Reason
<1>4. NoData \in ItemRow /\ ItemWith("partial", "not approved", {}) \in ItemRow
      /\ ItemWith("partial", "coverage", Bound[i] \ Approved(db, i)) \in ItemRow
      /\ ItemWith("partial", "evidence", Unevidenced(db, ev, i)) \in ItemRow
      /\ ItemWith("complete", "none", {}) \in ItemRow
  BY <1>1, <1>2, <1>3 DEF NoData
<1> QED
  BY <1>4 DEF ItemStatus

\* A column of the UPDATE is either the request's or the committed one, so the
\* merged row is a row.
LEMMA MergeType ==
  ASSUME NEW old \in Row, NEW orm \in Row, NEW current \in Row
  PROVE  Merge(old, orm, current) \in Row
BY DEF Merge, Changed, Row

LEMMA MergeItemType ==
  ASSUME NEW old \in ItemRow, NEW new \in ItemRow, NEW current \in ItemRow
  PROVE  MergeItem(old, new, current) \in ItemRow
BY DEF MergeItem, Changed, ItemRow

\* The ORM object of a request that is about to write is a row.
LEMMA OrmRowType ==
  ASSUME TypeOK, NEW r \in Requests, RequestOK(r), NEW p \in Points,
         req[r].op \in PointOps \cup BatchOps
  PROVE  OrmRow(r, p) \in Row
<1>1. req[r] \in Request /\ req[r].loaded \in Row
  BY DEF TypeOK, Request
<1>2. CASE req[r].op = "edit"
  BY <1>1, <1>2 DEF OrmRow, RequestOK, Row
<1>3. CASE req[r].op = "submit"
  BY <1>1, <1>3 DEF OrmRow, Row, Statuses
<1>4. CASE req[r].op \notin {"edit", "submit"}
  <2>1. req[r].arg \in Comments \cup {NoComment}
    BY <1>4 DEF RequestOK, PointOps
  <2>2. Target[req[r].op] \in Statuses
    BY <1>4 DEF Target, PointOps, StatusOps, BatchOps, Statuses
  <2> QED
    BY <1>1, <1>4, <2>1, <2>2 DEF OrmRow, Row
<1> QED
  BY <1>2, <1>3, <1>4

-----------------------------------------------------------------------------
(* The invariant holds initially and is kept by every action.               *)

THEOREM InitInvariant == Init => IInv
<1> SUFFICES ASSUME Init PROVE IInv
  OBVIOUS
<1>1. PICK v \in [Points -> Values \cup {NoValue}] :
        point = [p \in Points |-> [NewRow EXCEPT !.value = v[p]]]
  BY DEF Init
<1>2. point \in [Points -> Row]
  BY <1>1 DEF NewRow, Row, Statuses
<1>3. item \in [Items -> ItemRow]
  BY ItemStatusType DEF Init
<1>4. TypeOK
  BY <1>2, <1>3, BlankTypes DEF Init, TypeOK
<1>5. ASSUME NEW r \in Requests PROVE RequestOK(r)
  BY DEF Init, RequestOK, Idle, NoInsert, StatusOps, BatchOps
<1>6. VersionsContiguous
  BY DEF Init, VersionsContiguous, NoHistory
<1> QED
  BY <1>4, <1>5, <1>6 DEF IInv

\* A request takes only points of the project from its list.
LEMMA HeadTail ==
  ASSUME NEW s \in Seq(Points), s # <<>>
  PROVE  Head(s) \in Points /\ Tail(s) \in Seq(Points)
OBVIOUS

\* A request that does not move stays OK while the rows it has locked keep
\* their owner and their version table.
LEMMA OthersKeep ==
  ASSUME IInv, NEW s \in Requests, req'[s] = req[s],
         \A p \in Points : owner[p] = s => owner'[p] = s /\ history'[p].top = history[p].top
  PROVE  RequestOK(s)'
<1>1. req[s] \in Request /\ RequestOK(s)
  BY DEF IInv, TypeOK
<1>2. ASSUME req[s].insert.count > 0
      PROVE  /\ owner'[Head(req[s].todo)] = s
             /\ req[s].insert.first = history'[Head(req[s].todo)].top + 1
  <2>1. Head(req[s].todo) \in Points
    BY <1>1, <1>2, HeadTail DEF RequestOK, Request
  <2> QED
    BY <1>1, <1>2, <2>1 DEF RequestOK
<1> QED
  BY <1>1, <1>2 DEF RequestOK

\* Starting a request: it gets past the gates, or loads nothing yet.
LEMMA BeginKeeps ==
  ASSUME IInv, NEW r \in Requests, NEW op \in PointOps, NEW p \in Points,
         NEW arg \in Arguments(op), Begin(r, op, p, arg)
  PROVE  IInv'
<1>1. arg \in Values \cup Comments \cup {NoValue, NoComment}
      /\ (op = "edit" => arg \in Values \cup {NoValue})
      /\ (op \in StatusOps => arg \in Comments \cup {NoComment})
  BY DEF Arguments, PointOps, StatusOps
<1>2. <<p>> \in Seq(Points) /\ <<p>> # <<>>
  OBVIOUS
<1> DEFINE q == [Idle EXCEPT !.pc = "write", !.op = op, !.todo = <<p>>, !.arg = arg,
                             !.loaded = point[p]]
<1>3. q \in Request
  BY <1>1, <1>2, BlankTypes DEF IInv, TypeOK, Request
<1>4. req' = [req EXCEPT ![r] = q]
  BY DEF Begin
<1>5. TypeOK'
  BY <1>3, <1>4 DEF IInv, TypeOK, Begin, rows, items, setting
<1>6. q.pc = "write" /\ q.op = op /\ q.todo = <<p>> /\ q.arg = arg /\ q.insert = NoInsert
  BY DEF Idle
<1>7. ASSUME NEW s \in Requests PROVE RequestOK(s)'
  <2>1. CASE s = r
    <3>1. req'[s] = q
      BY <1>4, <2>1 DEF IInv, TypeOK
    <3> QED
      BY <1>1, <1>2, <1>6, <3>1 DEF RequestOK, NoInsert, PointOps, BatchOps
  <2>2. CASE s # r
    <3>1. req'[s] = req[s] /\ owner' = owner /\ history' = history
      BY <1>4, <2>2 DEF IInv, TypeOK, Begin, rows
    <3> QED
      BY <3>1, OthersKeep
  <2> QED
    BY <2>1, <2>2
<1>8. VersionsContiguous'
  BY DEF IInv, VersionsContiguous, Begin, rows
<1> QED
  BY <1>5, <1>7, <1>8 DEF IInv

\* The write takes the row lock and numbers its version rows from max + 1.
LEMMA WriteKeeps ==
  ASSUME IInv, NEW r \in Requests, Write(r)
  PROVE  IInv'
<1> DEFINE p == Head(req[r].todo)
           orm == OrmRow(r, p)
           row == Merge(req[r].loaded, orm, point[p])
           new == NewVersions(req[r].op, p, orm)
<1>1. req[r] \in Request /\ RequestOK(r) /\ TypeOK
  BY DEF IInv, TypeOK
<1>2. req[r].todo # <<>> /\ p \in Points /\ req[r].op \in PointOps
  BY <1>1, HeadTail DEF Write, RequestOK, Request
<1>3. orm \in Row /\ req[r].loaded \in Row /\ point[p] \in Row
  BY <1>1, <1>2, OrmRowType DEF TypeOK, Request
<1>4. row \in Row
  BY <1>3, MergeType
<1>5. new \in Insert /\ new.first = history[p].top + 1
  BY <1>1, <1>2, <1>3 DEF NewVersions, NextVersion, VersionRows, Insert, Row, TypeOK, History
<1>6. owner[p] = NoRequest /\ owner' = [owner EXCEPT ![p] = r]
      /\ dirty' = [dirty EXCEPT ![p] = row]
      /\ UNCHANGED <<point, history, items, setting>>
  BY DEF Write, RowLocked
<1>7. PICK pc \in {"items", "commit"}, pending \in SUBSET Items :
        req' = [req EXCEPT ![r].pc = pc, ![r].insert = new, ![r].pending = pending]
  BY DEF Write, BoundItems
<1> DEFINE q == [req[r] EXCEPT !.pc = pc, !.insert = new, !.pending = pending]
<1>8. q \in Request /\ req' = [req EXCEPT ![r] = q]
  BY <1>1, <1>5, <1>7 DEF Request, TypeOK
<1>9. TypeOK'
  <2>1. row # Clean
    BY <1>4, ConstantsOK DEF ConstantsOK
  <2> QED
    BY <1>1, <1>2, <1>4, <1>6, <1>8, <2>1 DEF TypeOK, items, setting
<1>10. ASSUME NEW s \in Requests PROVE RequestOK(s)'
  <2>1. CASE s = r
    <3>1. req'[s] = q /\ q.todo = req[r].todo /\ q.arg = req[r].arg /\ q.op = req[r].op
          /\ q.insert = new /\ q.pc \in {"items", "commit"}
      BY <1>1, <1>8, <2>1 DEF TypeOK, Request
    <3>2. owner'[p] = r /\ history'[p] = history[p]
      BY <1>1, <1>2, <1>6 DEF TypeOK
    <3> HIDE DEF q, new
    <3> QED
      BY <1>1, <1>2, <1>5, <2>1, <3>1, <3>2 DEF RequestOK
  <2>2. CASE s # r
    <3>1. req'[s] = req[s]
      BY <1>1, <1>8, <2>2 DEF TypeOK
    <3>2. ASSUME NEW p2 \in Points, owner[p2] = s
          PROVE  owner'[p2] = s /\ history'[p2].top = history[p2].top
      BY <1>1, <1>6, <3>2, ConstantsOK DEF TypeOK, ConstantsOK
    <3> QED
      BY <3>1, <3>2, OthersKeep
  <2> QED
    BY <2>1, <2>2
<1>11. VersionsContiguous'
  BY <1>6 DEF IInv, VersionsContiguous
<1> QED
  BY <1>9, <1>10, <1>11 DEF IInv

\* A step of r that touches no row of a point and brings no version rows.
LEMMA QuietKeeps ==
  ASSUME IInv, NEW r \in Requests, NEW q \in Request, req' = [req EXCEPT ![r] = q],
         UNCHANGED <<point, history, dirty, owner>>,
         item' \in [Items -> ItemRow],
         dirtyItem' \in [Items -> ItemRow \cup {Clean}],
         itemOwner' \in [Items -> Requests \cup {NoRequest}],
         \A i \in Items : itemOwner'[i] # NoRequest => dirtyItem'[i] # Clean,
         UNCHANGED setting,
         q.op = "edit" => q.arg \in Values \cup {NoValue},
         q.op \in StatusOps \cup BatchOps => q.arg \in Comments \cup {NoComment},
         q.pc = "write" => q.todo # <<>> /\ q.op \in PointOps \cup BatchOps,
         q.pc = "load" => q.op \in BatchOps,
         \/ q.insert.count = 0
         \/ /\ q.insert = req[r].insert /\ q.todo = req[r].todo
            /\ q.pc \notin {"idle", "load", "write"}
  PROVE  IInv'
<1>1. TypeOK'
  BY DEF IInv, TypeOK, setting
<1>2. ASSUME NEW s \in Requests PROVE RequestOK(s)'
  <2>1. CASE s = r
    <3>1. req'[s] = q
      BY <2>1 DEF IInv, TypeOK
    <3> QED
      BY <2>1, <3>1 DEF IInv, RequestOK
  <2>2. CASE s # r
    <3>1. req'[s] = req[s]
      BY <2>2 DEF IInv, TypeOK
    <3> QED
      BY <3>1, OthersKeep
  <2> QED
    BY <2>1, <2>2
<1>3. VersionsContiguous'
  BY DEF IInv, VersionsContiguous
<1> QED
  BY <1>1, <1>2, <1>3 DEF IInv

LEMMA BeginBatchKeeps ==
  ASSUME IInv, NEW r \in Requests, NEW op \in BatchOps, NEW todo \in Batches,
         NEW arg \in Arguments(op), BeginBatch(r, op, todo, arg)
  PROVE  IInv'
<1>1. arg \in Comments \cup {NoComment}
  BY DEF Arguments, BatchOps
<1>2. todo \in Seq(Points)
  <2>1. \/ \E p \in Points : todo = <<p>>
        \/ \E p, q \in Points : todo = <<p, q>>
    BY DEF Batches
  <2>2. \A p, q \in Points : <<p>> \in Seq(Points) /\ <<p, q>> \in Seq(Points)
    OBVIOUS
  <2> QED
    BY <2>1, <2>2
<1> DEFINE q == [Idle EXCEPT !.pc = "load", !.op = op, !.todo = todo, !.arg = arg]
<1>3. q \in Request
  BY <1>1, <1>2, BlankTypes DEF Request
<1>4. q.pc = "load" /\ q.op = op /\ q.arg = arg /\ q.insert.count = 0
  BY DEF Idle, NoInsert
<1>5. req' = [req EXCEPT ![r] = q] /\ UNCHANGED <<rows, items, setting>>
  BY DEF BeginBatch
<1> HIDE DEF q
<1> QED
  BY <1>1, <1>3, <1>4, <1>5, QuietKeeps DEF IInv, TypeOK, rows, items, BatchOps

LEMMA BatchLoadKeeps ==
  ASSUME IInv, NEW r \in Requests, BatchLoad(r)
  PROVE  IInv'
<1> DEFINE p == Head(req[r].todo)
<1>1. req[r] \in Request /\ RequestOK(r) /\ req[r].pc = "load" /\ req[r].todo # <<>>
      /\ req[r].insert.count = 0 /\ UNCHANGED <<rows, items, setting>>
  BY DEF IInv, TypeOK, BatchLoad, RequestOK
<1>2. p \in Points /\ Tail(req[r].todo) \in Seq(Points)
  BY <1>1, HeadTail DEF Request
<1>3. req[r].op \in BatchOps
  BY <1>1 DEF RequestOK
<1>4. CASE point[p].status = "in_review"
  <2> DEFINE q == [req[r] EXCEPT !.pc = "write", !.loaded = point[p]]
  <2>1. q \in Request
    BY <1>1, <1>2 DEF IInv, TypeOK, Request
  <2>2. req' = [req EXCEPT ![r] = q]
    BY <1>4, <2>1 DEF BatchLoad, IInv, TypeOK
  <2>3. q.op = req[r].op /\ q.arg = req[r].arg /\ q.todo = req[r].todo
        /\ q.insert = req[r].insert
    BY <1>1 DEF Request
  <2> HIDE DEF q
  <2> QED
    BY <1>1, <1>3, <2>1, <2>2, <2>3, QuietKeeps DEF IInv, TypeOK, rows, items, RequestOK
<1>5. CASE point[p].status # "in_review"
  <2> DEFINE q == [req[r] EXCEPT !.todo = Tail(@)]
  <2>1. q \in Request
    BY <1>1, <1>2 DEF Request
  <2>2. req' = [req EXCEPT ![r] = q]
    BY <1>5, <2>1 DEF BatchLoad, IInv, TypeOK
  <2>3. q.op = req[r].op /\ q.arg = req[r].arg /\ q.pc = "load"
        /\ q.insert = req[r].insert
    BY <1>1 DEF Request
  <2> HIDE DEF q
  <2> QED
    BY <1>1, <1>3, <2>1, <2>2, <2>3, QuietKeeps DEF IInv, TypeOK, rows, items, RequestOK
<1> QED
  BY <1>4, <1>5

\* The write of a batch locks the row but inserts no version row.
LEMMA BatchWriteKeeps ==
  ASSUME IInv, NEW r \in Requests, BatchWrite(r)
  PROVE  IInv'
<1> DEFINE p == Head(req[r].todo)
           row == Merge(req[r].loaded, OrmRow(r, p), point[p])
           q == [req[r] EXCEPT !.pc = "load", !.todo = Tail(@)]
<1>1. TypeOK /\ req[r] \in Request /\ RequestOK(r) /\ req[r].pc = "write"
      /\ req[r].op \in BatchOps
  BY DEF IInv, TypeOK, BatchWrite
<1>2. p \in Points /\ Tail(req[r].todo) \in Seq(Points)
  BY <1>1, HeadTail DEF RequestOK, Request
<1>3. row \in Row
  BY <1>1, <1>2, OrmRowType, MergeType DEF TypeOK, Request
<1>4. q \in Request
  BY <1>1, <1>2 DEF Request
<1>5. owner[p] = NoRequest /\ owner' = [owner EXCEPT ![p] = r]
      /\ dirty' = [dirty EXCEPT ![p] = row] /\ req' = [req EXCEPT ![r] = q]
      /\ UNCHANGED <<point, history, items, setting>>
  BY DEF BatchWrite
<1>6. q.pc = "load" /\ q.op = req[r].op /\ q.arg = req[r].arg /\ q.insert = req[r].insert
  BY <1>1 DEF Request
<1> HIDE DEF q, row
<1>7. TypeOK'
  <2>1. row # Clean
    BY <1>3, ConstantsOK DEF ConstantsOK
  <2> QED
    BY <1>1, <1>2, <1>3, <1>4, <1>5, <2>1 DEF TypeOK, items, setting
<1>8. ASSUME NEW s \in Requests PROVE RequestOK(s)'
  <2>1. CASE s = r
    <3>1. req'[s] = q
      BY <1>1, <1>5, <2>1 DEF TypeOK
    <3> QED
      BY <1>1, <1>6, <2>1, <3>1 DEF RequestOK, BatchOps
  <2>2. CASE s # r
    <3>1. req'[s] = req[s]
      BY <1>1, <1>5, <2>2 DEF TypeOK
    <3>2. ASSUME NEW p2 \in Points, owner[p2] = s
          PROVE  owner'[p2] = s /\ history'[p2].top = history[p2].top
      BY <1>1, <1>5, <3>2, ConstantsOK DEF TypeOK, ConstantsOK
    <3> QED
      BY <3>1, <3>2, OthersKeep
  <2> QED
    BY <2>1, <2>2
<1>9. VersionsContiguous'
  BY <1>5 DEF IInv, VersionsContiguous
<1> QED
  BY <1>7, <1>8, <1>9 DEF IInv

LEMMA BeginCompletenessKeeps ==
  ASSUME IInv, NEW r \in Requests, BeginCompleteness(r)
  PROVE  IInv'
<1> DEFINE q == [Idle EXCEPT !.pc = "items", !.op = "completeness", !.pending = Items,
                             !.seen = item]
<1>1. q \in Request
  BY BlankTypes DEF IInv, TypeOK, Request, OtherOps
<1>2. q.pc = "items" /\ q.op = "completeness" /\ q.insert.count = 0
  BY DEF Idle, NoInsert
<1>3. req' = [req EXCEPT ![r] = q] /\ UNCHANGED <<rows, items, setting>>
  BY DEF BeginCompleteness
<1> HIDE DEF q
<1> QED
  BY <1>1, <1>2, <1>3, QuietKeeps DEF IInv, TypeOK, rows, items, StatusOps, BatchOps

LEMMA ComputeItemKeeps ==
  ASSUME IInv, NEW r \in Requests, ComputeItem(r)
  PROVE  IInv'
<1>1. req[r] \in Request /\ RequestOK(r) /\ req[r].pc = "items"
      /\ UNCHANGED <<rows, items, setting>>
  BY DEF IInv, TypeOK, ComputeItem
<1>2. PICK i \in Items :
        req' = [req EXCEPT
                  ![r].pc = "put",
                  ![r].calc = ItemStatus(Visible(r), evidence, i),
                  ![r].seen = IF req[r].op = "completeness" THEN @
                              ELSE [@ EXCEPT ![i] = item[i]]]
  BY DEF ComputeItem
<1> DEFINE calc == ItemStatus(Visible(r), evidence, i)
           seen == IF req[r].op = "completeness" THEN req[r].seen
                   ELSE [req[r].seen EXCEPT ![i] = item[i]]
           q == [req[r] EXCEPT !.pc = "put", !.calc = calc, !.seen = seen]
<1>3. calc \in ItemRow /\ seen \in [Items -> ItemRow]
  BY <1>1, ItemStatusType DEF Request, IInv, TypeOK
<1>4. q \in Request
  BY <1>1, <1>3 DEF Request
<1>5. req' = [req EXCEPT ![r] = q]
  BY <1>1, <1>2 DEF IInv, TypeOK
<1>6. q.pc = "put" /\ q.op = req[r].op /\ q.arg = req[r].arg /\ q.todo = req[r].todo
      /\ q.insert = req[r].insert
  BY <1>1 DEF Request
<1> HIDE DEF q, calc, seen
<1> QED
  BY <1>1, <1>4, <1>5, <1>6, QuietKeeps DEF IInv, TypeOK, rows, items, RequestOK

LEMMA PutItemKeeps ==
  ASSUME IInv, NEW r \in Requests, PutItem(r)
  PROVE  IInv'
<1>1. TypeOK /\ req[r] \in Request /\ RequestOK(r) /\ UNCHANGED <<rows, setting>>
  BY DEF IInv, TypeOK, PutItem
<1>2. PICK i \in Items :
        /\ req' = [req EXCEPT ![r].pc = "items", ![r].pending = @ \ {i}]
        /\ IF req[r].calc = req[r].seen[i]
           THEN UNCHANGED items
           ELSE /\ itemOwner' = [itemOwner EXCEPT ![i] = r]
                /\ dirtyItem' = [dirtyItem EXCEPT
                     ![i] = MergeItem(req[r].seen[i], req[r].calc, item[i])]
                /\ UNCHANGED item
  BY DEF PutItem
<1> DEFINE q == [req[r] EXCEPT !.pc = "items", !.pending = @ \ {i}]
           row == MergeItem(req[r].seen[i], req[r].calc, item[i])
<1>3. q \in Request /\ req' = [req EXCEPT ![r] = q]
  BY <1>1, <1>2 DEF Request, TypeOK
<1>4. q.pc = "items" /\ q.op = req[r].op /\ q.arg = req[r].arg /\ q.todo = req[r].todo
      /\ q.insert = req[r].insert
  BY <1>1 DEF Request
<1>5. row \in ItemRow /\ row # Clean
  BY <1>1, MergeItemType, ConstantsOK DEF TypeOK, Request, ConstantsOK
<1> HIDE DEF q, row
<1>6. /\ item' \in [Items -> ItemRow]
      /\ dirtyItem' \in [Items -> ItemRow \cup {Clean}]
      /\ itemOwner' \in [Items -> Requests \cup {NoRequest}]
      /\ \A j \in Items : itemOwner'[j] # NoRequest => dirtyItem'[j] # Clean
  BY <1>1, <1>2, <1>5 DEF TypeOK, items, row
<1> QED
  BY <1>1, <1>3, <1>4, <1>6, QuietKeeps DEF rows, RequestOK

\* The end of a transaction: the version table grows by exactly the rows the
\* request numbered while it held the lock.
LEMMA ReleaseKeeps ==
  ASSUME IInv, NEW r \in Requests, Release(r),
         point' \in [Points -> Row], history' \in [Points -> History],
         item' \in [Items -> ItemRow],
         \A p \in Points : history'[p].top = history'[p].rows,
         \A p \in Points : owner[p] # r => history'[p].top = history[p].top
  PROVE  IInv'
<1>1. TypeOK /\ req' = [req EXCEPT ![r] = Idle] /\ UNCHANGED setting
  BY DEF IInv, Release
<1>2. \A p \in Points : owner'[p] = IF owner[p] = r THEN NoRequest ELSE owner[p]
  BY <1>1 DEF Release
<1>3. TypeOK'
  <2>1. /\ dirty' \in [Points -> Row \cup {Clean}]
        /\ owner' \in [Points -> Requests \cup {NoRequest}]
        /\ \A p \in Points : owner'[p] # NoRequest => dirty'[p] # Clean
    BY <1>1 DEF Release, TypeOK
  <2>2. /\ dirtyItem' \in [Items -> ItemRow \cup {Clean}]
        /\ itemOwner' \in [Items -> Requests \cup {NoRequest}]
        /\ \A i \in Items : itemOwner'[i] # NoRequest => dirtyItem'[i] # Clean
    BY <1>1 DEF Release, TypeOK
  <2>3. req' \in [Requests -> Request]
    BY <1>1, BlankTypes DEF TypeOK
  <2> QED
    BY <1>1, <2>1, <2>2, <2>3 DEF TypeOK, setting
<1>4. ASSUME NEW s \in Requests PROVE RequestOK(s)'
  <2>1. CASE s = r
    <3>1. req'[s] = Idle
      BY <1>1, <2>1 DEF TypeOK
    <3> QED
      BY <3>1 DEF RequestOK, Idle, NoInsert, StatusOps, BatchOps
  <2>2. CASE s # r
    <3>1. req'[s] = req[s]
      BY <1>1, <2>2 DEF TypeOK
    <3> QED
      BY <1>2, <2>2, <3>1, OthersKeep
  <2> QED
    BY <2>1, <2>2
<1>5. VersionsContiguous'
  BY DEF VersionsContiguous
<1> QED
  BY <1>3, <1>4, <1>5 DEF IInv

LEMMA CommitKeeps ==
  ASSUME IInv, NEW r \in Requests, Commit(r)
  PROVE  IInv'
<1>1. TypeOK /\ VersionsContiguous /\ RequestOK(r) /\ req[r] \in Request /\ Release(r)
  BY DEF IInv, TypeOK, Commit
<1>2. point' \in [Points -> Row]
  <2>1. ASSUME NEW p \in Points, owner[p] = r PROVE dirty[p] \in Row
    BY <1>1, <2>1, ConstantsOK DEF TypeOK, ConstantsOK
  <2>2. point' = [p \in Points |-> IF owner[p] = r THEN dirty[p] ELSE point[p]]
    BY DEF Commit, Visible
  <2> QED
    BY <1>1, <2>1, <2>2 DEF TypeOK
<1>3. item' \in [Items -> ItemRow]
  <2>1. ASSUME NEW i \in Items, itemOwner[i] = r PROVE dirtyItem[i] \in ItemRow
    BY <1>1, <2>1, ConstantsOK DEF TypeOK, ConstantsOK
  <2>2. item' = [i \in Items |-> IF itemOwner[i] = r THEN dirtyItem[i] ELSE item[i]]
    BY DEF Commit
  <2> QED
    BY <1>1, <2>1, <2>2 DEF TypeOK
<1>4. ASSUME NEW p \in Points
      PROVE  /\ Logged(r, p) \in History
             /\ Logged(r, p).top = Logged(r, p).rows
             /\ owner[p] # r => Logged(r, p).top = history[p].top
  <2>1. history[p] \in History /\ history[p].top = history[p].rows
    BY <1>1 DEF TypeOK, VersionsContiguous
  <2>2. req[r].insert \in Insert
    BY <1>1 DEF Request
  <2>3. CASE req[r].todo # <<>> /\ p = Head(req[r].todo) /\ req[r].insert.count > 0
    <3>1. owner[p] = r /\ req[r].insert.first = history[p].top + 1
      BY <1>1, <2>3 DEF RequestOK
    <3> DEFINE new == req[r].insert
               last == new.first + new.count - 1
    <3>2. last = history[p].top + new.count /\ last > history[p].top /\ last \in Nat
      <4>1. history[p].top \in Nat /\ new.count \in Nat /\ new.count > 0
        BY <2>1, <2>2, <2>3 DEF History, Insert
      <4>2. \A t, n \in Nat : n > 0 => /\ t + 1 + n - 1 = t + n /\ t + n > t
                                      /\ t + n \in Nat
        OBVIOUS
      <4> QED
        BY <3>1, <4>1, <4>2
    <3>3. Logged(r, p) = [rows |-> history[p].rows + new.count, top |-> last,
                          status |-> new.status, value |-> new.value]
      BY <2>3, <3>2 DEF Logged
    <3> QED
      BY <2>1, <2>2, <3>1, <3>2, <3>3 DEF History, Insert
  <2>4. CASE ~(req[r].todo # <<>> /\ p = Head(req[r].todo) /\ req[r].insert.count > 0)
    <3>1. Logged(r, p) = history[p]
      BY <2>4 DEF Logged
    <3> QED
      BY <2>1, <3>1
  <2> QED
    BY <2>3, <2>4
<1>5. history' = [p \in Points |-> Logged(r, p)]
  BY DEF Commit
<1> QED
  BY <1>1, <1>2, <1>3, <1>4, <1>5, ReleaseKeeps

LEMMA AbortKeeps ==
  ASSUME IInv, NEW r \in Requests, Abort(r)
  PROVE  IInv'
<1>1. Release(r) /\ UNCHANGED <<point, history, item>> /\ TypeOK /\ VersionsContiguous
  BY DEF Abort, IInv
<1> QED
  BY <1>1, ReleaseKeeps DEF TypeOK, VersionsContiguous

\* Requests of one statement leave rows, items and requests alone.
LEMMA QuickKeeps ==
  ASSUME IInv, UNCHANGED <<rows, items, req>>,
         evidence' \in [Points -> BOOLEAN], reviewer' \in [Points -> BOOLEAN],
         published' \in BOOLEAN
  PROVE  IInv'
<1>1. TypeOK'
  BY DEF IInv, TypeOK, rows, items
<1>2. ASSUME NEW s \in Requests PROVE RequestOK(s)'
  BY OthersKeep DEF rows
<1>3. VersionsContiguous'
  BY DEF IInv, VersionsContiguous, rows
<1> QED
  BY <1>1, <1>2, <1>3 DEF IInv

\* Every step keeps the invariant.
THEOREM NextInvariant == IInv /\ [Next]_vars => IInv'
<1> SUFFICES ASSUME IInv, [Next]_vars PROVE IInv'
  OBVIOUS
<1>1. TypeOK
  BY DEF IInv
<1>2. CASE UNCHANGED vars
  BY <1>1, <1>2, QuickKeeps DEF vars, rows, items, TypeOK
<1>3. ASSUME NEW r \in Requests, Step(r) PROVE IInv'
  BY <1>3, WriteKeeps, BatchLoadKeeps, BatchWriteKeeps, ComputeItemKeeps, PutItemKeeps,
     CommitKeeps, AbortKeeps DEF Step, BreakDeadlock
<1>4. ASSUME NEW r \in Requests, NEW p \in Points,
             \/ LinkEvidence(r, p) \/ UnlinkEvidence(r, p)
             \/ AssignReviewer(r, p) \/ UnassignReviewer(r, p)
      PROVE  IInv'
  <2>1. UNCHANGED <<rows, items, req>>
    BY <1>4 DEF LinkEvidence, UnlinkEvidence, AssignReviewer, UnassignReviewer, Quick
  <2>2. evidence' \in [Points -> BOOLEAN] /\ reviewer' \in [Points -> BOOLEAN]
        /\ published' = published
    BY <1>1, <1>4
    DEF LinkEvidence, UnlinkEvidence, AssignReviewer, UnassignReviewer, TypeOK
  <2> QED
    BY <1>1, <2>1, <2>2, QuickKeeps DEF TypeOK
<1>5. ASSUME NEW r \in Requests, ChangeLifecycle(r) PROVE IInv'
  BY <1>1, <1>5, QuickKeeps DEF ChangeLifecycle, Quick, TypeOK
<1>6. ASSUME NEW r \in Requests, Client(r) PROVE IInv'
  BY <1>4, <1>5, <1>6, BeginKeeps, BeginBatchKeeps, BeginCompletenessKeeps, AbortKeeps
  DEF Client
<1> QED
  BY <1>2, <1>3, <1>6 DEF Next

\* The types hold in every reachable state, for any number of overlapping
\* requests.
THEOREM TypeCorrect == Spec => []TypeOK
<1>1. IInv => TypeOK
  BY DEF IInv
<1> QED
  BY <1>1, InitInvariant, NextInvariant, PTL DEF Spec

\* However many requests overlap, the version numbers of every data point are
\* 1, 2, ... without gap or duplicate: create_data_point_version never runs
\* into the unique constraint.
THEOREM ContiguousVersions == Spec => []VersionsContiguous
<1>1. IInv => VersionsContiguous
  BY DEF IInv
<1> QED
  BY <1>1, InitInvariant, NextInvariant, PTL DEF Spec

-----------------------------------------------------------------------------
(* While requests do not overlap: with at most one request slot,           *)
(* DataPointWorkflow implements PointLifecycle, and histories and review   *)
(* comments tell the truth.                                                *)


Serial == \A r, s \in Requests : r = s

Explained(row) ==
  row.status \in {"rejected", "needs_revision"} => row.comment # NoComment

\* One point's part of a step of PointLifecycle.
MoveOf(old, new) ==
  /\ <<old.status, new.status>> \in Lifecycle!ClientMoves \cup Lifecycle!SubmitMoves
  /\ new.value = old.value
  /\ new.status \in {"submitted", "in_review"} => old.value # NoValue
EditOf(old, new) ==
  /\ old.status \in Lifecycle!Editable
  /\ new.status = old.status
  /\ new.value \in Values \cup {NoValue}
Legal(old, new) == MoveOf(old, new) \/ EditOf(old, new)

\* A batch decides about a point in review.
Decided(old, new) ==
  /\ old.status = "in_review" /\ new.status \in Decisions
  /\ new.value = old.value

\* Nothing changes between the gates and the write when nobody else runs.
Stage(r) ==
  /\ req[r].op \in {"batch_reject", "batch_request_revision"} => req[r].arg # NoComment
  /\ req[r].op \in BatchOps => req[r].pc \in {"load", "write"}
  /\ req[r].pc = "write" =>
     LET p == Head(req[r].todo)
     IN /\ req[r].loaded = point[p]
        /\ IF req[r].op \in BatchOps
           THEN point[p].status = "in_review"
           ELSE \E role \in Roles : Allowed(req[r].op, p, role, req[r].arg)

\* What a row that r has locked is about to become.
Pending(r, p) ==
  owner[p] = r =>
  /\ Legal(point[p], dirty[p]) /\ Explained(dirty[p])
  /\ IF req[r].op \in BatchOps
     THEN Decided(point[p], dirty[p])
     ELSE /\ req[r].todo # <<>> /\ p = Head(req[r].todo)
          /\ req[r].insert.count > 0
          /\ req[r].insert.status = dirty[p].status
          /\ req[r].insert.value = dirty[p].value

\* The inductive invariant of one request at a time.
SerialInv ==
  /\ IInv
  /\ DecisionExplained
  /\ HistoryTellsState
  /\ \A r \in Requests : Stage(r) /\ \A p \in Points : Pending(r, p)

-----------------------------------------------------------------------------
(* Gates and moves.                                                         *)

\* What a gate lets through for some role is a client move of the lifecycle.
LEMMA GateMoves ==
  ASSUME NEW s, NEW t, NEW role \in Roles, CanTransition(s, t, role)
  PROVE  /\ <<s, t>> \in Lifecycle!ClientMoves
         /\ t = "submitted" => <<s, "in_review">> \in Lifecycle!SubmitMoves
         /\ t \in {"rejected", "needs_revision"} => RequiresComment(s, t)
<1>1. PICK u \in Transitions : u.from = s /\ u.to = t /\ role \in u.roles
  BY DEF CanTransition
<1>2. u \in Lifecycle!Transitions /\ role \in Lifecycle!Roles
  BY <1>1 DEF Transitions, Lifecycle!Transitions, Roles, Lifecycle!Roles
<1>3. <<s, t>> \in Lifecycle!ClientMoves
  BY <1>1, <1>2 DEF Lifecycle!ClientMoves
<1>4. ASSUME t = "submitted" PROVE <<s, "in_review">> \in Lifecycle!SubmitMoves
  <2> DEFINE m == <<s, t>>
  <2>1. m \in {n \in Lifecycle!ClientMoves : n[2] = "submitted"} /\ m[1] = s
    BY <1>3, <1>4
  <2> HIDE DEF m
  <2> QED
    BY <2>1 DEF Lifecycle!SubmitMoves
<1>5. ASSUME t \in {"rejected", "needs_revision"} PROVE RequiresComment(s, t)
  <2>1. u.comment
    BY <1>1, <1>5 DEF Transitions
  <2> QED
    BY <1>1, <2>1 DEF RequiresComment
<1> QED
  BY <1>3, <1>4, <1>5

\* Against the row that was loaded, the UPDATE writes the whole ORM row.
LEMMA MergeSame ==
  ASSUME NEW old \in Row, NEW orm \in Row
  PROVE  Merge(old, orm, old) = orm
BY DEF Merge, Changed, Row

\* A write that follows its gates without interference is a legal change.
LEMMA WriteLegal ==
  ASSUME SerialInv, NEW r \in Requests, NEW p \in Points, req[r].op \in PointOps,
         req[r].loaded = point[p], NEW role \in Roles,
         Allowed(req[r].op, p, role, req[r].arg)
  PROVE  Legal(point[p], OrmRow(r, p)) /\ Explained(OrmRow(r, p))
<1> DEFINE op == req[r].op
           old == point[p]
           orm == OrmRow(r, p)
<1>1. TypeOK /\ RequestOK(r) /\ old \in Row /\ Explained(old) /\ req[r] \in Request
  BY DEF SerialInv, IInv, TypeOK, DecisionExplained, Explained
<1>2. CASE op = "edit"
  <2>1. EditAllowed(p, role)
    BY <1>2 DEF Allowed
  <2>2. old.status \in Lifecycle!Editable
    BY <2>1 DEF EditAllowed, Editable, Lifecycle!Editable
  <2>3. orm = [old EXCEPT !.value = req[r].arg] /\ req[r].arg \in Values \cup {NoValue}
    BY <1>1, <1>2 DEF OrmRow, RequestOK
  <2> QED
    BY <1>1, <2>2, <2>3 DEF Row, Legal, EditOf, Explained
<1>3. CASE op = "submit"
  <2>1. Submittable(p, role, req[r].arg)
    BY <1>3 DEF Allowed
  <2>2. CanTransition(old.status, "submitted", role) /\ old.value # NoValue
    BY <2>1 DEF Submittable, TransitionGate, Target
  <2>3. /\ <<old.status, "submitted">> \in Lifecycle!ClientMoves
        /\ <<old.status, "in_review">> \in Lifecycle!SubmitMoves
    BY <2>2, GateMoves
  <2>4. orm = [old EXCEPT !.status = IF reviewer[p] THEN "in_review" ELSE "submitted"]
    BY <1>3 DEF OrmRow
  <2>5. orm.status \in {"submitted", "in_review"} /\ orm.value = old.value
    BY <1>1, <2>4 DEF Row
  <2> QED
    BY <2>2, <2>3, <2>5 DEF Legal, MoveOf, Explained
<1>4. CASE op \notin {"edit", "submit"}
  <2>1. op \in {"approve", "reject", "request_revision", "rollback"}
    BY <1>4 DEF PointOps, StatusOps
  <2>2. TransitionGate(op, p, role) /\ CommentGate(op, p, req[r].arg)
    BY <2>1 DEF Allowed, Reviewable, Rollbackable
  <2>3. /\ <<old.status, Target[op]>> \in Lifecycle!ClientMoves
        /\ Target[op] \in {"rejected", "needs_revision"} => req[r].arg # NoComment
    BY <2>2, GateMoves DEF TransitionGate, CommentGate
  <2>4. orm = [old EXCEPT !.status = Target[op], !.comment = req[r].arg]
    BY <1>4 DEF OrmRow
  <2>5. Target[op] \notin {"submitted", "in_review"}
    BY <2>1 DEF Target
  <2>6. orm.status = Target[op] /\ orm.value = old.value /\ orm.comment = req[r].arg
    BY <1>1, <2>4 DEF Row
  <2> HIDE DEF orm, op
  <2> QED
    BY <2>3, <2>5, <2>6 DEF Legal, MoveOf, Explained, orm
<1> QED
  BY <1>2, <1>3, <1>4

\* A batch write decides about a point in review.
LEMMA BatchLegal ==
  ASSUME SerialInv, NEW r \in Requests, NEW p \in Points, req[r].op \in BatchOps,
         req[r].loaded = point[p], point[p].status = "in_review"
  PROVE  /\ Legal(point[p], OrmRow(r, p)) /\ Explained(OrmRow(r, p))
         /\ Decided(point[p], OrmRow(r, p))
<1> DEFINE op == req[r].op
           old == point[p]
           orm == OrmRow(r, p)
<1>1. old \in Row /\ Stage(r)
  BY DEF SerialInv, IInv, TypeOK
<1>2. orm = [old EXCEPT !.status = Target[op], !.comment = req[r].arg]
  BY DEF OrmRow, BatchOps
<1>3. orm.status = Target[op] /\ orm.value = old.value /\ orm.comment = req[r].arg
  BY <1>1, <1>2 DEF Row
<1>4. Target[op] \in Decisions /\ Target[op] \notin {"submitted", "in_review"}
  BY DEF Target, BatchOps, Decisions
<1>5. CanTransition("in_review", Target[op], "admin") /\ "admin" \in Roles
  BY DEF CanTransition, Transitions, Target, BatchOps, Roles
<1>6. <<"in_review", Target[op]>> \in Lifecycle!ClientMoves
  BY <1>5, GateMoves
<1>7. Target[op] \in {"rejected", "needs_revision"} => req[r].arg # NoComment
  BY <1>1 DEF Stage, Target, BatchOps
<1> HIDE DEF orm, op
<1> QED
  BY <1>3, <1>4, <1>6, <1>7 DEF Legal, MoveOf, Explained, Decided, orm

-----------------------------------------------------------------------------
(* The invariant.                                                           *)

THEOREM SerialInit == Init => SerialInv
<1> SUFFICES ASSUME Init PROVE SerialInv
  OBVIOUS
<1>1. IInv
  BY InitInvariant
<1>2. \A p \in Points : point[p].status = "draft" /\ history[p].rows = 0
  <2>1. PICK v \in [Points -> Values \cup {NoValue}] :
          point = [p \in Points |-> [NewRow EXCEPT !.value = v[p]]]
    BY DEF Init
  <2> QED
    BY <2>1 DEF Init, NewRow, NoHistory
<1>3. DecisionExplained /\ HistoryTellsState
  BY <1>2 DEF DecisionExplained, HistoryTellsState
<1>4. ASSUME NEW r \in Requests PROVE Stage(r) /\ \A p \in Points : Pending(r, p)
  BY ConstantsOK DEF Init, Idle, Stage, Pending, BatchOps, ConstantsOK
<1> QED
  BY <1>1, <1>3, <1>4 DEF SerialInv

\* A request without version rows that is no batch has no point locked.
LEMMA NothingLocked ==
  ASSUME SerialInv, NEW r \in Requests, req[r].op \notin BatchOps, req[r].insert.count = 0
  PROVE  \A p \in Points : owner[p] # r
<1> SUFFICES ASSUME NEW p \in Points, owner[p] = r PROVE FALSE
  OBVIOUS
<1>1. req[r].insert.count > 0
  BY DEF SerialInv, Pending
<1> QED
  BY <1>1

\* An idle request is no batch and has nothing locked.
LEMMA IdleFree ==
  ASSUME SerialInv, NEW r \in Requests, req[r].pc = "idle"
  PROVE  \A p \in Points : owner[p] # r
<1>1. req[r].op \notin BatchOps /\ req[r].insert.count = 0
  BY DEF SerialInv, IInv, Stage, RequestOK
<1> QED
  BY <1>1, NothingLocked

\* Steps that change no committed row keep what committed rows promise.
LEMMA CommittedKeep ==
  ASSUME SerialInv, UNCHANGED <<point, history>>
  PROVE  DecisionExplained' /\ HistoryTellsState'
BY DEF SerialInv, DecisionExplained, HistoryTellsState

LEMMA SerialBegin ==
  ASSUME Serial, SerialInv, IInv', NEW r \in Requests, NEW op \in PointOps,
         NEW p \in Points, NEW arg \in Arguments(op), Begin(r, op, p, arg)
  PROVE  SerialInv'
<1> DEFINE q == [Idle EXCEPT !.pc = "write", !.op = op, !.todo = <<p>>, !.arg = arg,
                             !.loaded = point[p]]
<1>1. TypeOK /\ req[r].pc = "idle" /\ UNCHANGED <<point, history, dirty, owner>>
      /\ UNCHANGED setting /\ req' = [req EXCEPT ![r] = q]
  BY DEF SerialInv, IInv, Begin, rows
<1>2. q.pc = "write" /\ q.op = op /\ q.todo = <<p>> /\ q.arg = arg /\ q.loaded = point[p]
  BY DEF Idle
<1>3. req'[r] = q
  BY <1>1 DEF TypeOK
<1>4. Head(<<p>>) = p
  OBVIOUS
<1>5. PICK role \in Roles : Allowed(op, p, role, arg)
  BY DEF Begin
<1>6. Allowed(op, p, role, arg)'
  BY <1>1, <1>5 DEF Allowed, CanAccess, EditAllowed, Submittable, Rollbackable, Reviewable,
     TransitionGate, CommentGate, ProjectLockedGate, InvalidValueTypeGate,
     EvidenceGate, setting
<1> HIDE DEF q
<1>7. op \notin BatchOps
  BY DEF PointOps, StatusOps, BatchOps
<1>8. Stage(r)'
  BY <1>1, <1>2, <1>3, <1>4, <1>6, <1>7 DEF Stage, BatchOps
<1>9. ASSUME NEW s \in Requests PROVE Stage(s)' /\ \A p2 \in Points : Pending(s, p2)'
  BY <1>1, <1>8, IdleFree DEF Serial, Pending
<1> QED
  BY <1>1, <1>9, CommittedKeep DEF SerialInv

LEMMA SerialWrite ==
  ASSUME Serial, SerialInv, IInv', NEW r \in Requests, Write(r)
  PROVE  SerialInv'
<1> DEFINE p == Head(req[r].todo)
           orm == OrmRow(r, p)
           new == NewVersions(req[r].op, p, orm)
<1>1. TypeOK /\ RequestOK(r) /\ Stage(r) /\ req[r] \in Request /\ req[r].pc = "write"
      /\ req[r].op \in PointOps
  BY DEF SerialInv, IInv, TypeOK, Write
<1>2. req[r].todo # <<>> /\ p \in Points /\ req[r].op \notin BatchOps
  BY <1>1, HeadTail DEF RequestOK, Request, PointOps, StatusOps, BatchOps
<1>3. req[r].loaded = point[p] /\ \E role \in Roles : Allowed(req[r].op, p, role, req[r].arg)
  BY <1>1, <1>2 DEF Stage
<1>4. Legal(point[p], orm) /\ Explained(orm)
  BY <1>1, <1>2, <1>3, WriteLegal
<1>5. dirty' = [dirty EXCEPT ![p] = orm] /\ owner' = [owner EXCEPT ![p] = r]
      /\ UNCHANGED <<point, history>>
  <2>1. orm \in Row /\ point[p] \in Row
    BY <1>1, <1>2, OrmRowType DEF TypeOK
  <2>2. Merge(req[r].loaded, orm, point[p]) = orm
    BY <1>3, <2>1, MergeSame
  <2> QED
    BY <2>2 DEF Write, RowLocked
<1>6. /\ req'[r].op = req[r].op /\ req'[r].todo = req[r].todo /\ req'[r].arg = req[r].arg
      /\ req'[r].pc \in {"commit", "items"} /\ req'[r].insert = new
  <2>1. PICK pc \in {"items", "commit"}, pending \in SUBSET Items :
          req' = [req EXCEPT ![r].pc = pc, ![r].insert = new, ![r].pending = pending]
    BY DEF Write, BoundItems
  <2> QED
    BY <1>1, <2>1 DEF TypeOK, Request
<1>7. new.count > 0 /\ new.status = orm.status /\ new.value = orm.value
  BY DEF NewVersions, VersionRows
<1>8. \A p2 \in Points : owner[p2] # r
  BY <1>1, <1>2, NothingLocked DEF RequestOK
<1> HIDE DEF orm, new
<1>9. ASSUME NEW p2 \in Points PROVE Pending(r, p2)'
  <2>1. CASE p2 = p
    <3>1. dirty'[p2] = orm /\ point'[p2] = point[p]
      BY <1>1, <1>2, <1>5, <2>1 DEF TypeOK
    <3> QED
      BY <1>2, <1>4, <1>6, <1>7, <2>1, <3>1
      DEF Pending, Legal, MoveOf, EditOf, Explained
  <2>2. CASE p2 # p
    BY <1>1, <1>2, <1>5, <1>8, <2>2 DEF TypeOK, Pending
  <2> QED
    BY <2>1, <2>2
<1>10. Stage(r)'
  BY <1>1, <1>2, <1>6 DEF Stage
<1> QED
  BY <1>5, <1>9, <1>10, CommittedKeep DEF SerialInv, Serial

LEMMA SerialBeginBatch ==
  ASSUME Serial, SerialInv, IInv', NEW r \in Requests, NEW op \in BatchOps,
         NEW todo \in Batches, NEW arg \in Arguments(op), BeginBatch(r, op, todo, arg)
  PROVE  SerialInv'
<1> DEFINE q == [Idle EXCEPT !.pc = "load", !.op = op, !.todo = todo, !.arg = arg]
<1>1. TypeOK /\ req[r].pc = "idle" /\ req' = [req EXCEPT ![r] = q]
      /\ UNCHANGED <<point, history, dirty, owner>>
  BY DEF SerialInv, IInv, BeginBatch, rows
<1>2. req'[r] = q /\ q.pc = "load" /\ q.op = op /\ q.arg = arg
  BY <1>1 DEF TypeOK, Idle
<1>3. op \in {"batch_reject", "batch_request_revision"} => arg # NoComment
  BY ConstantsOK DEF Arguments, ConstantsOK
<1> HIDE DEF q
<1>4. Stage(r)'
  BY <1>2, <1>3 DEF Stage
<1>5. \A p \in Points : Pending(r, p)'
  BY <1>1, IdleFree DEF Pending
<1> QED
  BY <1>1, <1>4, <1>5, CommittedKeep DEF SerialInv, Serial

LEMMA SerialBatchLoad ==
  ASSUME Serial, SerialInv, IInv', NEW r \in Requests, BatchLoad(r)
  PROVE  SerialInv'
<1> DEFINE p == Head(req[r].todo)
<1>1. TypeOK /\ Stage(r) /\ RequestOK(r) /\ req[r] \in Request /\ req[r].pc = "load"
      /\ UNCHANGED <<point, history, dirty, owner>>
  BY DEF SerialInv, IInv, TypeOK, BatchLoad, rows
<1>2. req[r].op \in BatchOps
  BY <1>1 DEF RequestOK
<1>3. req'[r].op = req[r].op /\ req'[r].arg = req[r].arg /\ Stage(r)'
  <2>1. CASE point[p].status = "in_review"
    <3>1. req' = [req EXCEPT ![r].pc = "write", ![r].loaded = point[p]]
      BY <2>1 DEF BatchLoad
    <3>2. /\ req'[r].op = req[r].op /\ req'[r].arg = req[r].arg
          /\ req'[r].todo = req[r].todo /\ req'[r].pc = "write"
          /\ req'[r].loaded = point[p]
      BY <1>1, <3>1 DEF TypeOK, Request
    <3> QED
      BY <1>1, <1>2, <2>1, <3>2 DEF Stage
  <2>2. CASE point[p].status # "in_review"
    <3>1. req' = [req EXCEPT ![r].todo = Tail(@)]
      BY <2>2 DEF BatchLoad
    <3>2. req'[r].op = req[r].op /\ req'[r].arg = req[r].arg /\ req'[r].pc = "load"
      BY <1>1, <3>1 DEF TypeOK, Request
    <3> QED
      BY <1>1, <1>2, <3>2 DEF Stage
  <2> QED
    BY <2>1, <2>2
<1>4. ASSUME NEW p2 \in Points PROVE Pending(r, p2)'
  BY <1>1, <1>2, <1>3
  DEF SerialInv, Pending, Legal, MoveOf, EditOf, Explained, Decided
<1> QED
  BY <1>1, <1>3, <1>4, CommittedKeep DEF SerialInv, Serial

LEMMA SerialBatchWrite ==
  ASSUME Serial, SerialInv, IInv', NEW r \in Requests, BatchWrite(r)
  PROVE  SerialInv'
<1> DEFINE p == Head(req[r].todo)
           orm == OrmRow(r, p)
<1>1. TypeOK /\ RequestOK(r) /\ Stage(r) /\ req[r] \in Request /\ req[r].pc = "write"
      /\ req[r].op \in BatchOps
  BY DEF SerialInv, IInv, TypeOK, BatchWrite
<1>2. req[r].todo # <<>> /\ p \in Points
  BY <1>1, HeadTail DEF RequestOK, Request
<1>3. req[r].loaded = point[p] /\ point[p].status = "in_review"
  BY <1>1 DEF Stage
<1>4. Legal(point[p], orm) /\ Explained(orm) /\ Decided(point[p], orm)
  BY <1>1, <1>2, <1>3, BatchLegal
<1>5. dirty' = [dirty EXCEPT ![p] = orm] /\ owner' = [owner EXCEPT ![p] = r]
      /\ UNCHANGED <<point, history>>
  <2>1. orm \in Row /\ point[p] \in Row
    BY <1>1, <1>2, OrmRowType DEF TypeOK
  <2>2. Merge(req[r].loaded, orm, point[p]) = orm
    BY <1>3, <2>1, MergeSame
  <2> QED
    BY <2>2 DEF BatchWrite
<1>6. req'[r].op = req[r].op /\ req'[r].arg = req[r].arg /\ req'[r].pc = "load"
  BY <1>1 DEF BatchWrite, TypeOK, Request
<1> HIDE DEF orm
<1>7. ASSUME NEW p2 \in Points PROVE Pending(r, p2)'
  <2>1. CASE p2 = p
    <3>1. dirty'[p2] = orm /\ point'[p2] = point[p]
      BY <1>1, <1>2, <1>5, <2>1 DEF TypeOK
    <3> QED
      BY <1>1, <1>4, <1>6, <3>1 DEF Pending, Legal, MoveOf, EditOf, Explained, Decided
  <2>2. CASE p2 # p
    <3>1. owner'[p2] = owner[p2] /\ dirty'[p2] = dirty[p2] /\ point'[p2] = point[p2]
      BY <1>1, <1>2, <1>5, <2>2 DEF TypeOK
    <3>2. Pending(r, p2)
      BY DEF SerialInv
    <3> QED
      BY <1>1, <1>6, <3>1, <3>2 DEF Pending, Legal, MoveOf, EditOf, Explained, Decided
  <2> QED
    BY <2>1, <2>2
<1>8. Stage(r)'
  BY <1>1, <1>6 DEF Stage
<1> QED
  BY <1>5, <1>7, <1>8, CommittedKeep DEF SerialInv, Serial

\* Recomputing item statuses changes neither points nor the request's rows.
LEMMA SerialItems ==
  ASSUME Serial, SerialInv, IInv', NEW r \in Requests,
         UNCHANGED <<point, history, dirty, owner>>,
         req'[r].op = req[r].op, req'[r].arg = req[r].arg, req'[r].todo = req[r].todo,
         req'[r].insert = req[r].insert, req[r].op \notin BatchOps,
         req'[r].pc \in {"items", "put"}
  PROVE  SerialInv'
<1>1. Stage(r)'
  BY DEF SerialInv, Stage
<1>2. ASSUME NEW p \in Points PROVE Pending(r, p)'
  BY DEF SerialInv, Pending, Legal, MoveOf, EditOf, Explained, Decided
<1> QED
  BY <1>1, <1>2, CommittedKeep DEF SerialInv, Serial

LEMMA SerialCompleteness ==
  ASSUME Serial, SerialInv, IInv', NEW r \in Requests,
         BeginCompleteness(r) \/ ComputeItem(r) \/ PutItem(r)
  PROVE  SerialInv'
<1>1. TypeOK /\ Stage(r) /\ req[r] \in Request /\ UNCHANGED <<point, history, dirty, owner>>
  BY DEF SerialInv, IInv, TypeOK, BeginCompleteness, ComputeItem, PutItem, rows
<1>2. CASE BeginCompleteness(r)
  <2>1. req[r].pc = "idle" /\ req'[r].op = "completeness" /\ req'[r].pc = "items"
    BY <1>1, <1>2 DEF BeginCompleteness, TypeOK, Idle
  <2>2. Stage(r)'
    BY <2>1 DEF Stage, BatchOps
  <2>3. \A p \in Points : Pending(r, p)'
    BY <1>1, <2>1, IdleFree DEF Pending
  <2> QED
    BY <1>1, <2>2, <2>3, CommittedKeep DEF SerialInv, Serial
<1>3. CASE ComputeItem(r)
  <2>1. req[r].pc = "items" /\ req[r].op \notin BatchOps
    BY <1>1, <1>3 DEF ComputeItem, Stage
  <2>2. /\ req'[r].op = req[r].op /\ req'[r].arg = req[r].arg /\ req'[r].todo = req[r].todo
        /\ req'[r].insert = req[r].insert /\ req'[r].pc = "put"
    <3>1. PICK i \in Items :
            req' = [req EXCEPT
                      ![r].pc = "put",
                      ![r].calc = ItemStatus(Visible(r), evidence, i),
                      ![r].seen = IF req[r].op = "completeness" THEN @
                                  ELSE [@ EXCEPT ![i] = item[i]]]
      BY <1>3 DEF ComputeItem
    <3> QED
      BY <1>1, <3>1 DEF TypeOK, Request
  <2> QED
    BY <1>1, <2>1, <2>2, SerialItems
<1>4. CASE PutItem(r)
  <2>1. req[r].pc = "put" /\ req[r].op \notin BatchOps
    BY <1>1, <1>4 DEF PutItem, Stage
  <2>2. /\ req'[r].op = req[r].op /\ req'[r].arg = req[r].arg /\ req'[r].todo = req[r].todo
        /\ req'[r].insert = req[r].insert /\ req'[r].pc = "items"
    <3>1. PICK i \in Items : req' = [req EXCEPT ![r].pc = "items", ![r].pending = @ \ {i}]
      BY <1>4 DEF PutItem
    <3> QED
      BY <1>1, <3>1 DEF TypeOK, Request
  <2> QED
    BY <1>1, <2>1, <2>2, SerialItems
<1> QED
  BY <1>2, <1>3, <1>4

\* A transaction ends: r has nothing locked any more, and each point either
\* stayed as it was or took the row r had written.
LEMMA SerialRelease ==
  ASSUME Serial, SerialInv, IInv', NEW r \in Requests, Release(r),
         DecisionExplained', HistoryTellsState'
  PROVE  SerialInv'
<1>1. TypeOK /\ req'[r] = Idle
  BY DEF SerialInv, IInv, TypeOK, Release
<1>2. Stage(r)'
  BY <1>1 DEF Stage, Idle, BatchOps
<1>3. \A p \in Points : owner'[p] # r
  BY ConstantsOK DEF Release, ConstantsOK
<1> QED
  BY <1>2, <1>3 DEF SerialInv, Serial, Pending

LEMMA SerialCommit ==
  ASSUME Serial, SerialInv, IInv', NEW r \in Requests, Commit(r)
  PROVE  SerialInv'
<1>1. TypeOK /\ RequestOK(r) /\ Stage(r) /\ req[r] \in Request
  BY DEF SerialInv, IInv, TypeOK
<1>2. ASSUME NEW p \in Points
      PROVE  /\ point'[p] = IF owner[p] = r THEN dirty[p] ELSE point[p]
             /\ history'[p] = Logged(r, p)
  BY DEF Commit, Visible
<1>3. DecisionExplained'
  <2>1. ASSUME NEW p \in Points PROVE Explained(point'[p])
    BY <1>2 DEF SerialInv, Pending, DecisionExplained, Explained
  <2> QED
    BY <2>1 DEF DecisionExplained, Explained
<1>4. HistoryTellsState'
  <2> SUFFICES ASSUME NEW p \in Points, history'[p].rows > 0
               PROVE  /\ history'[p].value = point'[p].value
                      /\ \/ history'[p].status = point'[p].status
                         \/ /\ history'[p].status = "in_review"
                            /\ point'[p].status \in Decisions
    BY DEF HistoryTellsState
  <2>1. CASE owner[p] # r
    <3>1. ~(req[r].todo # <<>> /\ p = Head(req[r].todo) /\ req[r].insert.count > 0)
      BY <1>1, <2>1 DEF RequestOK
    <3>2. history'[p] = history[p] /\ point'[p] = point[p]
      BY <1>2, <2>1, <3>1 DEF Logged
    <3> QED
      BY <3>2 DEF SerialInv, HistoryTellsState
  <2>2. CASE owner[p] = r /\ req[r].op \in BatchOps
    <3>1. Decided(point[p], dirty[p])
      BY <2>2 DEF SerialInv, Pending
    <3>2. req[r].insert.count = 0
      BY <1>1, <2>2 DEF Stage, RequestOK
    <3>3. history'[p] = history[p] /\ point'[p] = dirty[p]
      BY <1>2, <2>2, <3>2 DEF Logged
    <3>4. /\ history[p].value = point[p].value
          /\ \/ history[p].status = point[p].status
             \/ /\ history[p].status = "in_review"
                /\ point[p].status \in Decisions
      BY <3>3 DEF SerialInv, HistoryTellsState
    <3> QED
      BY <3>1, <3>3, <3>4 DEF Decided
  <2>3. CASE owner[p] = r /\ req[r].op \notin BatchOps
    <3>1. /\ req[r].todo # <<>> /\ p = Head(req[r].todo) /\ req[r].insert.count > 0
          /\ req[r].insert.status = dirty[p].status
          /\ req[r].insert.value = dirty[p].value
      BY <2>3 DEF SerialInv, Pending
    <3>2. Logged(r, p).status = req[r].insert.status /\ Logged(r, p).value = req[r].insert.value
      BY <3>1 DEF Logged
    <3> QED
      BY <1>2, <2>3, <3>1, <3>2
  <2> QED
    BY <2>1, <2>2, <2>3
<1> QED
  BY <1>3, <1>4, SerialRelease DEF Commit

LEMMA SerialAbort ==
  ASSUME Serial, SerialInv, IInv', NEW r \in Requests, Abort(r)
  PROVE  SerialInv'
BY CommittedKeep, SerialRelease DEF Abort

\* Requests of one statement run while the only slot is idle.
LEMMA SerialQuick ==
  ASSUME Serial, SerialInv, IInv', NEW r \in Requests, req[r].pc = "idle",
         UNCHANGED <<rows, items, req>>
  PROVE  SerialInv'
<1>1. ASSUME NEW s \in Requests PROVE Stage(s)' /\ \A p \in Points : Pending(s, p)'
  <2>1. s = r /\ req'[s].pc = "idle" /\ req'[s] = req[s] /\ owner' = owner
    BY DEF Serial, rows
  <2>2. Stage(s)'
    BY <2>1 DEF SerialInv, Stage
  <2> QED
    BY <2>1, <2>2, IdleFree DEF Pending
<1>2. DecisionExplained' /\ HistoryTellsState'
  BY CommittedKeep DEF rows
<1> QED
  BY <1>1, <1>2 DEF SerialInv

\* With one request at a time every step keeps the invariant.
THEOREM SerialNext == Serial /\ SerialInv /\ [Next]_vars => SerialInv'
<1> SUFFICES ASSUME Serial, SerialInv, [Next]_vars PROVE SerialInv'
  OBVIOUS
<1>1. IInv'
  BY NextInvariant DEF SerialInv
<1>2. CASE UNCHANGED vars
  <2>1. ASSUME NEW r \in Requests PROVE Stage(r)' /\ \A p \in Points : Pending(r, p)'
    <3>1. Stage(r) /\ \A p \in Points : Pending(r, p)
      BY DEF SerialInv
    <3>2. Stage(r)'
      BY <1>2, <3>1
      DEF vars, Stage, Allowed, CanAccess, EditAllowed, Submittable, Rollbackable,
          Reviewable, TransitionGate, CommentGate, ProjectLockedGate, InvalidValueTypeGate,
          EvidenceGate
    <3> QED
      BY <1>2, <3>1, <3>2 DEF vars, Pending, Legal, MoveOf, EditOf, Explained, Decided
  <2> QED
    BY <1>1, <1>2, <2>1, CommittedKeep DEF vars, SerialInv
<1>3. ASSUME NEW r \in Requests, Step(r) PROVE SerialInv'
  BY <1>1, <1>3, SerialWrite, SerialBatchLoad, SerialBatchWrite, SerialCompleteness,
     SerialCommit, SerialAbort DEF Step, BreakDeadlock
<1>4. ASSUME NEW r \in Requests, NEW p \in Points,
             \/ LinkEvidence(r, p) \/ UnlinkEvidence(r, p)
             \/ AssignReviewer(r, p) \/ UnassignReviewer(r, p) \/ ChangeLifecycle(r)
      PROVE  SerialInv'
  <2>1. req[r].pc = "idle" /\ UNCHANGED <<rows, items, req>>
    BY <1>4 DEF LinkEvidence, UnlinkEvidence, AssignReviewer, UnassignReviewer,
       ChangeLifecycle, Quick
  <2> QED
    BY <1>1, <2>1, SerialQuick
<1>5. ASSUME NEW r \in Requests, ChangeLifecycle(r) PROVE SerialInv'
  <2>1. req[r].pc = "idle" /\ UNCHANGED <<rows, items, req>>
    BY <1>5 DEF ChangeLifecycle, Quick
  <2> QED
    BY <1>1, <2>1, SerialQuick
<1>6. ASSUME NEW r \in Requests, Client(r) PROVE SerialInv'
  BY <1>1, <1>4, <1>5, <1>6, SerialBegin, SerialBeginBatch, SerialCompleteness, SerialAbort
  DEF Client
<1> QED
  BY <1>2, <1>3, <1>6 DEF Next

-----------------------------------------------------------------------------
(* The promises.                                                            *)

\* A step of the service is a step of the lifecycle, or leaves it alone.
THEOREM StepImplements ==
  Serial /\ SerialInv /\ [Next]_vars
    => [Lifecycle!Next]_<<[p \in Points |-> point[p].status], [p \in Points |-> point[p].value]>>
<1> SUFFICES ASSUME Serial, SerialInv, [Next]_vars
             PROVE  \/ Lifecycle!Next
                    \/ UNCHANGED <<[p \in Points |-> point[p].status],
                                   [p \in Points |-> point[p].value]>>
  OBVIOUS
<1>1. ASSUME UNCHANGED point
      PROVE  UNCHANGED <<[p \in Points |-> point[p].status], [p \in Points |-> point[p].value]>>
  BY <1>1
<1>2. ASSUME NEW r \in Requests, Commit(r) PROVE Lifecycle!Next
  <2> SUFFICES ASSUME NEW p \in Points
               PROVE  Lifecycle!Move(p) \/ Lifecycle!Edit(p) \/ Lifecycle!Keep(p)
    BY DEF Lifecycle!Next
  <2>1. point'[p] = IF owner[p] = r THEN dirty[p] ELSE point[p]
    BY <1>2 DEF Commit, Visible
  <2>2. CASE owner[p] # r
    BY <2>1, <2>2 DEF Lifecycle!Keep
  <2>3. CASE owner[p] = r
    <3>1. Legal(point[p], point'[p])
      BY <2>1, <2>3 DEF SerialInv, Pending
    <3>2. CASE MoveOf(point[p], point'[p])
      BY <3>2 DEF MoveOf, Lifecycle!Move
    <3>3. CASE EditOf(point[p], point'[p])
      BY <3>3 DEF EditOf, Lifecycle!Edit
    <3> QED
      BY <3>1, <3>2, <3>3 DEF Legal
  <2> QED
    BY <2>2, <2>3
<1>3. ASSUME NEW r \in Requests, Step(r), ~Commit(r) PROVE UNCHANGED point
  BY <1>3 DEF Step, Write, BatchLoad, BatchWrite, ComputeItem, PutItem, BreakDeadlock, Abort, rows
<1>4. ASSUME NEW r \in Requests, Client(r) PROVE UNCHANGED point
  BY <1>4 DEF Client, Begin, BeginBatch, BeginCompleteness, Abort, LinkEvidence,
     UnlinkEvidence, AssignReviewer, UnassignReviewer, ChangeLifecycle, Quick, rows
<1>5. CASE UNCHANGED vars
  BY <1>1, <1>5 DEF vars
<1> QED
  BY <1>1, <1>2, <1>3, <1>4, <1>5 DEF Next

\* With at most one request at a time the service implements the lifecycle of
\* a data point, for any number of points, items and values.
THEOREM LifecycleImplemented ==
  ASSUME Serial PROVE Spec => ImplementsLifecycle
<1>1. Init => Lifecycle!Init
  <2> SUFFICES ASSUME Init PROVE Lifecycle!Init
    OBVIOUS
  <2>1. PICK v \in [Points -> Values \cup {NoValue}] :
          point = [p \in Points |-> [NewRow EXCEPT !.value = v[p]]]
    BY DEF Init
  <2>2. \A p \in Points : point[p].status = "draft" /\ point[p].value = v[p]
    BY <2>1 DEF NewRow
  <2> QED
    BY <2>2 DEF Lifecycle!Init
<1>2. SerialInv /\ [Next]_vars => SerialInv'
  BY SerialNext
<1>3. SerialInv /\ [Next]_vars
        => [Lifecycle!Next]_<<[p \in Points |-> point[p].status],
                              [p \in Points |-> point[p].value]>>
  BY StepImplements
<1> QED
  BY <1>1, <1>2, <1>3, SerialInit, PTL DEF Spec, ImplementsLifecycle, Lifecycle!Spec

\* With at most one request at a time a rejected point, and one sent back for
\* revision, carries the comment of that decision.
THEOREM DecisionsExplained ==
  ASSUME Serial PROVE Spec => []DecisionExplained
<1>1. SerialInv => DecisionExplained
  BY DEF SerialInv
<1>2. SerialInv /\ [Next]_vars => SerialInv'
  BY SerialNext
<1> QED
  BY <1>1, <1>2, SerialInit, PTL DEF Spec

\* With at most one request at a time the newest version row tells the value
\* of the point, and its status up to a batch decision.
THEOREM HistoryTruthful ==
  ASSUME Serial PROVE Spec => []HistoryTellsState
<1>1. SerialInv => HistoryTellsState
  BY DEF SerialInv
<1>2. SerialInv /\ [Next]_vars => SerialInv'
  BY SerialNext
<1> QED
  BY <1>1, <1>2, SerialInit, PTL DEF Spec

-----------------------------------------------------------------------------
(* While requests do not overlap: a request that changes one point leaves   *)
(* every item as the points amount to, and a completeness request repairs   *)
(* every item.                                                              *)

\* What the commit of r makes of an item.
Held(r, i) == IF itemOwner[i] = r THEN dirtyItem[i] ELSE item[i]

\* The items a request recalculates.
Scope(r) ==
  IF req[r].op = "completeness" THEN Items ELSE BoundItems(Head(req[r].todo))

\* How far the request has come with its items: the ones behind it are as the
\* rows it sees amount to, the ones before it are untouched.
ItemStage(r) ==
  /\ req[r].pc \in {"idle", "load", "write", "commit"} =>
       \A i \in Items : itemOwner[i] # r
  /\ req[r].pc = "commit" => req[r].op = "edit"
  /\ req[r].op = "edit" =>
       \A p \in Points : owner[p] = r => dirty[p].status = point[p].status
  /\ req[r].pc \in {"items", "put"} =>
     /\ req[r].op \in StatusOps \cup {"completeness"}
     /\ req[r].op = "completeness" => req[r].seen = item /\ \A p \in Points : owner[p] # r
     /\ req[r].pending \subseteq Scope(r)
     /\ \A i \in Items : i \in req[r].pending \/ i \notin Scope(r) => itemOwner[i] # r
     /\ \A i \in Scope(r) \ req[r].pending : Held(r, i) = ItemStatus(Visible(r), evidence, i)
  /\ req[r].pc = "put" =>
       \A i \in Items : NextItem(r, i) =>
         /\ req[r].calc = ItemStatus(Visible(r), evidence, i)
         /\ req[r].seen[i] = item[i]

\* The inductive invariant of one request at a time, with its items.
ItemsInv == SerialInv /\ \A r \in Requests : ItemStage(r)

\* calculate_item_status reads of a point whether it is approved.
LEMMA StatusIsRead ==
  ASSUME NEW i \in Items, NEW old, NEW new, NEW ev,
         \A p \in Bound[i] : old[p].status = new[p].status
  PROVE  ItemStatus(old, ev, i) = ItemStatus(new, ev, i)
<1>1. Approved(old, i) = Approved(new, i)
  BY DEF Approved
<1>2. Unevidenced(old, ev, i) = Unevidenced(new, ev, i)
  BY <1>1 DEF Unevidenced
<1> QED
  BY <1>1, <1>2 DEF ItemStatus

\* Of the items still to do one is next.
LEMMA NextIsOne ==
  ASSUME NEW r \in Requests, req[r].pending \subseteq Items,
         NEW i \in Items, NEW j \in Items, NextItem(r, i), NextItem(r, j)
  PROVE  i = j
<1>1. i \in Nat /\ j \in Nat /\ SortOrder[i] \in Nat /\ SortOrder[j] \in Nat
  BY ConstantsOK DEF ConstantsOK
<1>2. CASE req[r].op = "completeness"
  <2>1. SortOrder[i] <= SortOrder[j] /\ SortOrder[j] <= SortOrder[i]
    BY <1>2 DEF NextItem
  <2>2. SortOrder[i] = SortOrder[j]
    BY <1>1, <2>1
  <2> QED
    BY <2>2, ConstantsOK DEF ConstantsOK
<1>3. CASE req[r].op # "completeness"
  <2>1. i <= j /\ j <= i
    BY <1>3 DEF NextItem
  <2> QED
    BY <1>1, <2>1
<1> QED
  BY <1>2, <1>3

\* Against the row it was loaded with, the UPDATE writes the computed row.
LEMMA MergeItemSame ==
  ASSUME NEW old \in ItemRow, NEW new \in ItemRow
  PROVE  MergeItem(old, new, old) = new
BY DEF MergeItem, Changed, ItemRow

\* A request that holds no item, before and between its steps with items.
LEMMA NoItemsHeld ==
  ASSUME NEW r \in Requests, \A i \in Items : itemOwner[i] # r, UNCHANGED itemOwner,
         req'[r].pc \in {"idle", "load", "write", "commit"},
         req'[r].pc = "commit" => req'[r].op = "edit",
         req'[r].op = "edit" =>
           \A p \in Points : owner'[p] = r => dirty'[p].status = point'[p].status
  PROVE  ItemStage(r)'
BY DEF ItemStage

LEMMA ItemsBegin ==
  ASSUME ItemsInv, NEW r \in Requests, NEW op \in PointOps,
         NEW p \in Points, NEW arg \in Arguments(op), Begin(r, op, p, arg)
  PROVE  ItemStage(r)'
<1> DEFINE q == [Idle EXCEPT !.pc = "write", !.op = op, !.todo = <<p>>, !.arg = arg,
                             !.loaded = point[p]]
<1>1. /\ TypeOK /\ req[r].pc = "idle" /\ UNCHANGED <<point, history, dirty, owner, itemOwner>>
      /\ req' = [req EXCEPT ![r] = q] /\ ItemStage(r)
  BY DEF ItemsInv, SerialInv, IInv, Begin, rows, items
<1>2. q.pc = "write"
  BY DEF Idle
<1>3. req'[r] = q
  BY <1>1 DEF TypeOK
<1> HIDE DEF q
<1>4. \A p2 \in Points : owner[p2] # r
  BY <1>1, IdleFree DEF ItemsInv
<1> QED
  BY <1>1, <1>2, <1>3, <1>4, NoItemsHeld DEF ItemStage

LEMMA ItemsWrite ==
  ASSUME ItemsInv, NEW r \in Requests, Write(r)
  PROVE  ItemStage(r)'
<1> DEFINE p == Head(req[r].todo)
           op == req[r].op
           orm == OrmRow(r, p)
<1>1. /\ TypeOK /\ RequestOK(r) /\ Stage(r) /\ req[r] \in Request /\ req[r].pc = "write"
      /\ op \in PointOps /\ ItemStage(r) /\ UNCHANGED <<point, itemOwner>>
  BY DEF ItemsInv, SerialInv, IInv, TypeOK, Write, items
<1>2. req[r].todo # <<>> /\ p \in Points /\ op \notin BatchOps
  BY <1>1, HeadTail DEF RequestOK, Request, PointOps, StatusOps, BatchOps
<1>3. req[r].loaded = point[p]
  BY <1>1, <1>2 DEF Stage
<1>4. dirty' = [dirty EXCEPT ![p] = orm] /\ owner' = [owner EXCEPT ![p] = r]
  <2>1. orm \in Row /\ point[p] \in Row
    BY <1>1, <1>2, OrmRowType DEF TypeOK
  <2>2. Merge(req[r].loaded, orm, point[p]) = orm
    BY <1>3, <2>1, MergeSame
  <2> QED
    BY <2>2 DEF Write, RowLocked
<1>5. /\ req'[r].op = op /\ req'[r].todo = req[r].todo
      /\ req'[r].pc = (IF op = "edit" THEN "commit" ELSE "items")
      /\ req'[r].pending = IF op = "edit" THEN {} ELSE BoundItems(p)
  <2>1. PICK new :
          req' = [req EXCEPT ![r].pc = IF op = "edit" THEN "commit" ELSE "items",
                             ![r].insert = new,
                             ![r].pending = IF op = "edit" THEN {} ELSE BoundItems(p)]
    BY DEF Write
  <2> QED
    BY <1>1, <2>1 DEF TypeOK, Request
<1>6. \A i \in Items : itemOwner[i] # r
  BY <1>1 DEF ItemStage
<1>7. CASE op = "edit"
  <2>1. orm = [point[p] EXCEPT !.value = req[r].arg]
    BY <1>3, <1>7 DEF OrmRow
  <2>2. orm.status = point[p].status
    BY <1>1, <1>2, <2>1 DEF TypeOK, Row
  <2>3. \A p2 \in Points : owner[p2] # r
    BY <1>1, <1>2, NothingLocked DEF RequestOK, ItemsInv
  <2> HIDE DEF orm
  <2>4. \A p2 \in Points : owner'[p2] = r => p2 = p /\ dirty'[p2] = orm
    BY <1>1, <1>2, <1>4, <2>3 DEF TypeOK
  <2> QED
    BY <1>1, <1>5, <1>6, <1>7, <2>2, <2>4, NoItemsHeld
<1>8. CASE op # "edit"
  <2>1. op \in StatusOps /\ op # "completeness"
    BY <1>1, <1>8 DEF PointOps, StatusOps
  <2>2. Scope(r)' = BoundItems(p) /\ req'[r].pending = BoundItems(p)
    BY <1>5, <1>8, <2>1 DEF Scope, BoundItems
  <2> QED
    BY <1>1, <1>5, <1>6, <1>8, <2>1, <2>2 DEF ItemStage
<1> QED
  BY <1>7, <1>8

LEMMA ItemsBatch ==
  ASSUME ItemsInv, NEW r \in Requests,
         \/ BatchLoad(r) \/ BatchWrite(r)
         \/ \E op \in BatchOps, todo \in Batches : \E arg \in Arguments(op) :
              BeginBatch(r, op, todo, arg)
  PROVE  ItemStage(r)'
<1>1. /\ TypeOK /\ RequestOK(r) /\ Stage(r) /\ req[r] \in Request /\ ItemStage(r)
      /\ UNCHANGED itemOwner
  BY DEF ItemsInv, SerialInv, IInv, TypeOK, BatchLoad, BatchWrite, BeginBatch, items
<1>2. /\ req[r].pc \in {"idle", "load", "write"}
      /\ req'[r].pc \in {"load", "write"} /\ req'[r].op \in BatchOps
  <2>1. CASE BatchLoad(r)
    <3>1. /\ req[r].pc = "load"
          /\ \/ req' = [req EXCEPT ![r].pc = "write", ![r].loaded = point[Head(req[r].todo)]]
             \/ req' = [req EXCEPT ![r].todo = Tail(@)]
      BY <2>1 DEF BatchLoad
    <3>2. req'[r].pc \in {"load", "write"} /\ req'[r].op = req[r].op
      BY <1>1, <3>1 DEF TypeOK, Request
    <3> QED
      BY <1>1, <3>1, <3>2 DEF RequestOK
  <2>2. CASE BatchWrite(r)
    BY <1>1, <2>2 DEF BatchWrite, TypeOK, Request
  <2>3. ASSUME NEW op \in BatchOps, NEW todo, NEW arg, BeginBatch(r, op, todo, arg)
        PROVE  req[r].pc = "idle" /\ req'[r].pc = "load" /\ req'[r].op = op
    <3> DEFINE q == [Idle EXCEPT !.pc = "load", !.op = op, !.todo = todo, !.arg = arg]
    <3>1. req' = [req EXCEPT ![r] = q] /\ req[r].pc = "idle"
      BY <2>3 DEF BeginBatch
    <3>2. q.pc = "load" /\ q.op = op
      BY DEF Idle
    <3> HIDE DEF q
    <3> QED
      BY <1>1, <3>1, <3>2 DEF TypeOK
  <2> QED
    BY <2>1, <2>2, <2>3
<1>3. req'[r].op # "edit"
  BY <1>2 DEF BatchOps
<1> QED
  BY <1>1, <1>2, <1>3, NoItemsHeld DEF ItemStage

LEMMA ItemsCompleteness ==
  ASSUME ItemsInv, NEW r \in Requests, BeginCompleteness(r)
  PROVE  ItemStage(r)'
<1> DEFINE q == [Idle EXCEPT !.pc = "items", !.op = "completeness",
                             !.pending = Items, !.seen = item]
<1>1. /\ TypeOK /\ req[r].pc = "idle" /\ req' = [req EXCEPT ![r] = q] /\ ItemStage(r)
      /\ UNCHANGED <<point, dirty, owner, item, dirtyItem, itemOwner>>
  BY DEF ItemsInv, SerialInv, IInv, BeginCompleteness, rows, items
<1>2. /\ req'[r].pc = "items" /\ req'[r].op = "completeness" /\ req'[r].pending = Items
      /\ req'[r].seen = item
  BY <1>1 DEF TypeOK, Idle
<1>3. \A p \in Points : owner[p] # r
  BY <1>1, IdleFree DEF ItemsInv
<1>4. Scope(r)' = Items
  BY <1>2 DEF Scope
<1> QED
  BY <1>1, <1>2, <1>3, <1>4 DEF ItemStage

LEMMA ItemsCompute ==
  ASSUME ItemsInv, NEW r \in Requests, ComputeItem(r)
  PROVE  ItemStage(r)'
<1>1. /\ TypeOK /\ req[r] \in Request /\ req[r].pc = "items" /\ ItemStage(r)
      /\ UNCHANGED <<point, dirty, owner, item, dirtyItem, itemOwner, evidence>>
  BY DEF ItemsInv, SerialInv, IInv, TypeOK, ComputeItem, rows, items, setting
<1>2. PICK i \in Items :
        /\ NextItem(r, i)
        /\ req' = [req EXCEPT
                     ![r].pc = "put",
                     ![r].calc = ItemStatus(Visible(r), evidence, i),
                     ![r].seen = IF req[r].op = "completeness" THEN @
                                 ELSE [@ EXCEPT ![i] = item[i]]]
  BY DEF ComputeItem
<1>3. /\ req'[r].pc = "put" /\ req'[r].op = req[r].op /\ req'[r].todo = req[r].todo
      /\ req'[r].pending = req[r].pending
      /\ req'[r].calc = ItemStatus(Visible(r), evidence, i)
      /\ req'[r].seen = IF req[r].op = "completeness" THEN req[r].seen
                        ELSE [req[r].seen EXCEPT ![i] = item[i]]
  BY <1>1, <1>2 DEF TypeOK, Request
<1>4. Scope(r)' = Scope(r) /\ Visible(r)' = Visible(r)
  BY <1>1, <1>3 DEF Scope, Visible, BoundItems
<1>5. req'[r].seen[i] = item[i]
  BY <1>1, <1>3 DEF ItemStage, Request
<1>6. req[r].pending \subseteq Items
  BY <1>1 DEF Request
<1>7. ASSUME NEW j \in Items, NextItem(r, j)' PROVE j = i
  <2>1. NextItem(r, j)
    BY <1>3, <1>7 DEF NextItem
  <2> QED
    BY <1>2, <1>6, <2>1, NextIsOne
<1>8. ASSUME NEW j \in Items
      PROVE  /\ Held(r, j)' = Held(r, j)
             /\ ItemStatus(Visible(r), evidence, j)' = ItemStatus(Visible(r), evidence, j)
  BY <1>1, <1>4 DEF Held
<1>9. \A j \in Scope(r) : j \in Items
  BY DEF Scope, BoundItems
<1>10. /\ req'[r].op \in StatusOps \cup {"completeness"}
       /\ req'[r].op = "completeness" =>
            req'[r].seen = item' /\ \A p \in Points : owner'[p] # r
       /\ req'[r].pending \subseteq Scope(r)'
       /\ \A j \in Items : j \in req'[r].pending \/ j \notin Scope(r)' => itemOwner'[j] # r
  BY <1>1, <1>3, <1>4 DEF ItemStage
<1>11. \A j \in Scope(r)' \ req'[r].pending :
         Held(r, j)' = ItemStatus(Visible(r), evidence, j)'
  BY <1>1, <1>3, <1>4, <1>8, <1>9 DEF ItemStage
<1>12. ASSUME NEW j \in Items, NextItem(r, j)'
       PROVE  /\ req'[r].calc = ItemStatus(Visible(r), evidence, j)'
              /\ req'[r].seen[j] = item'[j]
  BY <1>1, <1>3, <1>5, <1>7, <1>8, <1>12
<1>13. req'[r].op # "edit"
  BY <1>10 DEF StatusOps
<1> QED
  BY <1>3, <1>10, <1>11, <1>12, <1>13 DEF ItemStage

LEMMA ItemsPut ==
  ASSUME ItemsInv, NEW r \in Requests, PutItem(r)
  PROVE  ItemStage(r)'
<1>1. /\ TypeOK /\ req[r] \in Request /\ req[r].pc = "put" /\ ItemStage(r)
      /\ UNCHANGED <<point, dirty, owner, evidence>> /\ Stage(r)
  BY DEF ItemsInv, SerialInv, IInv, TypeOK, PutItem, rows, setting
<1>2. PICK i \in Items :
        /\ NextItem(r, i)
        /\ req' = [req EXCEPT ![r].pc = "items", ![r].pending = @ \ {i}]
        /\ IF req[r].calc = req[r].seen[i]
           THEN UNCHANGED items
           ELSE /\ itemOwner' = [itemOwner EXCEPT ![i] = r]
                /\ dirtyItem' = [dirtyItem EXCEPT
                     ![i] = MergeItem(req[r].seen[i], req[r].calc, item[i])]
                /\ UNCHANGED item
  BY DEF PutItem
<1>3. /\ req'[r].pc = "items" /\ req'[r].op = req[r].op /\ req'[r].todo = req[r].todo
      /\ req'[r].pending = req[r].pending \ {i} /\ req'[r].seen = req[r].seen
  BY <1>1, <1>2 DEF TypeOK, Request
<1>4. /\ i \in req[r].pending /\ i \in Scope(r) /\ itemOwner[i] # r
      /\ req[r].calc = ItemStatus(Visible(r), evidence, i) /\ req[r].seen[i] = item[i]
  BY <1>1, <1>2 DEF ItemStage, NextItem
<1>5. Scope(r)' = Scope(r) /\ Visible(r)' = Visible(r) /\ item' = item
  BY <1>1, <1>2, <1>3 DEF Scope, Visible, BoundItems, items
<1>6. ASSUME NEW j \in Items, j # i
      PROVE  Held(r, j)' = Held(r, j) /\ itemOwner'[j] = itemOwner[j]
  BY <1>1, <1>2, <1>5, <1>6 DEF Held, items, TypeOK
<1>7. Held(r, i)' = ItemStatus(Visible(r), evidence, i)
  <2>1. CASE req[r].calc = req[r].seen[i]
    BY <1>2, <1>4, <1>5, <2>1 DEF Held, items
  <2>2. CASE req[r].calc # req[r].seen[i]
    <3>1. MergeItem(req[r].seen[i], req[r].calc, item[i]) = req[r].calc
      BY <1>1, <1>4, MergeItemSame DEF TypeOK, Request
    <3>2. itemOwner'[i] = r /\ dirtyItem'[i] = req[r].calc
      BY <1>1, <1>2, <2>2, <3>1 DEF TypeOK
    <3> QED
      BY <1>4, <3>2 DEF Held
  <2> QED
    BY <2>1, <2>2
<1>8. ASSUME NEW j \in Items, j \in req[r].pending \ {i} \/ j \notin Scope(r)
      PROVE  itemOwner'[j] # r
  <2>1. j # i
    BY <1>4, <1>8
  <2> QED
    BY <1>1, <1>6, <1>8, <2>1 DEF ItemStage
<1>9. ASSUME NEW j \in Scope(r) \ (req[r].pending \ {i})
      PROVE  Held(r, j)' = ItemStatus(Visible(r), evidence, j)
  <2>1. j \in Items
    BY <1>9 DEF Scope, BoundItems
  <2> QED
    BY <1>1, <1>6, <1>7, <1>9, <2>1 DEF ItemStage
<1>10. \A j \in Items : ItemStatus(Visible(r), evidence, j)'
                          = ItemStatus(Visible(r), evidence, j)
  BY <1>1, <1>5
<1>11. \A j \in Scope(r) : j \in Items
  BY DEF Scope, BoundItems
<1> QED
  BY <1>1, <1>3, <1>5, <1>8, <1>9, <1>10, <1>11 DEF ItemStage, StatusOps

\* The end of a transaction, and requests of one statement.
LEMMA ItemsRelease ==
  ASSUME ItemsInv, NEW r \in Requests, Commit(r) \/ Abort(r)
  PROVE  ItemStage(r)'
<1>1. TypeOK /\ Release(r)
  BY DEF ItemsInv, SerialInv, IInv, Commit, Abort
<1>2. req'[r] = Idle /\ \A i \in Items : itemOwner'[i] # r
  BY <1>1, ConstantsOK DEF Release, TypeOK, ConstantsOK
<1>3. \A p \in Points : owner'[p] # r
  BY <1>1, ConstantsOK DEF Release, ConstantsOK
<1> QED
  BY <1>2, <1>3 DEF ItemStage, Idle

LEMMA ItemsQuick ==
  ASSUME ItemsInv, NEW r \in Requests, req[r].pc = "idle", UNCHANGED <<rows, items, req>>
  PROVE  ItemStage(r)'
<1>1. ItemStage(r) /\ \A p \in Points : owner[p] # r
  BY IdleFree DEF ItemsInv
<1> QED
  BY <1>1 DEF ItemStage, rows, items

THEOREM ItemsNext == Serial /\ ItemsInv /\ [Next]_vars => ItemsInv'
<1> SUFFICES ASSUME Serial, ItemsInv, [Next]_vars PROVE ItemsInv'
  OBVIOUS
<1>1. SerialInv'
  BY SerialNext DEF ItemsInv
<1>2. CASE UNCHANGED vars
  <2>1. ASSUME NEW r \in Requests PROVE ItemStage(r)'
    <3>1. ItemStage(r)
      BY DEF ItemsInv
    <3> QED
      BY <1>2, <3>1 DEF vars, ItemStage, NextItem, Held, Visible, Scope, BoundItems
  <2> QED
    BY <1>1, <2>1 DEF ItemsInv
<1>3. ASSUME NEW r \in Requests, Step(r) PROVE ItemStage(r)'
  BY <1>3, ItemsWrite, ItemsBatch, ItemsCompute, ItemsPut, ItemsRelease
  DEF Step, BreakDeadlock
<1>4. ASSUME NEW r \in Requests, NEW p \in Points,
             \/ LinkEvidence(r, p) \/ UnlinkEvidence(r, p)
             \/ AssignReviewer(r, p) \/ UnassignReviewer(r, p)
      PROVE  ItemStage(r)'
  <2>1. req[r].pc = "idle" /\ UNCHANGED <<rows, items, req>>
    BY <1>4 DEF LinkEvidence, UnlinkEvidence, AssignReviewer, UnassignReviewer, Quick
  <2> QED
    BY <2>1, ItemsQuick
<1>5. ASSUME NEW r \in Requests, ChangeLifecycle(r) PROVE ItemStage(r)'
  <2>1. req[r].pc = "idle" /\ UNCHANGED <<rows, items, req>>
    BY <1>5 DEF ChangeLifecycle, Quick
  <2> QED
    BY <2>1, ItemsQuick
<1>6. ASSUME NEW r \in Requests, Client(r) PROVE ItemStage(r)'
  BY <1>4, <1>5, <1>6, ItemsBegin, ItemsBatch, ItemsCompleteness, ItemsRelease DEF Client
<1> QED
  BY <1>1, <1>2, <1>3, <1>6 DEF Next, ItemsInv, Serial

\* What the commit of a completeness request, or of a request that changes one
\* point among fresh items, leaves.
LEMMA CommitRefreshes ==
  ASSUME ItemsInv, NEW r \in Requests, req[r].pc # "idle", Commit(r),
         req[r].op = "completeness" \/ (req[r].op \in PointOps /\ Fresh)
  PROVE  Fresh'
<1>1. TypeOK /\ RequestOK(r) /\ Stage(r) /\ req[r] \in Request /\ ItemStage(r) /\ evidence' = evidence
  BY DEF ItemsInv, SerialInv, IInv, TypeOK, Commit, Release, setting
<1>2. /\ \A p \in Points : Visible(r)[p] = IF owner[p] = r THEN dirty[p] ELSE point[p]
      /\ point' = Visible(r)
  BY DEF Commit, Visible
<1>3. \A i \in Items : item'[i] = Held(r, i)
  BY DEF Commit, Held
<1>4. \A i \in Items : Bound[i] \subseteq Points
  BY ConstantsOK DEF ConstantsOK
<1>5. \/ req[r].pc = "commit" /\ req[r].op = "edit"
      \/ req[r].pc = "items" /\ req[r].pending = {}
  <2>1. req[r].op \notin BatchOps
    BY DEF PointOps, StatusOps, BatchOps
  <2> QED
    BY <1>1, <2>1 DEF Commit, Finished, ItemStage, RequestOK
<1> SUFFICES ASSUME NEW i \in Items PROVE item'[i] = ItemStatus(Visible(r), evidence, i)
  BY <1>1, <1>2 DEF Fresh
<1>6. ASSUME item[i] = ItemStatus(point, evidence, i), itemOwner[i] # r,
             \A p \in Bound[i] : Visible(r)[p].status = point[p].status
      PROVE  item'[i] = ItemStatus(Visible(r), evidence, i)
  <2>1. ItemStatus(Visible(r), evidence, i) = ItemStatus(point, evidence, i)
    BY <1>6, StatusIsRead
  <2> QED
    BY <1>3, <1>6, <2>1 DEF Held
<1>7. CASE req[r].pc = "commit" /\ req[r].op = "edit"
  <2>1. \A p \in Points : Visible(r)[p].status = point[p].status
    BY <1>1, <1>2, <1>7 DEF ItemStage
  <2>2. item[i] = ItemStatus(point, evidence, i) /\ itemOwner[i] # r
    BY <1>1, <1>7 DEF ItemStage, Fresh
  <2> QED
    BY <1>4, <1>6, <2>1, <2>2
<1>8. CASE req[r].pc = "items" /\ i \in Scope(r) /\ req[r].pending = {}
  BY <1>1, <1>3, <1>8 DEF ItemStage
<1>9. CASE req[r].pc = "items" /\ i \notin Scope(r)
  <2>1. req[r].op # "completeness"
    BY <1>9 DEF Scope
  <2>2. req[r].op \in StatusOps /\ Fresh
    BY <1>1, <1>9, <2>1 DEF ItemStage
  <2>3. ASSUME NEW p \in Bound[i] PROVE owner[p] # r
    <3>1. p # Head(req[r].todo)
      BY <1>9, <2>1, <2>3 DEF Scope, BoundItems
    <3>2. p \in Points /\ Pending(r, p) /\ req[r].op \notin BatchOps
      BY <1>4, <2>2 DEF ItemsInv, SerialInv, StatusOps, BatchOps
    <3> QED
      BY <3>1, <3>2 DEF Pending
  <2>4. item[i] = ItemStatus(point, evidence, i) /\ itemOwner[i] # r
    BY <1>1, <1>9, <2>2 DEF ItemStage, Fresh
  <2> QED
    BY <1>2, <1>4, <1>6, <2>3, <2>4
<1> QED
  BY <1>5, <1>7, <1>8, <1>9

\* With at most one request at a time a completeness request leaves every item as
\* the points amount to, whatever it found, and so does a request that changes one
\* point, if it found them so: the recalculation of the bound items misses none.
THEOREM ItemsStayFresh ==
  ASSUME Serial PROVE Spec => ItemsFresh
<1> DEFINE A == \A r \in Requests :
                  /\ req[r].pc # "idle" /\ Commit(r)
                  /\ req[r].op = "completeness" \/ (req[r].op \in PointOps /\ Fresh)
                  => Fresh'
<1>1. Init => ItemsInv
  <2> SUFFICES ASSUME Init PROVE ItemsInv
    OBVIOUS
  <2>1. \A i \in Items : itemOwner[i] = NoRequest
    BY DEF Init
  <2>2. ASSUME NEW r \in Requests PROVE ItemStage(r)
    <3>1. req[r] = Idle /\ \A p \in Points : owner[p] # r
      BY ConstantsOK DEF Init, ConstantsOK
    <3>2. \A i \in Items : itemOwner[i] # r
      BY <2>1, ConstantsOK DEF ConstantsOK
    <3> QED
      BY <3>1, <3>2 DEF ItemStage, Idle
  <2> QED
    BY <2>2, SerialInit DEF ItemsInv
<1>2. ItemsInv /\ [Next]_vars => ItemsInv'
  BY ItemsNext
<1>3. ItemsInv => [A]_vars
  BY CommitRefreshes
<1> QED
  BY <1>1, <1>2, <1>3, PTL DEF Spec, ItemsFresh

=============================================================================
