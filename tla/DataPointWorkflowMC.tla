------------------------- MODULE DataPointWorkflowMC -------------------------
(* Small instances of DataPointWorkflow for TLC. *)
EXTENDS DataPointWorkflow

CONSTANTS p1, p2, v1, v2

NoItems == {}
OneItem == {1}
TwoItems == {1, 2}

\* No requirement items: the point and its history alone.
BoundNone == [i \in {} |-> {}]
OrderNone == [i \in {} |-> 0]

\* Item 1 is bound to p1 only.
BoundOne == [i \in {1} |-> {p1}]
OrderOne == [i \in {1} |-> 1]

\* Two items, both bound to p1.
BoundTwo == [i \in {1, 2} |-> {p1}]

\* The project lists item 2 before item 1.
OrderReversed == [i \in {1, 2} |-> 3 - i]

\* Every value has the type its point's first item expects, or the second has not.
NoMisfits == {}
SecondMisfits == {<<p1, v2>>}

\* No batch, no items.
PointRequests == PointOps \cup {"assign", "unassign", "lifecycle"}

BatchEvidenceOps == {"submit", "unlink", "batch_approve"}
StuckOps == {"submit", "assign"}
AllOps == PointOps \cup BatchOps \cup OtherOps

\* Two batches that name the points in opposite orders; a status change takes
\* item rows in id order, a completeness request in listing order.
OverlapOps == {"submit", "batch_approve", "completeness"}
=============================================================================
