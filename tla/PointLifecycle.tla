--------------------------- MODULE PointLifecycle ----------------------------
(***************************************************************************)
(* What the review workflow promises of a data point, with no requests and *)
(* no transactions: its status moves along the transition table only, and  *)
(* its value changes only while the point is editable.  A submit may pass  *)
(* through "submitted" to "in_review" in one step, because the automatic   *)
(* transition is part of the same transaction.                             *)
(***************************************************************************)
EXTENDS WorkflowState

CONSTANTS Points, Values, NoValue

VARIABLES status, value

ClientMoves == {<<t.from, t.to>> : t \in {u \in Transitions : u.roles \cap Roles # {}}}
SubmitMoves == {<<s, "in_review">> : s \in {m[1] : m \in {n \in ClientMoves : n[2] = "submitted"}}}

Init ==
  /\ status = [p \in Points |-> "draft"]
  /\ value \in [Points -> Values \cup {NoValue}]

\* Along the table; nothing enters review without a value.
Move(p) ==
  /\ <<status[p], status'[p]>> \in ClientMoves \cup SubmitMoves
  /\ value'[p] = value[p]
  /\ status'[p] \in {"submitted", "in_review"} => value[p] # NoValue

Edit(p) ==
  /\ status[p] \in Editable
  /\ status'[p] = status[p]
  /\ value'[p] \in Values \cup {NoValue}

Keep(p) == status'[p] = status[p] /\ value'[p] = value[p]

\* One commit may carry moves of several points (a batch).
Next == \A p \in Points : Move(p) \/ Edit(p) \/ Keep(p)

Spec == Init /\ [][Next]_<<status, value>>
=============================================================================
