--------------------------- MODULE ReportingPeriod ---------------------------
(***************************************************************************)
(* What the project lifecycle promises, with no requests: a project walks  *)
(* draft, active, review, published and back to active; it is published    *)
(* only with a locked snapshot of its own boundary; and from publication   *)
(* to rollback neither the boundary nor the snapshot moves.                *)
(***************************************************************************)
CONSTANTS Projects, Boundaries, NoBoundary, NoSnapshot

VARIABLES status, boundary, snapshot

Locked(j) == snapshot[j] # NoSnapshot /\ snapshot[j].boundary = boundary[j]

Init ==
  /\ status = [j \in Projects |-> "draft"]
  /\ boundary \in [Projects -> Boundaries \cup {NoBoundary}]
  /\ snapshot = [j \in Projects |-> NoSnapshot]

Frozen(j) == boundary'[j] = boundary[j] /\ snapshot'[j] = snapshot[j]

Start(j) ==
  /\ status[j] = "draft" /\ status'[j] = "active"
  /\ boundary[j] # NoBoundary
  /\ Frozen(j)
Review(j) == status[j] = "active" /\ status'[j] = "review" /\ Frozen(j)
Publish(j) ==
  /\ status[j] = "review" /\ status'[j] = "published"
  /\ Locked(j)
  /\ Frozen(j)
Rollback(j) == status[j] = "published" /\ status'[j] = "active" /\ Frozen(j)

\* Boundary work on an unpublished project; one commit may reach several
\* projects that share a boundary.
Prepare(j) == status'[j] = status[j] /\ (status[j] = "published" => Frozen(j))

Next ==
  \A j \in Projects :
    Start(j) \/ Review(j) \/ Publish(j) \/ Rollback(j) \/ Prepare(j)

Spec == Init /\ [][Next]_<<status, boundary, snapshot>>
=============================================================================
