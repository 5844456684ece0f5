------------------------- MODULE ProjectLifecycleMC --------------------------
(* Small instances of ProjectLifecycle for TLC. *)
EXTENDS ProjectLifecycle

CONSTANTS s1, s2, parent, plant

\* Every item reports on the plant, which may still have to be created.
AtPlant == [i \in {s1} |-> plant]
BothAtPlant == [i \in {s1, s2} |-> plant]

AllOps == Lifecycle \cup BoundaryOps \cup OtherOps

\* Standards may be added while the project is under way.
PublishOps == Lifecycle \cup {"snapshot", "standard", "create", "bind", "decide"}

\* The boundary may change while the project is under way.
RaceOps == Lifecycle \cup {"snapshot", "apply", "create", "bind", "decide"}
=============================================================================
