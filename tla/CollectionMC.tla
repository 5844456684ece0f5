----------------------------- MODULE CollectionMC -----------------------------
(* Collection on a root and two subsidiaries, two metrics, three mappings at    *)
(* once, three requirement items and as many points, two events, and twelve    *)
(* days.                                                                       *)
EXTENDS Collection

CONSTANTS root, sub1, plant, water, gas, i1, i2, i3, d1, d2, s1, s2, p1, p2, p3, v1, v2

\* A tenant metric is needed once, the other twice; users submit no field, one
\* for the metric everywhere, or one for the assignment at the plant.
Needed == [x \in {water, gas} |-> IF x = water THEN 2 ELSE 1]
Draft(place, id) == [metric |-> water, place |-> place, assignment |-> id]
Submissions ==
  {{}, {Draft([entity |-> root, facility |-> Nowhere], 0)},
   {Draft([entity |-> root, facility |-> plant], 1)}}

\* i1 must be reported by every entity, i2 is not required, i3 belongs to another
\* standard; two points of i1 belong to different entities.
ItemDisclosure == [x \in {i1, i2, i3} |-> IF x = i3 THEN d2 ELSE d1]
DisclosureStandard == [d \in {d1, d2} |-> IF d = d1 THEN s1 ELSE s2]
PointItem == [p \in {p1, p2, p3} |-> IF p = p3 THEN i3 ELSE i1]
PointEntity == [p \in {p1, p2, p3} |-> IF p = p1 THEN root ELSE sub1]

\* Two events about one matter, of a severity that is mailed but not repeated.
OneTopic == [v \in {v1, v2} |-> "boundary_changed"]
AllWarnings == [v \in {v1, v2} |-> "warning"]
=============================================================================
