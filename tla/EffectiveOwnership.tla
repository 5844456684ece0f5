------------------------- MODULE EffectiveOwnership -------------------------
(***************************************************************************)
(* calculate_effective_ownership of EntityTreeService: the share of an     *)
(* entity that is held through chains of ownership, found by a depth-first *)
(* search from the entities nobody owns, over the graphs that a sequence   *)
(* of create_ownership calls can build (overlapping calls: OwnershipGraph).*)
(*                                                                         *)
(* Percentages are in units of which Whole make 100 %; a result is scaled  *)
(* by Whole^Depth so that it stays an integer.                             *)
(***************************************************************************)
EXTENDS Naturals, FiniteSets, Functions

CONSTANTS Entities, Whole

ConstantsOK == IsFiniteSet(Entities) /\ Whole \in Nat \ {0}

VARIABLE share  \* the percentages of the links of a pair added up, or NoLink

vars == <<share>>

Pairs == {l \in Entities \X Entities : l[1] # l[2]}
NoLink == Whole + 1
Linked(p, c) == <<p, c>> \in Pairs /\ share[<<p, c>>] # NoLink
Percent(p, c) == IF Linked(p, c) THEN share[<<p, c>>] ELSE 0

TypeOK == share \in [Pairs -> 0..Whole \cup {NoLink}]

Init == share = [l \in Pairs |-> NoLink]

OwnedOf(c) == SumFunction([p \in Entities |-> Percent(p, c)])

HeldBy(e) == {c \in Entities : Linked(e, c)}

\* What an entity owns after at most n steps, itself included.
Within[n \in Nat] ==
  [e \in Entities |-> IF n = 0 THEN {e}
     ELSE {e} \cup UNION {Within[n - 1][c] : c \in HeldBy(e)}]
Owns(e) == Within[Cardinality(Entities)][e]

CreateOwnership ==
  \E l \in Pairs, percent \in 0..Whole :
    /\ OwnedOf(l[2]) + percent <= Whole
    /\ l[1] \notin Owns(l[2])
    /\ share' = [share EXCEPT ![l] = Percent(l[1], l[2]) + percent]

Next == CreateOwnership

Spec == Init /\ [][Next]_vars

-----------------------------------------------------------------------------
Depth == Cardinality(Entities)
Power[n \in Nat] == IF n = 0 THEN 1 ELSE Whole * Power[n - 1]

AllParents == {p \in Entities : \E c \in Entities : Linked(p, c)}
AllChildren == {c \in Entities : \E p \in Entities : Linked(p, c)}
\* Mutant: a holding in the middle of a chain counts as a root too.
EveryParent == AllParents
Roots == AllParents \ AllChildren

\* What the search collects for the target below each entity, where it has visited
\* the entities of the chain above it.
Found(target) ==
  LET dfs[visited \in SUBSET Entities] ==
        [e \in Entities |->
           IF e \in visited THEN 0
           ELSE (IF e = target THEN Power[Depth - Cardinality(visited)] ELSE 0)
                + SumFunction([c \in HeldBy(e) |->
                                 Percent(e, c) * dfs[visited \cup {e}][c]])]
  IN dfs

Effective(target) == SumFunction([r \in Roots |-> Found(target)[{}][r]])

-----------------------------------------------------------------------------
\* The reference: what reaches each entity from the roots in exactly n steps,
\* scaled by Whole^n.
RootsOnly == {e \in Entities : (\E c \in Entities : Linked(e, c))
                               /\ (\A p \in Entities : ~Linked(p, e))}
Reached[n \in Nat] ==
  [e \in Entities |->
     IF n = 0 THEN IF e \in RootsOnly THEN 1 ELSE 0
     ELSE SumFunction([p \in Entities |-> Percent(p, e) * Reached[n - 1][p]])]
Chains(e) == SumFunction([n \in 0..Depth |-> Power[Depth - n] * Reached[n][e]])

\* The effective share is the sum over all chains from the roots, each the
\* product of its percentages; no entity is held beyond 100 % through chains
\* when none is held beyond 100 % directly; and an entity that is held wholly
\* by entities that are held wholly is itself held wholly.
EffectiveFollowsChains ==
  \A e \in Entities :
    /\ Effective(e) = Chains(e)
    /\ Effective(e) <= Power[Depth]
    /\ (OwnedOf(e) = Whole
        /\ \A p \in Entities : Percent(p, e) > 0 => Effective(p) = Power[Depth])
       => Effective(e) = Power[Depth]
=============================================================================
