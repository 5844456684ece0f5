--------------------------- MODULE OwnershipGraph ---------------------------
(***************************************************************************)
(* Who owns whom in one organization: create_ownership of EntityService,   *)
(* with its walk for cycles, as overlapping READ COMMITTED transactions.   *)
(*                                                                         *)
(* The row of the child is locked FOR UPDATE; the INSERT of the link takes *)
(* FOR KEY SHARE on parent and child through its foreign keys, which waits *)
(* for a row that another transaction holds FOR UPDATE and the other way   *)
(* round.  Each SELECT of the walk sees what is committed when it runs.    *)
(* Percentages are in units of which Whole make 100 %.                     *)
(***************************************************************************)
EXTENDS Naturals

CONSTANTS Entities, Root, Requests, Whole

VARIABLES
  links,    \* ownership_links, as pairs <<parent, child>>
  owned,    \* SUM(ownership_percent) of the links to each child
  request   \* the creation in flight

vars == <<links, owned, request>>

Pairs == {l \in Entities \X Entities : l[1] # l[2]}
Idle == [stage |-> "idle"]

\* todo and seen are the stack and the visited set of the walk.
InFlight == [stage : {"begun", "locked", "summed", "inserted"},
             parent : Entities, child : Entities, percent : 0..Whole,
             todo : SUBSET Entities, seen : SUBSET Entities]

TypeOK ==
  /\ links \subseteq Pairs
  /\ owned \in [Entities -> Nat]
  /\ request \in [Requests -> InFlight \cup {Idle}]
  /\ \A r \in Requests : request[r].stage # "idle" => request[r].parent # request[r].child

\* setup_organization links the subsidiaries to the root, each at most whole.
Init ==
  /\ links \in SUBSET {l \in Pairs : l[1] = Root}
  /\ owned \in [Entities -> 0..Whole]
  /\ \A e \in Entities : <<Root, e>> \notin links => owned[e] = 0
  /\ request = [r \in Requests |-> Idle]

Children(e) == {c \in Entities : <<e, c>> \in links}

\* Locks are held to the end of the transaction.
HoldsForUpdate(r, e) == request[r].stage \in {"locked", "summed", "inserted"}
                        /\ request[r].child = e
HoldsKeyShare(r, e) == request[r].stage = "inserted" /\ request[r].parent = e

CanUpdateLock(r, e) ==
  \A q \in Requests \ {r} : ~HoldsForUpdate(q, e) /\ ~HoldsKeyShare(q, e)
CanKeyShare(r, e) == \A q \in Requests \ {r} : ~HoldsForUpdate(q, e)

\* Mutants: the child is not locked; the links have no foreign keys.
NoLock(r, e) == TRUE
NoForeignKey(r, e) == TRUE

LockFree(r, e) == CanUpdateLock(r, e)
ForeignKeyFree(r, e) == CanKeyShare(r, e)

-----------------------------------------------------------------------------
Begin(r) ==
  /\ request[r] = Idle
  /\ \E l \in Pairs, percent \in 0..Whole :
       request' = [request EXCEPT ![r] =
         [stage |-> "begun", parent |-> l[1], child |-> l[2], percent |-> percent,
          todo |-> {}, seen |-> {}]]
  /\ UNCHANGED <<links, owned>>

\* lock_entity_for_update of the child.
Lock(r) ==
  /\ request[r].stage = "begun"
  /\ LockFree(r, request[r].child)
  /\ request' = [request EXCEPT ![r].stage = "locked"]
  /\ UNCHANGED <<links, owned>>

\* A sum beyond the whole is refused; otherwise the walk starts at the child.
CheckSum(r) ==
  /\ request[r].stage = "locked"
  /\ request' = [request EXCEPT ![r] =
       IF owned[request[r].child] + request[r].percent > Whole THEN Idle
       ELSE [@ EXCEPT !.stage = "summed", !.todo = {request[r].child}]]
  /\ UNCHANGED <<links, owned>>

\* One turn of the loop: the parent is reached, or the children are pushed.
Visited(r, e) ==
  [request[r] EXCEPT !.seen = @ \cup {e},
                     !.todo = (@ \cup Children(e)) \ (request[r].seen \cup {e})]

Walk(r) ==
  /\ request[r].stage = "summed"
  /\ \E e \in request[r].todo :
       request' = [request EXCEPT ![r] = IF e = request[r].parent THEN Idle ELSE Visited(r, e)]
  /\ UNCHANGED <<links, owned>>

Insert(r) ==
  /\ request[r].stage = "summed"
  /\ request[r].todo = {}
  /\ ForeignKeyFree(r, request[r].parent)
  /\ request' = [request EXCEPT ![r].stage = "inserted"]
  /\ UNCHANGED <<links, owned>>

Commit(r) ==
  /\ request[r].stage = "inserted"
  /\ links' = links \cup {<<request[r].parent, request[r].child>>}
  /\ owned' = [owned EXCEPT ![request[r].child] = @ + request[r].percent]
  /\ request' = [request EXCEPT ![r] = Idle]

\* The request fails and is rolled back, as the victim of a deadlock too.
Abort(r) ==
  /\ request[r] # Idle
  /\ request' = [request EXCEPT ![r] = Idle]
  /\ UNCHANGED <<links, owned>>

Next == \E r \in Requests :
  Begin(r) \/ Lock(r) \/ CheckSum(r) \/ Walk(r) \/ Insert(r) \/ Commit(r) \/ Abort(r)

Spec == Init /\ [][Next]_vars

-----------------------------------------------------------------------------
\* Nobody is owned beyond 100 %, whichever creations overlap: the sum is read
\* and the link inserted under the lock of the child.
Within100 == \A e \in Entities : owned[e] <= Whole

\* No two entities own each other, although no lock is taken for it: the
\* opposite link needs the child as its parent, and its foreign key waits.
NoMutualOwnership == \A l \in links : <<l[2], l[1]>> \notin links

\* An entity is on a cycle when it is among the entities it owns, directly or
\* through others: in every set that holds its children and theirs.
OnCycle(e) ==
  \A S \in SUBSET Entities :
    Children(e) \subseteq S /\ (\A x \in S : Children(x) \subseteq S) => e \in S

\* docs/TZ-CompanyStructure.md:346: the graph of ownership has no cycles.
NoCycle == \A e \in Entities : ~OnCycle(e)
=============================================================================
