--------------------------- MODULE Collection_proofs ---------------------------
(***************************************************************************)
(* Theorems about Collection, for any number of entities, assignments,     *)
(* forms, requests, versions, points, notices and days.                    *)
(*                                                                         *)
(* The seven modules share no state: an invariant of each is shown to be   *)
(* inductive under its own steps, and a step of one leaves the others      *)
(* alone.  That of EffectiveOwnership is in EffectiveOwnership_proofs.     *)
(***************************************************************************)
EXTENDS Collection, FiniteSetTheorems, TLAPS

\* The instances take Cardinality from FiniteSets, each under a name of its own.
LEMMA CardinalityOfSetup == \A S : Setup!Cardinality(S) = Cardinality(S)
BY DEF Setup!Cardinality, Cardinality

LEMMA AtMostOne ==
  ASSUME NEW S, \A s, t \in S : s = t
  PROVE  Cardinality(S) <= 1
<1>1. CASE S = {}
  BY <1>1, FS_EmptySet
<1>2. CASE S # {}
  <2>1. PICK s : S = {s}
    BY <1>2
  <2>2. Cardinality(S) = 1
    BY <2>1, FS_Singleton
  <2> QED
    BY <2>2
<1> QED
  BY <1>1, <1>2

-----------------------------------------------------------------------------
(***************************************************************************)
(* OwnershipGraph.  The lock of the child is held by one request, and      *)
(* nobody links from the child meanwhile (Exclusive); so the sum that was  *)
(* checked still fits, and what the walk knows of the links of the child   *)
(* stays true (Checked).                                                   *)
(***************************************************************************)
Exclusive ==
  \A r, q \in Requests : \A e \in Entities :
    /\ HoldsForUpdate(r, e) /\ HoldsForUpdate(q, e) => r = q
    /\ HoldsForUpdate(r, e) => ~HoldsKeyShare(q, e)

\* The walk has passed the child, or will; the parent is on no list of visited
\* entities, and waits to be visited if the child was found to own it.
Walking(r) ==
  LET c == request[r].child
      p == request[r].parent
  IN /\ owned[c] + request[r].percent <= Whole
     /\ p \notin request[r].seen
     /\ c \in request[r].todo \cup request[r].seen
     /\ c \in request[r].seen /\ <<c, p>> \in links => p \in request[r].todo

Checked ==
  /\ \A r \in Requests : request[r].stage \in {"begun", "locked"} => request[r].seen = {}
  /\ \A r \in Requests : request[r].stage \in {"summed", "inserted"} => Walking(r)
  /\ \A r \in Requests : request[r].stage = "inserted" => request[r].todo = {}

Inv == TypeOK /\ Exclusive /\ Checked /\ Within100 /\ NoMutualOwnership

LEMMA InvInit ==
  ASSUME Whole \in Nat, Init
  PROVE  Inv
<1>1. TypeOK
  <2>1. links \subseteq Pairs
    BY DEF Init
  <2>2. owned \in [Entities -> Nat]
    BY DEF Init
  <2> QED
    BY <2>1, <2>2 DEF Init, TypeOK, Idle
<1>2. Exclusive /\ Checked
  BY DEF Init, Idle, Exclusive, Checked, HoldsForUpdate, HoldsKeyShare
<1>3. Within100
  <2>1. owned \in [Entities -> 0..Whole]
    BY DEF Init
  <2> QED
    BY <2>1 DEF Within100
<1>4. NoMutualOwnership
  <2> SUFFICES ASSUME NEW l \in links, <<l[2], l[1]>> \in links PROVE FALSE
    BY DEF NoMutualOwnership
  <2>1. l[1] = Root /\ l[1] # l[2]
    BY DEF Init, Pairs
  <2>2. <<l[2], l[1]>>[1] = Root
    BY DEF Init
  <2> QED
    BY <2>1, <2>2
<1> QED
  BY <1>1, <1>2, <1>3, <1>4 DEF Inv

-----------------------------------------------------------------------------
(* Steps that change one request and no table.                             *)

LEMMA TablesKept ==
  ASSUME Inv, UNCHANGED <<links, owned>>
  PROVE  Within100' /\ NoMutualOwnership'
BY DEF Inv, Within100, NoMutualOwnership

LEMMA BeginKeeps ==
  ASSUME Whole \in Nat, Inv, NEW r \in Requests, Begin(r)
  PROVE  Inv'
<1>1. PICK l \in Pairs, percent \in 0..Whole :
        request' = [request EXCEPT ![r] =
          [stage |-> "begun", parent |-> l[1], child |-> l[2], percent |-> percent,
           todo |-> {}, seen |-> {}]]
  BY DEF Begin
<1>2. l[1] \in Entities /\ l[2] \in Entities /\ l[1] # l[2]
  BY DEF Pairs
<1>3. TypeOK'
  BY <1>1, <1>2 DEF Inv, TypeOK, InFlight, Idle, Begin
<1>4. Exclusive'
  BY <1>1 DEF Inv, Exclusive, HoldsForUpdate, HoldsKeyShare, TypeOK
<1>5. Checked'
  BY <1>1 DEF Inv, Checked, Walking, TypeOK, Begin
<1> QED
  BY <1>3, <1>4, <1>5, TablesKept DEF Inv, Begin

LEMMA LockKeeps ==
  ASSUME Whole \in Nat, Inv, NEW r \in Requests, Lock(r)
  PROVE  Inv'
<1>1. request[r] \in InFlight /\ request[r].stage = "begun"
  BY DEF Inv, TypeOK, Lock, Idle
<1>2. request' = [request EXCEPT ![r].stage = "locked"]
  BY DEF Lock
<1>3. TypeOK'
  BY <1>1, <1>2 DEF Inv, TypeOK, InFlight, Idle, Lock
<1>4. Exclusive'
  BY <1>1, <1>2 DEF Inv, Exclusive, HoldsForUpdate, HoldsKeyShare, TypeOK, InFlight, Lock,
    LockFree, CanUpdateLock
<1>5. Checked'
  BY <1>1, <1>2 DEF Inv, Checked, Walking, TypeOK, InFlight, Lock
<1> QED
  BY <1>3, <1>4, <1>5, TablesKept DEF Inv, Lock

LEMMA AbortKeeps ==
  ASSUME Inv, NEW r \in Requests, request' = [request EXCEPT ![r] = Idle],
         UNCHANGED <<links, owned>>
  PROVE  Inv'
<1>1. TypeOK'
  BY DEF Inv, TypeOK, Idle
<1>2. Exclusive'
  BY DEF Inv, Exclusive, HoldsForUpdate, HoldsKeyShare, TypeOK, Idle
<1>3. Checked'
  BY DEF Inv, Checked, Walking, TypeOK, Idle
<1> QED
  BY <1>1, <1>2, <1>3, TablesKept DEF Inv

LEMMA CheckSumKeeps ==
  ASSUME Whole \in Nat, Inv, NEW r \in Requests, CheckSum(r)
  PROVE  Inv'
<1>1. request[r] \in InFlight /\ request[r].stage = "locked"
  BY DEF Inv, TypeOK, CheckSum, Idle
<1>2. CASE owned[request[r].child] + request[r].percent > Whole
  BY <1>2, AbortKeeps DEF CheckSum
<1>3. CASE ~(owned[request[r].child] + request[r].percent > Whole)
  <2> DEFINE c == request[r].child
             new == [request[r] EXCEPT !.stage = "summed", !.todo = {c}]
  <2>1. request' = [request EXCEPT ![r] = new]
    BY <1>3 DEF CheckSum, Inv, TypeOK
  <2>2. new \in InFlight /\ new.stage = "summed" /\ new.todo = {c}
        /\ new.seen = request[r].seen /\ new.child = c /\ new.parent = request[r].parent
        /\ new.percent = request[r].percent
    BY <1>1 DEF InFlight
  <2>3. owned[c] + request[r].percent <= Whole
    BY <1>1, <1>3 DEF Inv, TypeOK, InFlight
  <2> HIDE DEF new
  <2>4. TypeOK'
    BY <2>1, <2>2 DEF Inv, TypeOK, CheckSum, Idle
  <2>5. Exclusive'
    BY <1>1, <2>1, <2>2 DEF Inv, Exclusive, HoldsForUpdate, HoldsKeyShare, TypeOK
  <2>6. c \notin request[r].seen /\ request[r].parent \notin request[r].seen
    BY <1>1 DEF Inv, Checked
  <2>7. UNCHANGED <<links, owned>>
    BY DEF CheckSum
  <2>8. Walking(r)'
    BY <2>1, <2>2, <2>3, <2>6, <2>7 DEF Walking, Inv, TypeOK
  <2>9. \A q \in Requests \ {r} : request'[q] = request[q] /\ (Walking(q)' <=> Walking(q))
    BY <2>1, <2>7 DEF Walking, Inv, TypeOK
  <2>10. request'[r] = new
    BY <2>1 DEF Inv, TypeOK
  <2>11. Checked'
    BY <2>2, <2>8, <2>9, <2>10 DEF Checked, Inv
  <2> QED
    BY <2>4, <2>5, <2>7, <2>11, TablesKept DEF Inv
<1> QED
  BY <1>2, <1>3

LEMMA WalkKeeps ==
  ASSUME Whole \in Nat, Inv, NEW r \in Requests, Walk(r)
  PROVE  Inv'
<1>1. request[r] \in InFlight /\ request[r].stage = "summed"
  BY DEF Inv, TypeOK, Walk, Idle
<1>2. UNCHANGED <<links, owned>>
  BY DEF Walk
<1>3. PICK e \in request[r].todo :
        request' = [request EXCEPT ![r] = IF e = request[r].parent THEN Idle ELSE Visited(r, e)]
  BY DEF Walk
<1>4. CASE e = request[r].parent
  <2>1. request' = [request EXCEPT ![r] = Idle]
    BY <1>3, <1>4
  <2> QED
    BY <1>2, <2>1, AbortKeeps
<1>5. CASE e # request[r].parent
  <2> DEFINE seen == request[r].seen \cup {e}
             todo == (request[r].todo \cup Children(e)) \ seen
             new == Visited(r, e)
  <2>1. request' = [request EXCEPT ![r] = new]
    BY <1>3, <1>5
  <2>2. seen \subseteq Entities /\ todo \subseteq Entities
    BY <1>1 DEF InFlight, Children
  <2>3. new \in InFlight /\ new.stage = "summed" /\ new.todo = todo /\ new.seen = seen
        /\ new.child = request[r].child /\ new.parent = request[r].parent
        /\ new.percent = request[r].percent
    BY <1>1, <2>2 DEF InFlight, Visited
  <2>4. /\ request[r].parent \notin seen
        /\ request[r].child \in todo \cup seen
        /\ request[r].child \in seen /\ <<request[r].child, request[r].parent>> \in links
           => request[r].parent \in todo
    BY <1>1, <1>5 DEF Inv, Checked, Walking, Children, InFlight
  <2> HIDE DEF new, seen, todo
  <2>5. TypeOK'
    <3>1. new.parent # new.child
      BY <1>1, <2>3 DEF Inv, TypeOK
    <3> QED
      BY <1>2, <2>1, <2>3, <3>1 DEF Inv, TypeOK, Idle
  <2>6. Exclusive'
    BY <1>1, <2>1, <2>3 DEF Inv, Exclusive, HoldsForUpdate, HoldsKeyShare, TypeOK
  <2>7. Walking(r)'
    BY <1>1, <1>2, <2>1, <2>3, <2>4 DEF Walking, Inv, Checked, TypeOK
  <2>8. \A q \in Requests \ {r} : request'[q] = request[q] /\ (Walking(q)' <=> Walking(q))
    BY <1>2, <2>1 DEF Walking, Inv, TypeOK
  <2>9. request'[r] = new
    BY <2>1 DEF Inv, TypeOK
  <2>10. Checked'
    BY <2>3, <2>7, <2>8, <2>9 DEF Checked, Inv
  <2> QED
    BY <1>2, <2>5, <2>6, <2>10, TablesKept DEF Inv
<1> QED
  BY <1>4, <1>5

LEMMA InsertKeeps ==
  ASSUME Whole \in Nat, Inv, NEW r \in Requests, Insert(r)
  PROVE  Inv'
<1>1. request[r] \in InFlight /\ request[r].stage = "summed" /\ request[r].todo = {}
  BY DEF Inv, TypeOK, Insert, Idle
<1>2. request' = [request EXCEPT ![r].stage = "inserted"] /\ UNCHANGED <<links, owned>>
  BY DEF Insert
<1>3. TypeOK'
  BY <1>1, <1>2 DEF Inv, TypeOK, InFlight, Idle
<1>4. request[r].parent # request[r].child
  BY <1>1 DEF Inv, TypeOK
<1>5. \A q \in Requests \ {r} : ~HoldsForUpdate(q, request[r].parent)
  BY DEF Insert, ForeignKeyFree, CanKeyShare
<1>6. Exclusive'
  BY <1>1, <1>2, <1>4, <1>5 DEF Inv, Exclusive, HoldsForUpdate, HoldsKeyShare, TypeOK, InFlight
<1>7. \A q \in Requests : Walking(q)' <=> Walking(q)
  BY <1>1, <1>2 DEF Walking, Inv, TypeOK, InFlight
<1>8. Checked'
  BY <1>1, <1>2, <1>7 DEF Checked, Inv, TypeOK, InFlight
<1> QED
  BY <1>2, <1>3, <1>6, <1>8, TablesKept DEF Inv

-----------------------------------------------------------------------------
\* The link that is committed was checked, and what was checked still holds.
LEMMA CommitKeeps ==
  ASSUME Whole \in Nat, Inv, NEW r \in Requests, Commit(r)
  PROVE  Inv'
<1> DEFINE p == request[r].parent
           c == request[r].child
<1>1. /\ request[r] \in InFlight /\ request[r].stage = "inserted" /\ request[r].todo = {}
      /\ p \in Entities /\ c \in Entities /\ p # c /\ request[r].percent \in Nat
  BY DEF Inv, TypeOK, Commit, Idle, Checked, InFlight
<1>2. /\ links' = links \cup {<<p, c>>}
      /\ owned' = [owned EXCEPT ![c] = @ + request[r].percent]
      /\ request' = [request EXCEPT ![r] = Idle]
  BY DEF Commit
<1>3. owned[c] + request[r].percent <= Whole /\ <<c, p>> \notin links
  BY <1>1 DEF Inv, Checked, Walking
<1>4. HoldsForUpdate(r, c) /\ HoldsKeyShare(r, p)
  BY <1>1 DEF HoldsForUpdate, HoldsKeyShare
<1>5. TypeOK'
  <2>1. <<p, c>> \in Pairs
    BY <1>1 DEF Pairs
  <2>2. owned[c] + request[r].percent \in Nat
    BY <1>1 DEF Inv, TypeOK
  <2> QED
    BY <1>2, <2>1, <2>2 DEF Inv, TypeOK, Idle
<1>6. Exclusive'
  BY <1>2 DEF Inv, Exclusive, HoldsForUpdate, HoldsKeyShare, TypeOK, Idle
<1>7. Checked'
  <2>1. ASSUME NEW q \in Requests \ {r}, request[q].stage \in {"summed", "inserted"}
        PROVE  Walking(q)'
    <3>1. request'[q] = request[q] /\ request[q] \in InFlight
      BY <1>2, <2>1 DEF Inv, TypeOK, Idle
    <3>2. HoldsForUpdate(q, request[q].child) /\ request[q].child \in Entities
      BY <2>1, <3>1 DEF HoldsForUpdate, InFlight
    <3>3. request[q].child # c /\ request[q].child # p
      BY <1>1, <1>4, <3>2 DEF Inv, Exclusive
    <3>4. owned'[request[q].child] = owned[request[q].child]
      BY <1>2, <3>2, <3>3 DEF Inv, TypeOK
    <3>5. <<request[q].child, request[q].parent>> \in links'
          <=> <<request[q].child, request[q].parent>> \in links
      BY <1>2, <3>3
    <3> QED
      BY <2>1, <3>1, <3>4, <3>5 DEF Walking, Inv, Checked
  <2> QED
    BY <1>2, <2>1 DEF Checked, Inv, TypeOK, Idle
<1>8. Within100'
  BY <1>1, <1>2, <1>3 DEF Inv, TypeOK, Within100
<1>9. NoMutualOwnership'
  <2> SUFFICES ASSUME NEW l \in links', <<l[2], l[1]>> \in links' PROVE FALSE
    BY DEF NoMutualOwnership
  <2>1. CASE l \in links /\ <<l[2], l[1]>> \in links
    BY <2>1 DEF Inv, NoMutualOwnership
  <2>2. CASE l = <<p, c>>
    <3>1. <<l[2], l[1]>> = <<c, p>>
      BY <2>2
    <3> QED
      BY <3>1, <1>1, <1>2, <1>3
  <2>3. CASE <<l[2], l[1]>> = <<p, c>> /\ l \in links
    <3>1. l = <<l[1], l[2]>>
      BY <2>3 DEF Inv, TypeOK, Pairs
    <3>2. l = <<c, p>>
      BY <2>3, <3>1
    <3> QED
      BY <2>3, <3>2, <1>3
  <2> QED
    BY <1>2, <2>1, <2>2, <2>3
<1> QED
  BY <1>5, <1>6, <1>7, <1>8, <1>9 DEF Inv

-----------------------------------------------------------------------------
LEMMA InvNext ==
  ASSUME Whole \in Nat
  PROVE  Inv /\ [Next]_vars => Inv'
<1> SUFFICES ASSUME Inv, [Next]_vars PROVE Inv'
  OBVIOUS
<1>1. CASE UNCHANGED vars
  <2>1. TypeOK' /\ Within100' /\ NoMutualOwnership'
    BY <1>1 DEF vars, Inv, TypeOK, Within100, NoMutualOwnership
  <2>2. Exclusive' /\ Checked'
    BY <1>1 DEF vars, Inv, Exclusive, Checked, Walking, HoldsForUpdate, HoldsKeyShare
  <2> QED
    BY <2>1, <2>2 DEF Inv
<1>2. ASSUME NEW r \in Requests,
             Begin(r) \/ Lock(r) \/ CheckSum(r) \/ Walk(r) \/ Insert(r) \/ Commit(r) \/ Abort(r)
      PROVE  Inv'
  <2>1. CASE Begin(r)
    BY <2>1, BeginKeeps
  <2>2. CASE Lock(r)
    BY <2>2, LockKeeps
  <2>3. CASE CheckSum(r)
    BY <2>3, CheckSumKeeps
  <2>4. CASE Walk(r)
    BY <2>4, WalkKeeps
  <2>5. CASE Insert(r)
    BY <2>5, InsertKeeps
  <2>6. CASE Commit(r)
    BY <2>6, CommitKeeps
  <2>7. CASE Abort(r)
    BY <2>7, AbortKeeps DEF Abort
  <2> QED
    BY <1>2, <2>1, <2>2, <2>3, <2>4, <2>5, <2>6, <2>7
<1> QED
  BY <1>1, <1>2 DEF Next

-----------------------------------------------------------------------------
(***************************************************************************)
(* EffectiveOwnership.  Its invariant is in EffectiveOwnership_proofs; an  *)
(* instance of that module says of the definitions it extends what the     *)
(* composition says of its own instance.                                   *)
(***************************************************************************)
Proved == INSTANCE EffectiveOwnership_proofs WITH Whole <- Units

LEMMA SameConstants == Chains!ConstantsOK => Proved!ConstantsOK
BY DEF Chains!ConstantsOK, Proved!ConstantsOK, Chains!IsFiniteSet, Proved!IsFiniteSet

LEMMA SameTypes == Proved!TypeOK => Chains!TypeOK
BY DEF Chains!TypeOK, Proved!TypeOK, Chains!Pairs, Proved!Pairs, Chains!NoLink, Proved!NoLink

LEMMA SameInit == Chains!Init => Proved!Init
BY DEF Chains!Init, Proved!Init, Chains!Pairs, Proved!Pairs, Chains!NoLink, Proved!NoLink

LEMMA SameNext == Chains!Next => Proved!Next
BY DEF Chains!Next, Proved!Next, Chains!CreateOwnership, Proved!CreateOwnership,
       Chains!OwnedOf, Proved!OwnedOf, Chains!Owns, Proved!Owns, Chains!Within, Proved!Within,
       Chains!HeldBy, Proved!HeldBy, Chains!Percent, Proved!Percent, Chains!Linked, Proved!Linked,
       Chains!Pairs, Proved!Pairs, Chains!NoLink, Proved!NoLink,
       Chains!SumFunction, Proved!SumFunction,
       Chains!SumFunctionOnSet, Proved!SumFunctionOnSet,
       Chains!FoldFunctionOnSet, Proved!FoldFunctionOnSet,
       Chains!MapThenFoldSet, Proved!MapThenFoldSet, Chains!Cardinality, Proved!Cardinality

LEMMA SameFollows == Proved!EffectiveFollowsChains => Chains!EffectiveFollowsChains
BY DEF Chains!EffectiveFollowsChains, Proved!EffectiveFollowsChains,
       Chains!Effective, Proved!Effective, Chains!Found, Proved!Found,
       Chains!Roots, Proved!Roots, Chains!AllParents, Proved!AllParents,
       Chains!AllChildren, Proved!AllChildren, Chains!Chains, Proved!Chains,
       Chains!Reached, Proved!Reached, Chains!RootsOnly, Proved!RootsOnly,
       Chains!Power, Proved!Power, Chains!Depth, Proved!Depth, Chains!HeldBy, Proved!HeldBy,
       Chains!OwnedOf, Proved!OwnedOf, Chains!Percent, Proved!Percent,
       Chains!Linked, Proved!Linked, Chains!Pairs, Proved!Pairs, Chains!NoLink, Proved!NoLink,
       Chains!SumFunction, Proved!SumFunction,
       Chains!SumFunctionOnSet, Proved!SumFunctionOnSet,
       Chains!FoldFunctionOnSet, Proved!FoldFunctionOnSet,
       Chains!MapThenFoldSet, Proved!MapThenFoldSet, Chains!Cardinality, Proved!Cardinality

LEMMA ChainsInit ==
  ASSUME Chains!ConstantsOK
  PROVE  Chains!Init => Proved!ChainsInv
BY SameConstants, SameInit, Proved!ChainsInit

LEMMA ChainsNext ==
  ASSUME Chains!ConstantsOK
  PROVE  Proved!ChainsInv /\ [Chains!Next]_(Chains!vars) => Proved!ChainsInv'
<1>1. [Chains!Next]_(Chains!vars) => [Proved!Next]_(Proved!vars)
  BY SameNext DEF Chains!vars, Proved!vars
<1> QED
  BY <1>1, SameConstants, Proved!ChainsNext

LEMMA ChainsFollow ==
  ASSUME Chains!ConstantsOK, Proved!ChainsInv
  PROVE  Chains!TypeOK /\ Chains!EffectiveFollowsChains
<1>1. Proved!EffectiveFollowsChains
  BY SameConstants, Proved!ChainsFollow
<1>2. Proved!TypeOK
  BY DEF Proved!ChainsInv
<1> QED
  BY <1>1, <1>2, SameTypes, SameFollows

-----------------------------------------------------------------------------
(***************************************************************************)
(* CollectionSetup.  A row of a form that was generated names an assignment*)
(* of its metric and place, or is all the form has for a metric that had no*)
(* assignment then (Drawn); assignments are only added (RowsStay), so this *)
(* outlives whatever happens to them.                                      *)
(***************************************************************************)
Drawn(fields) ==
  \A fl \in fields :
    /\ fl \in Setup!Fields /\ Occurrences[fl.metric] > 0
    /\ \/ /\ fl.assignment \in Setup!Used(assigned)
          /\ assigned[fl.assignment].metric = fl.metric
          /\ assigned[fl.assignment].place = fl.place
       \/ /\ fl.assignment = Setup!None /\ fl.place = Setup!Everywhere
          /\ Occurrences[fl.metric] > 1
          /\ \A other \in fields : other.metric = fl.metric => other = fl

FormsAreRows == form \in [Setup!FormIds -> Setup!Forms \cup {Setup!Unused}]

GeneratedAreDrawn ==
  \A f \in Setup!Used(form) : form[f].generated => form[f].readable /\ Drawn(form[f].fields)

ActiveUnique ==
  \A f, g \in Setup!Used(form) :
    form[f].status = "active" /\ form[g].status = "active" /\ form[f].scope = form[g].scope
    => f = g

SetupInv ==
  /\ Setup!TypeOK /\ FormsAreRows
  /\ Setup!ItemsMeetAssignments /\ GeneratedAreDrawn /\ ActiveUnique

LEMMA SetupInit == ASSUME Setup!ConstantsOK PROVE Setup!Init => SetupInv
<1> SUFFICES ASSUME Setup!Init PROVE SetupInv
  OBVIOUS
<1>1. /\ Setup!Used(assigned) = {} /\ Setup!Used(item) = {} /\ Setup!Used(form) = {}
  BY DEF Setup!Init, Setup!Used
<1>2. Setup!TypeOK /\ FormsAreRows
  <2>1. /\ assigned \in [Setup!AssignmentIds -> Setup!Assignments \cup {Setup!Unused}]
        /\ item \in [Setup!ItemIds -> Setup!DatasheetItems \cup {Setup!Unused}]
        /\ form \in [Setup!FormIds -> Setup!Forms \cup {Setup!Unused}]
        /\ \A f \in Setup!FormIds : form[f] = Setup!Unused
    BY DEF Setup!Init
  <2>2. metrics \subseteq Metrics /\ scope \subseteq Sites \cup Facilities \cup {Nowhere}
    BY DEF Setup!Init
  <2> QED
    BY <2>1, <2>2 DEF Setup!TypeOK, FormsAreRows
<1> QED
  BY <1>1, <1>2 DEF SetupInv, Setup!ItemsMeetAssignments, GeneratedAreDrawn, ActiveUnique

\* What a field of one of the tables is when it is not in use.
LEMMA UnusedRows ==
  /\ Setup!Unused \notin Setup!Assignments /\ Setup!Unused \notin Setup!DatasheetItems
  /\ Setup!Unused \notin Setup!Forms
BY DEF Setup!Unused, Setup!Assignments, Setup!DatasheetItems, Setup!Forms

-----------------------------------------------------------------------------
(* Assignments and items.                                                  *)

\* create_assignment, and what resolves to a new assignment: it takes a free id, no
\* assignment of the metric is at the place, and all others stay as they are.
LEMMA AssignedAdds ==
  ASSUME SetupInv, NEW m \in Metrics, NEW place \in Setup!Places,
         NEW a \in Setup!AssignmentIds, Setup!At(m, place) = {}, Setup!Assigned(a, m, place)
  PROVE  /\ assigned' \in [Setup!AssignmentIds -> Setup!Assignments \cup {Setup!Unused}]
         /\ Setup!Used(assigned)' = Setup!Used(assigned) \cup {a}
         /\ a \notin Setup!Used(assigned)
         /\ \A b \in Setup!Used(assigned) : assigned'[b] = assigned[b]
         /\ assigned'[a].metric = m /\ assigned'[a].place = place
<1> DEFINE row == [status |-> "assigned", metric |-> m, place |-> place]
<1>1. /\ row \in Setup!Assignments /\ row # Setup!Unused
      /\ row.metric = m /\ row.place = place
  BY UnusedRows DEF Setup!Assignments
<1>2. assigned' = [assigned EXCEPT ![a] = row] /\ assigned[a] = Setup!Unused
  BY DEF Setup!Assigned, Setup!NextId
<1>3. assigned \in [Setup!AssignmentIds -> Setup!Assignments \cup {Setup!Unused}]
  BY DEF SetupInv, Setup!TypeOK
<1> HIDE DEF row
<1> QED
  BY <1>1, <1>2, <1>3 DEF Setup!Used

\* Assignments stay: with the old ones as they are, what was drawn stays drawn.
RowsStay ==
  /\ Setup!Used(assigned) \subseteq Setup!Used(assigned)'
  /\ \A b \in Setup!Used(assigned) : assigned'[b] = assigned[b]

LEMMA DrawnStays ==
  ASSUME RowsStay, NEW fields, Drawn(fields)
  PROVE  Drawn(fields)'
BY DEF RowsStay, Drawn

LEMMA FormsKept ==
  ASSUME SetupInv, RowsStay, UNCHANGED form
  PROVE  FormsAreRows' /\ GeneratedAreDrawn' /\ ActiveUnique'
<1>1. Setup!Used(form)' = Setup!Used(form)
  BY DEF Setup!Used
<1>2. FormsAreRows' /\ ActiveUnique'
  BY <1>1 DEF SetupInv, FormsAreRows, ActiveUnique
<1>3. GeneratedAreDrawn'
  <2> SUFFICES ASSUME NEW f \in Setup!Used(form), form[f].generated
      PROVE  form[f].readable /\ Drawn(form[f].fields)'
    BY <1>1 DEF GeneratedAreDrawn
  <2> QED
    BY DrawnStays DEF SetupInv, GeneratedAreDrawn
<1> QED
  BY <1>2, <1>3

\* _resolve_assignment_for_item: the assignment of the metric and the place, old or new.
LEMMA ResolveFinds ==
  ASSUME SetupInv, NEW m \in Metrics, NEW place \in Setup!Places,
         NEW a \in Setup!AssignmentIds,
         Setup!Existing(a, m, place)
         \/ (Setup!At(m, place) = {} /\ Setup!Assigned(a, m, place))
  PROVE  /\ RowsStay /\ a \in Setup!At(m, place)'
         /\ assigned' \in [Setup!AssignmentIds -> Setup!Assignments \cup {Setup!Unused}]
         /\ \A b, c \in Setup!Used(assigned)' :
              assigned'[b].metric = assigned'[c].metric
              /\ assigned'[b].place = assigned'[c].place => b = c
<1>1. CASE Setup!Existing(a, m, place)
  BY <1>1 DEF Setup!Existing, Setup!At, Setup!Used, SetupInv, Setup!TypeOK, RowsStay,
     Setup!ItemsMeetAssignments
<1>2. CASE Setup!At(m, place) = {} /\ Setup!Assigned(a, m, place)
  <2>1. /\ assigned' \in [Setup!AssignmentIds -> Setup!Assignments \cup {Setup!Unused}]
        /\ Setup!Used(assigned)' = Setup!Used(assigned) \cup {a}
        /\ a \notin Setup!Used(assigned)
        /\ \A b \in Setup!Used(assigned) : assigned'[b] = assigned[b]
        /\ assigned'[a].metric = m /\ assigned'[a].place = place
    BY <1>2, AssignedAdds
  <2>2. \A b \in Setup!Used(assigned) :
          ~(assigned[b].metric = m /\ assigned[b].place = place)
    BY <1>2 DEF Setup!At
  <2>3. \A b, c \in Setup!Used(assigned) :
          assigned[b].metric = assigned[c].metric /\ assigned[b].place = assigned[c].place
          => b = c
    BY DEF SetupInv, Setup!ItemsMeetAssignments
  <2>4. a \in Setup!At(m, place)'
    BY <2>1 DEF Setup!At
  <2> QED
    BY <2>1, <2>2, <2>3, <2>4 DEF RowsStay
<1> QED
  BY <1>1, <1>2

\* An item is written with the assignment its place resolves to; the others keep theirs.
LEMMA ItemsKept ==
  ASSUME SetupInv, NEW m \in Metrics, NEW place \in Setup!Places,
         NEW a \in Setup!AssignmentIds, NEW i \in Setup!ItemIds,
         NEW status \in {"active", "archived"},
         Setup!Resolve(a, m, place), Setup!Write(i, status, m, place, a),
         UNCHANGED <<scope, form>>, metrics' \subseteq Metrics
  PROVE  SetupInv'
<1>1. /\ RowsStay /\ a \in Setup!At(m, place)'
      /\ assigned' \in [Setup!AssignmentIds -> Setup!Assignments \cup {Setup!Unused}]
      /\ \A b, c \in Setup!Used(assigned)' :
           assigned'[b].metric = assigned'[c].metric
           /\ assigned'[b].place = assigned'[c].place => b = c
  BY ResolveFinds DEF Setup!Resolve
<1> DEFINE row == [status |-> status, metric |-> m, place |-> place, assignment |-> a]
<1>2. row \in Setup!DatasheetItems /\ row.metric = m /\ row.place = place /\ row.assignment = a
  BY DEF Setup!DatasheetItems
<1>3. item' = [item EXCEPT ![i] = row]
  BY DEF Setup!Write
<1>4. item \in [Setup!ItemIds -> Setup!DatasheetItems \cup {Setup!Unused}]
  BY DEF SetupInv, Setup!TypeOK
<1> HIDE DEF row
<1>5. /\ item' \in [Setup!ItemIds -> Setup!DatasheetItems \cup {Setup!Unused}]
      /\ item'[i] = row /\ \A j \in Setup!ItemIds : j # i => item'[j] = item[j]
  BY <1>2, <1>3, <1>4
<1>6. Setup!ItemsMeetAssignments'
  <2> SUFFICES ASSUME NEW j \in Setup!Used(item)'
               PROVE  (item[j].assignment \in Setup!At(item[j].metric, item[j].place))'
    BY <1>1 DEF Setup!ItemsMeetAssignments
  <2>1. CASE j = i
    BY <1>1, <1>2, <1>5, <2>1
  <2>2. CASE j # i
    <3>1. j \in Setup!Used(item) /\ item'[j] = item[j]
      BY <1>4, <1>5, <2>2 DEF Setup!Used
    <3>2. item[j].assignment \in Setup!At(item[j].metric, item[j].place)
      BY <3>1 DEF SetupInv, Setup!ItemsMeetAssignments
    <3> QED
      BY <1>1, <3>1, <3>2 DEF RowsStay, Setup!At
  <2> QED
    BY <2>1, <2>2
<1>7. Setup!TypeOK'
  BY <1>1, <1>5 DEF SetupInv, Setup!TypeOK
<1> QED
  BY <1>1, <1>6, <1>7, FormsKept DEF SetupInv

\* _create_metric_assignment of ProjectService, without an item.
LEMMA CreateKeeps ==
  ASSUME SetupInv, Setup!CreateAssignment
  PROVE  SetupInv'
<1>1. PICK m \in metrics, place \in Setup!Places, a \in Setup!AssignmentIds :
        Setup!At(m, place) = {} /\ Setup!Assigned(a, m, place)
  BY DEF Setup!CreateAssignment
<1>2. UNCHANGED <<metrics, scope, item, form>>
  BY DEF Setup!CreateAssignment
<1>3. m \in Metrics
  BY DEF SetupInv, Setup!TypeOK
<1>4. /\ RowsStay
      /\ assigned' \in [Setup!AssignmentIds -> Setup!Assignments \cup {Setup!Unused}]
      /\ \A b, c \in Setup!Used(assigned)' :
           assigned'[b].metric = assigned'[c].metric
           /\ assigned'[b].place = assigned'[c].place => b = c
  BY <1>1, <1>3, ResolveFinds
<1>5. Setup!TypeOK'
  BY <1>2, <1>4 DEF SetupInv, Setup!TypeOK
<1>6. Setup!ItemsMeetAssignments'
  <2>1. \A i \in Setup!Used(item) : item[i].assignment \in Setup!At(item[i].metric, item[i].place)
    BY DEF SetupInv, Setup!ItemsMeetAssignments
  <2>2. \A i \in Setup!Used(item) :
          (item[i].assignment \in Setup!At(item[i].metric, item[i].place))'
    BY <1>2, <1>4, <2>1 DEF RowsStay, Setup!At
  <2>3. Setup!Used(item)' = Setup!Used(item)
    BY <1>2 DEF Setup!Used
  <2> QED
    BY <1>4, <2>2, <2>3 DEF Setup!ItemsMeetAssignments
<1> QED
  BY <1>2, <1>4, <1>5, <1>6, FormsKept DEF SetupInv

\* add_item, with a metric of the catalogue or one made for it.
LEMMA AddKeeps ==
  ASSUME Setup!ConstantsOK, SetupInv, NEW m \in Metrics, NEW place \in Setup!Places,
         Setup!Add(m, place), metrics' \subseteq Metrics
  PROVE  SetupInv'
<1>1. PICK i \in Setup!ItemIds, a \in Setup!AssignmentIds :
        Setup!Resolve(a, m, place) /\ Setup!Write(i, "active", m, place, a)
  BY DEF Setup!Add
<1>2. UNCHANGED <<scope, form>>
  BY DEF Setup!Add
<1> QED
  BY <1>1, <1>2, ItemsKept

LEMMA MoveKeeps ==
  ASSUME SetupInv, Setup!MoveItem
  PROVE  SetupInv'
<1>1. PICK i \in Setup!Used(item), place \in Setup!Places, a \in Setup!AssignmentIds :
        /\ Setup!Resolve(a, item[i].metric, place)
        /\ Setup!Write(i, item[i].status, item[i].metric, place, a)
  BY DEF Setup!MoveItem, Setup!Move, Setup!Moved
<1>2. UNCHANGED <<metrics, scope, form>>
  BY DEF Setup!MoveItem
<1>3. i \in Setup!ItemIds /\ item[i] \in Setup!DatasheetItems
  BY DEF Setup!Used, SetupInv, Setup!TypeOK
<1>4. item[i].metric \in Metrics /\ item[i].status \in {"active", "archived"}
  BY <1>3 DEF Setup!DatasheetItems
<1>5. metrics' \subseteq Metrics
  BY <1>2 DEF SetupInv, Setup!TypeOK
<1> QED
  BY <1>1, <1>2, <1>3, <1>4, <1>5, ItemsKept

LEMMA StatusKeeps ==
  ASSUME SetupInv, Setup!SetItemStatus
  PROVE  SetupInv'
<1>1. PICK i \in Setup!Used(item), status \in {"active", "archived"} :
        item' = [item EXCEPT ![i].status = status]
  BY DEF Setup!SetItemStatus
<1>2. UNCHANGED <<metrics, scope, assigned, form>>
  BY DEF Setup!SetItemStatus
<1>3. i \in Setup!ItemIds /\ item[i] \in Setup!DatasheetItems
  BY DEF Setup!Used, SetupInv, Setup!TypeOK
<1> DEFINE row == [item[i] EXCEPT !.status = status]
<1>4. /\ row \in Setup!DatasheetItems /\ row.metric = item[i].metric /\ row.place = item[i].place
      /\ row.assignment = item[i].assignment
  BY <1>3 DEF Setup!DatasheetItems
<1>5. item' = [item EXCEPT ![i] = row]
  BY <1>1
<1>6. item \in [Setup!ItemIds -> Setup!DatasheetItems \cup {Setup!Unused}]
  BY DEF SetupInv, Setup!TypeOK
<1> HIDE DEF row
<1>7. /\ item' \in [Setup!ItemIds -> Setup!DatasheetItems \cup {Setup!Unused}]
      /\ item'[i] = row /\ \A j \in Setup!ItemIds : j # i => item'[j] = item[j]
  BY <1>3, <1>4, <1>5, <1>6
<1>8. Setup!TypeOK'
  BY <1>2, <1>7 DEF SetupInv, Setup!TypeOK
<1>9. Setup!ItemsMeetAssignments'
  <2>1. \A m, place : Setup!At(m, place)' = Setup!At(m, place)
    BY <1>2 DEF Setup!At, Setup!Used
  <2>2. Setup!Used(item)' \subseteq Setup!Used(item)
    BY <1>6, <1>7 DEF Setup!Used
  <2>3. \A j \in Setup!Used(item) :
          /\ item'[j].metric = item[j].metric /\ item'[j].place = item[j].place
          /\ item'[j].assignment = item[j].assignment
    BY <1>4, <1>6, <1>7 DEF Setup!Used
  <2> QED
    BY <1>2, <2>1, <2>2, <2>3 DEF SetupInv, Setup!ItemsMeetAssignments, Setup!Used
<1>10. RowsStay
  BY <1>2 DEF RowsStay, Setup!Used
<1> QED
  BY <1>2, <1>8, <1>9, <1>10, FormsKept DEF SetupInv

LEMMA MembershipsKeep ==
  ASSUME SetupInv, Setup!ReplaceMemberships
  PROVE  SetupInv'
<1>1. UNCHANGED <<metrics, assigned, item, form>> /\ scope' \in SUBSET (Sites \cup Facilities)
  BY DEF Setup!ReplaceMemberships
<1>2. Setup!TypeOK'
  BY <1>1 DEF SetupInv, Setup!TypeOK
<1>3. Setup!ItemsMeetAssignments'
  BY <1>1 DEF SetupInv, Setup!ItemsMeetAssignments, Setup!At, Setup!Used
<1>4. RowsStay
  BY <1>1 DEF RowsStay, Setup!Used
<1> QED
  BY <1>1, <1>2, <1>3, <1>4, FormsKept DEF SetupInv

-----------------------------------------------------------------------------
(* Forms.                                                                  *)

\* _create_generated_config draws every field from an assignment, or from none.
LEMMA GeneratedDrawn ==
  ASSUME SetupInv
  PROVE  Setup!GeneratedFields \subseteq Setup!Fields /\ Drawn(Setup!GeneratedFields)
<1>1. ASSUME NEW m \in Metrics, NEW fl \in Setup!FieldsOf(m)
      PROVE  /\ fl \in Setup!Fields /\ fl.metric = m /\ Occurrences[m] > 0
             /\ \/ /\ fl.assignment \in Setup!Used(assigned)
                   /\ assigned[fl.assignment].metric = m
                   /\ assigned[fl.assignment].place = fl.place
                \/ /\ fl.assignment = Setup!None /\ fl.place = Setup!Everywhere
                   /\ Occurrences[m] > 1 /\ Setup!FieldsOf(m) = {fl}
  <2> DEFINE rows == {a \in Setup!Used(assigned) : assigned[a].metric = m}
  <2>1. Occurrences[m] # 0
    BY <1>1 DEF Setup!FieldsOf
  <2>2. Occurrences[m] \in Nat
    BY ConstantsAssumption DEF ConstantsFit, Setup!ConstantsOK
  <2>3. CASE rows # {}
    <3>1. PICK a \in rows :
            fl = [metric |-> m, place |-> assigned[a].place, assignment |-> a]
      BY <2>1, <2>3 DEF Setup!FieldsOf
    <3>2. a \in Setup!AssignmentIds /\ assigned[a] \in Setup!Assignments
      BY <3>1 DEF SetupInv, Setup!TypeOK, Setup!Used
    <3>3. assigned[a].place \in Setup!Places /\ assigned[a].metric = m
      BY <3>1, <3>2 DEF Setup!Assignments
    <3> QED
      BY <2>1, <2>2, <3>1, <3>2, <3>3 DEF Setup!Fields
  <2>4. CASE rows = {}
    <3> DEFINE none == [metric |-> m, place |-> Setup!Everywhere, assignment |-> Setup!None]
    <3>1. Occurrences[m] > 1 /\ Setup!FieldsOf(m) = {none}
      BY <1>1, <2>1, <2>4 DEF Setup!FieldsOf
    <3>2. fl = none
      BY <1>1, <3>1
    <3>3. Setup!Everywhere \in Setup!Places
      BY DEF Setup!Everywhere, Setup!Places
    <3>4. none \in Setup!Fields /\ none.metric = m
          /\ none.assignment = Setup!None /\ none.place = Setup!Everywhere
      BY <3>3 DEF Setup!Fields
    <3> HIDE DEF none
    <3> QED
      BY <2>1, <2>2, <3>1, <3>2, <3>4
  <2> QED
    BY <2>3, <2>4
<1>2. ASSUME NEW fl \in Setup!GeneratedFields
      PROVE  fl.metric \in Metrics /\ fl \in Setup!FieldsOf(fl.metric)
  <2>1. PICK m \in Metrics : fl \in Setup!FieldsOf(m)
    BY DEF Setup!GeneratedFields
  <2> QED
    BY <1>1, <2>1
<1>3. ASSUME NEW fl \in Setup!GeneratedFields
      PROVE  /\ fl \in Setup!Fields /\ Occurrences[fl.metric] > 0
             /\ \/ /\ fl.assignment \in Setup!Used(assigned)
                   /\ assigned[fl.assignment].metric = fl.metric
                   /\ assigned[fl.assignment].place = fl.place
                \/ /\ fl.assignment = Setup!None /\ fl.place = Setup!Everywhere
                   /\ Occurrences[fl.metric] > 1
                   /\ \A other \in Setup!GeneratedFields :
                        other.metric = fl.metric => other = fl
  <2>1. fl.metric \in Metrics /\ fl \in Setup!FieldsOf(fl.metric)
    BY <1>2
  <2>2. /\ fl \in Setup!Fields /\ Occurrences[fl.metric] > 0
        /\ \/ /\ fl.assignment \in Setup!Used(assigned)
              /\ assigned[fl.assignment].metric = fl.metric
              /\ assigned[fl.assignment].place = fl.place
           \/ /\ fl.assignment = Setup!None /\ fl.place = Setup!Everywhere
              /\ Occurrences[fl.metric] > 1 /\ Setup!FieldsOf(fl.metric) = {fl}
    BY <1>1, <2>1
  <2>3. \A other \in Setup!GeneratedFields : other \in Setup!FieldsOf(other.metric)
    BY <1>2
  <2> QED
    BY <2>2, <2>3
<1> QED
  BY <1>3 DEF Drawn

\* create, update_config, generate_default: the form is written, and when it is active
\* the other forms of its scope are switched off, their fields as they were.
LEMMA SaveWrites ==
  ASSUME FormsAreRows, NEW f \in Setup!FormIds, NEW row \in Setup!Forms,
         form' = Setup!Save(f, row)
  PROVE  /\ FormsAreRows' /\ form'[f] = row
         /\ Setup!Used(form)' = Setup!Used(form) \cup {f}
         /\ \A g \in Setup!Used(form) \ {f} :
              /\ form'[g].readable = form[g].readable
              /\ form'[g].generated = form[g].generated
              /\ form'[g].fields = form[g].fields
              /\ form'[g].scope = form[g].scope
              /\ form'[g].status = "active" =>
                   /\ form[g].status = "active"
                   /\ ~(row.status = "active" /\ form[g].scope = row.scope)
<1> DEFINE off(g) == [form[g] EXCEPT !.status = "inactive"]
           kept(g) == IF form[g] # Setup!Unused /\ g # f /\ form[g].scope = row.scope
                      THEN off(g) ELSE form[g]
<1>1. row # Setup!Unused
  BY UnusedRows
<1>2. ASSUME NEW g \in Setup!FormIds, form[g] # Setup!Unused
      PROVE  /\ form[g] \in Setup!Forms /\ off(g) \in Setup!Forms /\ off(g).status = "inactive"
             /\ off(g) # Setup!Unused
             /\ off(g).readable = form[g].readable /\ off(g).generated = form[g].generated
             /\ off(g).fields = form[g].fields /\ off(g).scope = form[g].scope
  <2>1. form[g] \in Setup!Forms
    BY <1>2 DEF FormsAreRows
  <2>2. off(g) \in Setup!Forms
    BY <2>1 DEF Setup!Forms
  <2> QED
    BY <2>1, <2>2, UnusedRows DEF Setup!Forms
<1>3. \A g \in Setup!FormIds : kept(g) \in Setup!Forms \cup {Setup!Unused}
  BY <1>2 DEF FormsAreRows
<1>4. CASE row.status = "active"
  <2>1. form' = [g \in Setup!FormIds |-> IF g = f THEN row ELSE kept(g)]
    BY <1>4 DEF Setup!Save, Setup!Saved, Setup!Store, Setup!Deactivated
  <2> HIDE DEF kept
  <2>2. FormsAreRows' /\ form'[f] = row /\ \A g \in Setup!FormIds \ {f} : form'[g] = kept(g)
    BY <1>3, <2>1 DEF FormsAreRows
  <2> USE DEF kept
  <2> HIDE DEF off
  <2>3. \A g \in Setup!FormIds \ {f} : form'[g] # Setup!Unused <=> form[g] # Setup!Unused
    BY <1>2, <2>2
  <2>4. Setup!Used(form)' = Setup!Used(form) \cup {f}
    BY <1>1, <2>2, <2>3 DEF Setup!Used, FormsAreRows
  <2> QED
    BY <1>2, <1>4, <2>2, <2>4 DEF Setup!Used, FormsAreRows
<1>5. CASE row.status # "active"
  <2>1. form' = [form EXCEPT ![f] = row]
    BY <1>5 DEF Setup!Save, Setup!Saved
  <2> QED
    BY <1>1, <1>5, <2>1 DEF FormsAreRows, Setup!Used
<1> QED
  BY <1>4, <1>5

\* What is written is drawn from the assignments, or was not generated.
LEMMA SaveKeeps ==
  ASSUME SetupInv, NEW f \in Setup!FormIds, NEW row \in Setup!Forms,
         form' = Setup!Save(f, row), row.generated => row.readable /\ Drawn(row.fields),
         UNCHANGED <<metrics, scope, assigned, item>>
  PROVE  SetupInv'
<1>1. /\ FormsAreRows' /\ form'[f] = row
      /\ Setup!Used(form)' = Setup!Used(form) \cup {f}
      /\ \A g \in Setup!Used(form) \ {f} :
           /\ form'[g].readable = form[g].readable
           /\ form'[g].generated = form[g].generated
           /\ form'[g].fields = form[g].fields
           /\ form'[g].scope = form[g].scope
           /\ form'[g].status = "active" =>
                /\ form[g].status = "active"
                /\ ~(row.status = "active" /\ form[g].scope = row.scope)
  BY SaveWrites DEF SetupInv
<1>2. \A fields : Drawn(fields)' <=> Drawn(fields)
  BY DEF Drawn, Setup!Used
<1>3. GeneratedAreDrawn'
  BY <1>1, <1>2 DEF SetupInv, GeneratedAreDrawn
<1>4. ActiveUnique'
  BY <1>1 DEF SetupInv, ActiveUnique
<1>5. Setup!ItemsMeetAssignments'
  BY DEF SetupInv, Setup!ItemsMeetAssignments, Setup!At, Setup!Used
<1>6. Setup!TypeOK'
  <2>1. \A g \in Setup!FormIds : form'[g] = Setup!Unused \/
          /\ form'[g].status \in {"active", "inactive"}
          /\ form'[g].scope \in Setup!Scopes
          /\ form'[g].fields \subseteq Setup!Fields
    BY <1>1 DEF FormsAreRows, Setup!Forms
  <2> QED
    BY <2>1 DEF SetupInv, Setup!TypeOK
<1> QED
  BY <1>1, <1>3, <1>4, <1>5, <1>6 DEF SetupInv

LEMMA GenerateKeeps ==
  ASSUME SetupInv, Setup!Generate
  PROVE  SetupInv'
<1> DEFINE row == [status |-> "active", scope |-> "project", readable |-> TRUE,
                   generated |-> TRUE, fields |-> Setup!GeneratedFields]
<1>1. PICK f \in Setup!FormIds : form' = Setup!Store(f, row)
  BY DEF Setup!Generate
<1>2. row \in Setup!Forms
  BY GeneratedDrawn DEF Setup!Forms, Setup!Scopes
<1>3. form' = Setup!Save(f, row)
  BY <1>1 DEF Setup!Save, Setup!Saved
<1>4. row.readable /\ Drawn(row.fields)
  BY GeneratedDrawn
<1>5. UNCHANGED <<metrics, scope, assigned, item>>
  BY DEF Setup!Generate
<1> HIDE DEF row
<1> QED
  BY <1>2, <1>3, <1>4, <1>5, SaveKeeps

LEMMA SubmittedFits ==
  ASSUME Setup!ConstantsOK, NEW config \in Setup!Submitted
  PROVE  config.readable \in BOOLEAN /\ config.fields \in SUBSET Setup!Fields
BY DEF Setup!Submitted, Setup!ConstantsOK

LEMMA CreateFormKeeps ==
  ASSUME Setup!ConstantsOK, SetupInv, Setup!CreateForm
  PROVE  SetupInv'
<1>1. PICK f \in Setup!FormIds, config \in Setup!Submitted, at \in Setup!Scopes,
           status \in {"active", "inactive"} :
        form' = Setup!Save(f, [status |-> status, scope |-> at,
                               readable |-> config.readable,
                               generated |-> FALSE, fields |-> config.fields])
  BY DEF Setup!CreateForm
<1> DEFINE row == [status |-> status, scope |-> at, readable |-> config.readable,
                   generated |-> FALSE, fields |-> config.fields]
<1>2. row \in Setup!Forms /\ ~row.generated
  BY SubmittedFits DEF Setup!Forms
<1>3. UNCHANGED <<metrics, scope, assigned, item>>
  BY DEF Setup!CreateForm
<1>4. form' = Setup!Save(f, row)
  BY <1>1
<1> HIDE DEF row
<1> QED
  BY <1>2, <1>3, <1>4, SaveKeeps

LEMMA UpdateKeeps ==
  ASSUME Setup!ConstantsOK, SetupInv, Setup!UpdateForm
  PROVE  SetupInv'
<1>1. PICK f \in Setup!Used(form), status \in {"active", "inactive"} :
        \/ form' = Setup!Save(f, [form[f] EXCEPT !.status = status])
        \/ \E config \in Setup!Submitted :
             form' = Setup!Save(f, [form[f] EXCEPT
               !.status = status, !.generated = FALSE,
               !.readable = config.readable, !.fields = config.fields])
  BY DEF Setup!UpdateForm
<1>2. UNCHANGED <<metrics, scope, assigned, item>>
  BY DEF Setup!UpdateForm
<1>3. f \in Setup!FormIds /\ form[f] \in Setup!Forms
  BY DEF Setup!Used, SetupInv, FormsAreRows
<1>4. CASE form' = Setup!Save(f, [form[f] EXCEPT !.status = status])
  <2> DEFINE row == [form[f] EXCEPT !.status = status]
  <2>1. /\ row \in Setup!Forms /\ row.generated = form[f].generated
        /\ row.readable = form[f].readable /\ row.fields = form[f].fields
    BY <1>3 DEF Setup!Forms
  <2>2. form[f].generated => form[f].readable /\ Drawn(form[f].fields)
    BY DEF SetupInv, GeneratedAreDrawn
  <2>3. form' = Setup!Save(f, row)
    BY <1>4
  <2> HIDE DEF row
  <2> QED
    BY <1>2, <1>3, <2>1, <2>2, <2>3, SaveKeeps
<1>5. ASSUME NEW config \in Setup!Submitted,
             form' = Setup!Save(f, [form[f] EXCEPT
               !.status = status, !.generated = FALSE,
               !.readable = config.readable, !.fields = config.fields])
      PROVE  SetupInv'
  <2> DEFINE row == [form[f] EXCEPT !.status = status, !.generated = FALSE,
                       !.readable = config.readable, !.fields = config.fields]
  <2>1. row \in Setup!Forms /\ ~row.generated
    BY <1>3, SubmittedFits DEF Setup!Forms
  <2>2. form' = Setup!Save(f, row)
    BY <1>5
  <2> HIDE DEF row
  <2> QED
    BY <1>2, <1>3, <2>1, <2>2, SaveKeeps
<1> QED
  BY <1>1, <1>4, <1>5

LEMMA SetupNext ==
  ASSUME Setup!ConstantsOK
  PROVE  SetupInv /\ [Setup!Next]_(Setup!vars) => SetupInv'
<1> SUFFICES ASSUME SetupInv, [Setup!Next]_(Setup!vars) PROVE SetupInv'
  OBVIOUS
<1>1. CASE UNCHANGED Setup!vars
  <2>1. UNCHANGED <<metrics, scope, assigned, item, form>>
    BY <1>1 DEF Setup!vars
  <2>2. RowsStay
    BY <2>1 DEF RowsStay, Setup!Used
  <2>3. Setup!TypeOK' /\ Setup!ItemsMeetAssignments'
    BY <2>1 DEF SetupInv, Setup!TypeOK, Setup!ItemsMeetAssignments, Setup!At, Setup!Used
  <2> QED
    BY <2>1, <2>2, <2>3, FormsKept DEF SetupInv
<1>2. metrics \subseteq Metrics
  BY DEF SetupInv, Setup!TypeOK
<1>3. CASE Setup!AddItem
  <2>1. PICK m \in metrics, place \in Setup!Places : Setup!Add(m, place)
    BY <1>3 DEF Setup!AddItem
  <2>2. UNCHANGED metrics
    BY <1>3 DEF Setup!AddItem
  <2> QED
    BY <1>2, <2>1, <2>2, AddKeeps
<1>4. CASE Setup!AddCustomMetric
  <2>1. PICK m \in TenantMetrics \ metrics, place \in Setup!Places :
          Setup!Add(m, place) /\ metrics' = metrics \cup {m}
    BY <1>4 DEF Setup!AddCustomMetric
  <2>2. m \in Metrics
    BY DEF Setup!ConstantsOK
  <2> QED
    BY <1>2, <2>1, <2>2, AddKeeps
<1> QED
  BY <1>1, <1>3, <1>4, CreateKeeps, MoveKeeps, StatusKeeps, MembershipsKeep, GenerateKeeps,
     CreateFormKeeps, UpdateKeeps
  DEF Setup!Next

-----------------------------------------------------------------------------
(* What the invariant says of the health of a form.                        *)

LEMMA OneForm == ASSUME SetupInv PROVE Setup!OneActiveForm
<1> SUFFICES ASSUME NEW at \in Setup!Scopes PROVE Setup!Cardinality(Setup!Active(at)) <= 1
  BY DEF Setup!OneActiveForm
<1>1. \A f, g \in Setup!Active(at) : f = g
  BY DEF Setup!Active, SetupInv, ActiveUnique
<1>2. Cardinality(Setup!Active(at)) <= 1
  BY <1>1, AtMostOne
<1> QED
  BY <1>2, CardinalityOfSetup

\* _build_health: a drawn field that names no assignment is of no place and means none;
\* one that names an assignment agrees with it.
LEMMA DrawnIssues ==
  ASSUME SetupInv, NEW fields, Drawn(fields), NEW fl \in fields
  PROVE  /\ Setup!FieldIssues(fl) \subseteq {"OUTSIDE_BOUNDARY"}
         /\ fl.assignment # Setup!None => Setup!Meant(fl) = {fl.assignment}
         /\ fl.assignment = Setup!None => Setup!Meant(fl) = {}
         /\ fl \in Setup!RowAware(fields) <=> fl.assignment # Setup!None
<1>1. Setup!None \notin Setup!Used(assigned)
  BY DEF SetupInv, Setup!TypeOK, Setup!Used, Setup!None, Setup!AssignmentIds
<1>2. CASE fl.assignment # Setup!None
  <2>1. /\ fl.assignment \in Setup!Used(assigned)
        /\ assigned[fl.assignment].metric = fl.metric
        /\ assigned[fl.assignment].place = fl.place
    BY <1>2 DEF Drawn
  <2>2. Setup!Meant(fl) = {fl.assignment} /\ fl \in Setup!RowAware(fields)
    BY <1>2, <2>1 DEF Setup!Meant, Setup!RowAware
  <2>3. Setup!FieldIssues(fl) \subseteq {"OUTSIDE_BOUNDARY"}
    BY <1>2, <2>1 DEF Setup!FieldIssues, Setup!Differs
  <2> QED
    BY <1>2, <2>2, <2>3
<1>3. CASE fl.assignment = Setup!None
  <2>1. fl.place = Setup!Everywhere
    BY <1>1, <1>3 DEF Drawn
  <2>2. Setup!Meant(fl) = {} /\ fl \notin Setup!RowAware(fields)
    BY <1>3, <2>1 DEF Setup!Meant, Setup!RowAware
  <2>3. ~(Setup!Cardinality(Setup!Meant(fl)) > 1)
    <3>1. Cardinality({}) = 0
      BY FS_EmptySet
    <3> QED
      BY <2>2, <3>1, CardinalityOfSetup
  <2>4. Setup!FieldIssues(fl) \subseteq {"OUTSIDE_BOUNDARY"}
    BY <1>1, <1>3, <2>1, <2>2, <2>3 DEF Setup!FieldIssues
  <2> QED
    BY <1>3, <2>2, <2>4
<1> QED
  BY <1>2, <1>3

\* For a metric with rows, the fields are those that would be generated now exactly
\* when none of its assignments is left out.
LEMMA DrawnAnew ==
  ASSUME SetupInv, NEW fields, Drawn(fields), NEW m,
         \E fl \in fields : fl.metric = m /\ fl.assignment # Setup!None
  PROVE  {g \in fields : g.metric = m} = Setup!FieldsOf(m)
         <=> \A a \in Setup!Used(assigned) :
               assigned[a].metric = m => \E g \in fields : a \in Setup!Meant(g)
<1> DEFINE rows == {a \in Setup!Used(assigned) : assigned[a].metric = m}
           field(a) == [metric |-> m, place |-> assigned[a].place, assignment |-> a]
           mine == {g \in fields : g.metric = m}
<1>1. PICK fl \in fields : fl.metric = m /\ fl.assignment # Setup!None
  OBVIOUS
<1>2. fl.assignment \in rows
  BY <1>1 DEF Drawn
<1>3. Occurrences[m] > 0
  BY <1>1 DEF Drawn
<1>4. Setup!FieldsOf(m) = {field(a) : a \in rows}
  BY <1>2, <1>3 DEF Setup!FieldsOf
<1>5. ASSUME NEW g \in mine
      PROVE  g.assignment \in rows /\ g = field(g.assignment) /\ Setup!Meant(g) = {g.assignment}
  <2>1. g.assignment # Setup!None
    <3>1. Setup!None \notin Setup!Used(assigned)
      BY DEF SetupInv, Setup!TypeOK, Setup!Used, Setup!None, Setup!AssignmentIds
    <3> QED
      BY <1>1, <3>1 DEF Drawn
  <2>2. /\ g.assignment \in Setup!Used(assigned)
        /\ assigned[g.assignment].metric = m /\ assigned[g.assignment].place = g.place
        /\ g \in Setup!Fields
    BY <2>1 DEF Drawn
  <2>3. g = [metric |-> g.metric, place |-> g.place, assignment |-> g.assignment]
    BY <2>2 DEF Setup!Fields
  <2>4. Setup!Meant(g) = {g.assignment}
    BY <2>1, DrawnIssues
  <2> QED
    BY <2>2, <2>3, <2>4
<1>6. mine = Setup!FieldsOf(m) <=> \A a \in rows : field(a) \in fields
  <2>1. \A a \in rows : field(a).metric = m
    OBVIOUS
  <2> HIDE DEF field
  <2>2. mine \subseteq Setup!FieldsOf(m)
    BY <1>4, <1>5
  <2> QED
    BY <1>4, <2>1, <2>2
<1>7. \A a \in rows : field(a) \in fields <=> \E g \in fields : a \in Setup!Meant(g)
  <2> SUFFICES ASSUME NEW a \in rows
               PROVE  field(a) \in fields <=> \E g \in fields : a \in Setup!Meant(g)
    OBVIOUS
  <2>1. ASSUME field(a) \in fields PROVE \E g \in fields : a \in Setup!Meant(g)
    <3>1. field(a) \in mine /\ field(a).assignment = a
      BY <2>1
    <3>2. Setup!Meant(field(a)) = {a}
      BY <1>5, <3>1
    <3> QED
      BY <2>1, <3>2
  <2>2. ASSUME NEW g \in fields, a \in Setup!Meant(g) PROVE field(a) \in fields
    <3>1. g.assignment = a /\ g.assignment # Setup!None
      BY <2>2, DrawnIssues
    <3>2. g.metric = m
      BY <3>1 DEF Drawn
    <3> QED
      BY <1>5, <3>1, <3>2
  <2> QED
    BY <2>1, <2>2
<1> HIDE DEF mine, field
<1>8. \A a : a \in rows <=> a \in Setup!Used(assigned) /\ assigned[a].metric = m
  OBVIOUS
<1> HIDE DEF rows
<1>9. mine = Setup!FieldsOf(m)
      <=> \A a \in Setup!Used(assigned) :
            assigned[a].metric = m => \E g \in fields : a \in Setup!Meant(g)
  BY <1>6, <1>7, <1>8
<1> QED
  BY <1>9 DEF mine

LEMMA HealthTells == ASSUME SetupInv PROVE Setup!HealthTellsDrift
<1> SUFFICES ASSUME NEW f \in Setup!Used(form), form[f].generated
    PROVE  /\ Setup!Health(f) \subseteq {"OUTSIDE_BOUNDARY", "UNCONFIGURED_ASSIGNMENT"}
           /\ ("UNCONFIGURED_ASSIGNMENT" \notin Setup!Health(f)) <=>
                \A fl \in Setup!RowAware(form[f].fields) :
                  {g \in form[f].fields : g.metric = fl.metric} = Setup!FieldsOf(fl.metric)
  BY DEF Setup!HealthTellsDrift
<1> DEFINE fields == form[f].fields
<1>1. form[f].readable /\ Drawn(fields)
  BY DEF SetupInv, GeneratedAreDrawn
<1> HIDE DEF fields
<1>2. \A fl \in fields : Setup!FieldIssues(fl) \subseteq {"OUTSIDE_BOUNDARY"}
  BY <1>1, DrawnIssues
<1>3. Setup!Health(f) =
        (IF Setup!Uncovered(fields) # {} THEN {"UNCONFIGURED_ASSIGNMENT"} ELSE {})
        \cup UNION {Setup!FieldIssues(fl) : fl \in fields}
  BY <1>1 DEF Setup!Health, fields
<1>4. /\ Setup!Health(f) \subseteq {"OUTSIDE_BOUNDARY", "UNCONFIGURED_ASSIGNMENT"}
      /\ "UNCONFIGURED_ASSIGNMENT" \notin Setup!Health(f) <=> Setup!Uncovered(fields) = {}
  BY <1>2, <1>3
<1>5. \A fl \in Setup!RowAware(fields) : fl \in fields /\ fl.assignment # Setup!None
  BY <1>1, DrawnIssues DEF Setup!RowAware
<1>6. Setup!Uncovered(fields) = {} <=>
        \A fl \in Setup!RowAware(fields) : \A a \in Setup!Used(assigned) :
          assigned[a].metric = fl.metric => \E g \in fields : a \in Setup!Meant(g)
  BY DEF Setup!Uncovered
<1>7. \A fl \in Setup!RowAware(fields) :
        {g \in fields : g.metric = fl.metric} = Setup!FieldsOf(fl.metric)
        <=> \A a \in Setup!Used(assigned) :
              assigned[a].metric = fl.metric => \E g \in fields : a \in Setup!Meant(g)
  BY <1>1, <1>5, DrawnAnew
<1> QED
  BY <1>4, <1>6, <1>7 DEF fields

-----------------------------------------------------------------------------
(***************************************************************************)
(* MappingVersions, for any number of overlapping creations and any number *)
(* of versions.                                                            *)
(*                                                                         *)
(* What a request has found and locked stays the one current version       *)
(* (FoundCurrent, LocksExclusive); a request that has written its version  *)
(* is the only one, and nothing current is left beside what it found       *)
(* (WrittenUnique); without a current version there is none at all         *)
(* (CurrentWhenPresent).  With the property this is inductive.             *)
(***************************************************************************)
FoundCurrent ==
  \A r \in Creations :
    mapping[r].stage \in {"read", "written"} /\ mapping[r].found # Mapping!None
    => mapping[r].found \in Mapping!Current

LocksExclusive ==
  \A r, q \in Creations : \A v \in Mapping!Ids :
    Mapping!Locks(r, v) /\ Mapping!Locks(q, v) => r = q

WrittenUnique ==
  /\ \A r, q \in Creations :
       mapping[r].stage = "written" /\ mapping[q].stage = "written" => r = q
  /\ \A r \in Creations : mapping[r].stage = "written" =>
       /\ Mapping!VersionOf(r) \in Mapping!Ids \ Mapping!Present
       /\ Mapping!Current \subseteq {mapping[r].found}

CurrentWhenPresent == Mapping!Current = {} => Mapping!Present = {}

MappingInv ==
  /\ Mapping!TypeOK /\ FoundCurrent /\ LocksExclusive /\ WrittenUnique
  /\ CurrentWhenPresent /\ Mapping!OneCurrentVersion

LEMMA MappingInit == Mapping!Init => MappingInv
<1> SUFFICES ASSUME Mapping!Init PROVE MappingInv
  OBVIOUS
<1>1. Mapping!TypeOK
  BY DEF Mapping!Init, Mapping!TypeOK
<1>2. Mapping!Current = {} /\ Mapping!Present = {}
  BY DEF Mapping!Init, Mapping!Current, Mapping!Present
<1>3. \A r \in Creations : mapping[r].stage = "idle"
  BY DEF Mapping!Init, Mapping!Idle
<1> QED
  BY <1>1, <1>2, <1>3 DEF MappingInv, FoundCurrent, LocksExclusive, WrittenUnique,
    CurrentWhenPresent, Mapping!OneCurrentVersion, Mapping!Locks

-----------------------------------------------------------------------------
(* A step that leaves the versions alone.                                  *)

LEMMA VersionsKept ==
  ASSUME MappingInv, UNCHANGED versions
  PROVE  /\ Mapping!Present' = Mapping!Present /\ Mapping!Current' = Mapping!Current
         /\ CurrentWhenPresent' /\ Mapping!OneCurrentVersion'
<1>1. Mapping!Present' = Mapping!Present /\ Mapping!Current' = Mapping!Current
  BY DEF Mapping!Present, Mapping!Current
<1> QED
  BY <1>1 DEF MappingInv, CurrentWhenPresent, Mapping!OneCurrentVersion

LEMMA VersionReadKeeps ==
  ASSUME MappingInv, NEW r \in Creations, Mapping!Read(r)
  PROVE  MappingInv'
<1> DEFINE f == IF Mapping!Current = {} THEN Mapping!None ELSE CHOOSE v
\in Mapping!Current : TRUE
<1>1. f \in Mapping!Current \/ (f = Mapping!None /\ Mapping!Current = {})
  OBVIOUS
<1>2. f \in Mapping!Ids \cup {Mapping!None}
  BY <1>1 DEF Mapping!Current
<1>3. mapping' = [mapping EXCEPT ![r] = [stage |-> "read", found |-> f]]
  BY DEF Mapping!Read
<1> HIDE DEF f
<1>4. Mapping!TypeOK'
  <2>1. [stage |-> "read", found |-> f] \in Mapping!InFlight
    BY <1>2 DEF Mapping!InFlight
  <2> QED
    BY <1>3, <2>1 DEF MappingInv, Mapping!TypeOK, Mapping!Read
<1>5. Mapping!Present' = Mapping!Present /\ Mapping!Current' = Mapping!Current
      /\ CurrentWhenPresent' /\ Mapping!OneCurrentVersion'
  BY VersionsKept DEF Mapping!Read
<1>6. FoundCurrent'
  BY <1>1, <1>3, <1>5 DEF MappingInv, FoundCurrent, Mapping!TypeOK
<1>7. LocksExclusive'
  BY <1>1, <1>3
  DEF MappingInv, LocksExclusive, Mapping!Locks, Mapping!TypeOK, Mapping!Read,
      Mapping!Locked, Mapping!None, Mapping!Ids
<1>8. WrittenUnique'
  BY <1>3, <1>5
  DEF MappingInv, WrittenUnique, Mapping!VersionOf, Mapping!TypeOK, Mapping!Read
<1> QED
  BY <1>4, <1>5, <1>6, <1>7, <1>8 DEF MappingInv

LEMMA WaitKeeps ==
  ASSUME MappingInv, NEW r \in Creations, Mapping!Wait(r)
  PROVE  MappingInv'
<1>1. PICK v \in Mapping!Current :
        mapping' = [mapping EXCEPT ![r] = [stage |-> "waiting", found |-> v]]
  BY DEF Mapping!Wait
<1>2. Mapping!TypeOK'
  BY <1>1
  DEF MappingInv, Mapping!TypeOK, Mapping!InFlight, Mapping!Wait, Mapping!Current
<1>3. Mapping!Present' = Mapping!Present /\ Mapping!Current' = Mapping!Current
      /\ CurrentWhenPresent' /\ Mapping!OneCurrentVersion'
  BY VersionsKept DEF Mapping!Wait
<1>4. FoundCurrent'
  BY <1>1, <1>3 DEF MappingInv, FoundCurrent, Mapping!TypeOK
<1>5. LocksExclusive'
  BY <1>1 DEF MappingInv, LocksExclusive, Mapping!Locks, Mapping!TypeOK
<1>6. WrittenUnique'
  BY <1>1, <1>3 DEF MappingInv, WrittenUnique, Mapping!VersionOf, Mapping!TypeOK
<1> QED
  BY <1>2, <1>3, <1>4, <1>5, <1>6 DEF MappingInv

LEMMA WakeKeeps ==
  ASSUME MappingInv, NEW r \in Creations, Mapping!Wake(r)
  PROVE  MappingInv'
<1> DEFINE f == IF mapping[r].found \in Mapping!Current THEN mapping[r].found
                ELSE Mapping!None
<1>1. f = Mapping!None \/ (f \in Mapping!Current /\ f = mapping[r].found)
  OBVIOUS
<1>2. f \in Mapping!Ids \cup {Mapping!None}
  BY <1>1 DEF Mapping!Current
<1>3. mapping' = [mapping EXCEPT ![r] = [stage |-> "read", found |-> f]]
  BY DEF Mapping!Wake
<1> HIDE DEF f
<1>4. Mapping!TypeOK'
  BY <1>2, <1>3 DEF MappingInv, Mapping!TypeOK, Mapping!InFlight, Mapping!Wake
<1>5. Mapping!Present' = Mapping!Present /\ Mapping!Current' = Mapping!Current
      /\ CurrentWhenPresent' /\ Mapping!OneCurrentVersion'
  BY VersionsKept DEF Mapping!Wake
<1>6. FoundCurrent'
  BY <1>1, <1>3, <1>5 DEF MappingInv, FoundCurrent, Mapping!TypeOK
<1>7. LocksExclusive'
  BY <1>1, <1>3
  DEF MappingInv, LocksExclusive, Mapping!Locks, Mapping!TypeOK, Mapping!Wake,
      Mapping!Locked, Mapping!None, Mapping!Ids
<1>8. WrittenUnique'
  BY <1>3, <1>5 DEF MappingInv, WrittenUnique, Mapping!VersionOf, Mapping!TypeOK
<1> QED
  BY <1>4, <1>5, <1>6, <1>7, <1>8 DEF MappingInv

LEMMA VersionAbortKeeps ==
  ASSUME MappingInv, NEW r \in Creations,
         mapping' = [mapping EXCEPT ![r] = Mapping!Idle], UNCHANGED versions
  PROVE  MappingInv'
<1>1. Mapping!TypeOK'
  BY DEF MappingInv, Mapping!TypeOK
<1>2. Mapping!Present' = Mapping!Present /\ Mapping!Current' = Mapping!Current
      /\ CurrentWhenPresent' /\ Mapping!OneCurrentVersion'
  BY VersionsKept
<1>3. FoundCurrent' /\ LocksExclusive'
  BY <1>2
  DEF MappingInv, FoundCurrent, LocksExclusive, Mapping!Locks, Mapping!TypeOK,
      Mapping!Idle
<1>4. WrittenUnique'
  BY <1>2 DEF MappingInv, WrittenUnique, Mapping!VersionOf, Mapping!TypeOK, Mapping!Idle
<1> QED
  BY <1>1, <1>2, <1>3, <1>4 DEF MappingInv

\* The unique constraints let one request write at a time.
LEMMA VersionWriteKeeps ==
  ASSUME MappingInv, NEW r \in Creations, Mapping!Write(r)
  PROVE  MappingInv'
<1>1. CASE ~Mapping!Accepted(r)
  BY <1>1, VersionAbortKeeps DEF Mapping!Write
<1>2. CASE Mapping!Accepted(r)
  <2>1. mapping' = [mapping EXCEPT ![r].stage = "written"] /\ UNCHANGED versions
    BY <1>2 DEF Mapping!Write, MappingInv, Mapping!TypeOK
  <2>2. mapping[r] \in Mapping!InFlight /\ mapping[r].stage = "read"
        /\ Mapping!VersionOf(r) \in Mapping!Ids
    BY DEF Mapping!Write, MappingInv, Mapping!TypeOK, Mapping!Idle
  <2>3. Mapping!VersionOf(r) \notin Mapping!Present
        /\ Mapping!Current \subseteq {mapping[r].found}
    BY <1>2 DEF Mapping!Accepted, Mapping!Unique
  <2>4. Mapping!TypeOK'
    BY <2>1, <2>2 DEF MappingInv, Mapping!TypeOK, Mapping!InFlight
  <2>5. Mapping!Present' = Mapping!Present /\ Mapping!Current' = Mapping!Current
        /\ CurrentWhenPresent' /\ Mapping!OneCurrentVersion'
    BY <2>1, VersionsKept
  <2>6. FoundCurrent' /\ LocksExclusive'
    BY <2>1, <2>2, <2>5
    DEF MappingInv, FoundCurrent, LocksExclusive, Mapping!Locks, Mapping!TypeOK
  <2>7. \A q \in Creations \ {r} : mapping[q].stage # "written"
    <3> SUFFICES ASSUME NEW q \in Creations \ {r}, mapping[q].stage = "written"
                 PROVE  FALSE
      OBVIOUS
    <3>1. Mapping!Current \subseteq {mapping[q].found}
      BY DEF MappingInv, WrittenUnique
    <3>2. mapping[q].found # mapping[r].found
      BY DEF Mapping!Write, Mapping!BeingWritten, Mapping!VersionOf
    <3>3. Mapping!Current = {}
      BY <3>1, <3>2, <2>3
    <3>4. mapping[q].found = Mapping!None /\ mapping[r].found = Mapping!None
      BY <3>3, <2>2 DEF MappingInv, FoundCurrent
    <3> QED
      BY <3>2, <3>4
  <2>8. \A q \in Creations : Mapping!VersionOf(q)' = Mapping!VersionOf(q)
        /\ mapping'[q].found = mapping[q].found
    BY <2>1, <2>2 DEF Mapping!VersionOf, MappingInv, Mapping!TypeOK, Mapping!InFlight
  <2>9. WrittenUnique'
    BY <2>1, <2>2, <2>3, <2>5, <2>7, <2>8 DEF WrittenUnique, MappingInv, Mapping!TypeOK
  <2> QED
    BY <2>4, <2>5, <2>6, <2>9 DEF MappingInv
<1> QED
  BY <1>1, <1>2

\* The new version follows the one that was current, or is the first.
LEMMA VersionCommitKeeps ==
  ASSUME MaxVersions \in Nat, MappingInv, NEW r \in Creations, Mapping!Commit(r)
  PROVE  MappingInv'
<1> DEFINE f == mapping[r].found
           n == f + 1
<1>1. mapping[r].stage = "written" /\ f \in Mapping!Ids \cup {Mapping!None}
      /\ n \in Mapping!Ids \ Mapping!Present
  BY DEF Mapping!Commit, MappingInv, Mapping!TypeOK, Mapping!InFlight, Mapping!Idle,
         WrittenUnique, Mapping!VersionOf
<1>2. Mapping!Current \subseteq {f} /\ f \in Nat
  BY <1>1 DEF MappingInv, WrittenUnique, Mapping!Ids, Mapping!None
<1>3. /\ versions' = [v \in Mapping!Ids |-> IF v = n THEN "current"
                                            ELSE IF v = f THEN "retired" ELSE versions[v]]
      /\ mapping' = [mapping EXCEPT ![r] = Mapping!Idle]
  BY DEF Mapping!Commit, Mapping!VersionOf
<1>4. (f = Mapping!None /\ Mapping!Present = {}) \/ f \in Mapping!Current
  <2>1. CASE f = Mapping!None
    <3>1. 0 \notin Mapping!Current
      BY DEF Mapping!Current, Mapping!Ids
    <3> QED
      BY <2>1, <3>1, <1>2 DEF MappingInv, CurrentWhenPresent, Mapping!None
  <2>2. CASE f # Mapping!None
    BY <2>2, <1>1 DEF MappingInv, FoundCurrent
  <2> QED
    BY <2>1, <2>2
<1> HIDE DEF f, n
<1>5. Mapping!TypeOK'
  BY <1>1, <1>3 DEF MappingInv, Mapping!TypeOK
<1>6. Mapping!Current' = {n}
  BY <1>1, <1>2, <1>3 DEF Mapping!Current, MappingInv, Mapping!TypeOK
<1>7. Mapping!Present' = Mapping!Present \cup {n}
  <2>1. f \in Mapping!Present \/ f = Mapping!None
    BY <1>4 DEF Mapping!Current, Mapping!Present
  <2> QED
    BY <1>1, <1>3, <2>1 DEF Mapping!Present, Mapping!None, Mapping!Ids
<1>8. Mapping!OneCurrentVersion'
  <2>1. CASE Mapping!Present = {}
    <3>1. f = Mapping!None
      BY <2>1, <1>4 DEF Mapping!Current, Mapping!Present
    <3>2. n = 1
      BY <3>1 DEF n, Mapping!None
    <3> QED
      BY <1>6, <1>7, <2>1, <3>2 DEF Mapping!OneCurrentVersion, Mapping!Ids
  <2>2. CASE f \in Mapping!Current
    <3>1. f \in Mapping!Present /\ (\A u \in Mapping!Present : u <= f)
          /\ (\A u \in Mapping!Ids : u < f => u \in Mapping!Present)
      BY <2>2
      DEF MappingInv, Mapping!OneCurrentVersion, Mapping!Current, Mapping!Present
    <3>2. n = f + 1 /\ f \in Nat
      BY <1>2 DEF n
    <3>3. Mapping!Present \subseteq Mapping!Ids
      BY DEF Mapping!Present
    <3>4. \A v \in Mapping!Present : v \in Nat /\ v < n
      BY <3>1, <3>2, <3>3 DEF Mapping!Ids
    <3>5. \A v \in Mapping!Present \cup {n} :
            \A u \in Mapping!Ids : u < v => u \in Mapping!Present \cup {n}
      <4> SUFFICES ASSUME NEW v \in Mapping!Present \cup {n}, NEW u \in Mapping!Ids, u < v
                   PROVE  u \in Mapping!Present \cup {n}
        OBVIOUS
      <4>1. u \in Nat
        BY DEF Mapping!Ids
      <4>2. u <= f
        BY <3>2, <3>4, <4>1
      <4> QED
        BY <3>1, <4>1, <4>2, <3>2
    <3>6. \A v \in Mapping!Present \cup {n} :
            v = n <=> \A u \in Mapping!Present \cup {n} : u <= v
      BY <3>2, <3>4
    <3> QED
      BY <1>6, <1>7, <3>5, <3>6 DEF Mapping!OneCurrentVersion, Mapping!Ids
  <2> QED
    BY <1>4, <2>1, <2>2
<1>9. FoundCurrent' /\ LocksExclusive' /\ WrittenUnique' /\ CurrentWhenPresent'
  <2>1. LocksExclusive'
    BY <1>3 DEF MappingInv, LocksExclusive, Mapping!Locks, Mapping!TypeOK, Mapping!Idle
  <2>2. \A q \in Creations \ {r} : mapping[q].stage # "written"
    BY <1>1 DEF MappingInv, WrittenUnique
  <2>3. WrittenUnique'
    BY <1>3, <2>2 DEF WrittenUnique, MappingInv, Mapping!TypeOK, Mapping!Idle
  <2>4. \A q \in Creations \ {r} : mapping[q].stage = "read"
        => mapping[q].found = Mapping!None
    <3> SUFFICES ASSUME NEW q \in Creations \ {r}, mapping[q].stage = "read",
                        mapping[q].found # Mapping!None
                 PROVE  FALSE
      OBVIOUS
    <3>1. mapping[q].found \in Mapping!Current
      BY DEF MappingInv, FoundCurrent
    <3>2. mapping[q].found = f
      BY <3>1, <1>2
    <3>3. Mapping!Locks(q, f) /\ Mapping!Locks(r, f) /\ f \in Mapping!Ids
      BY <3>1, <3>2, <1>1 DEF Mapping!Locks, Mapping!Current, f
    <3> QED
      BY <3>3 DEF MappingInv, LocksExclusive
  <2>5. FoundCurrent'
    BY <1>3, <2>2, <2>4 DEF FoundCurrent, MappingInv, Mapping!TypeOK, Mapping!Idle
  <2>6. CurrentWhenPresent'
    BY <1>6 DEF CurrentWhenPresent
  <2> QED
    BY <2>1, <2>3, <2>5, <2>6
<1> QED
  BY <1>5, <1>8, <1>9 DEF MappingInv

-----------------------------------------------------------------------------
LEMMA MappingNext ==
  ASSUME MaxVersions \in Nat
  PROVE  MappingInv /\ [Mapping!Next]_(Mapping!vars) => MappingInv'
<1> SUFFICES ASSUME MappingInv, [Mapping!Next]_(Mapping!vars) PROVE MappingInv'
  OBVIOUS
<1>1. CASE UNCHANGED Mapping!vars
  BY <1>1
  DEF Mapping!vars, MappingInv, Mapping!TypeOK, FoundCurrent, LocksExclusive,
      WrittenUnique, CurrentWhenPresent,
    Mapping!OneCurrentVersion, Mapping!Present, Mapping!Current, Mapping!Locks,
    Mapping!VersionOf
<1>2. ASSUME NEW r \in Creations,
             Mapping!Read(r) \/ Mapping!Wait(r) \/ Mapping!Wake(r)
             \/ Mapping!Write(r) \/ Mapping!Commit(r) \/ Mapping!Abort(r)
      PROVE  MappingInv'
  <2>1. CASE Mapping!Read(r)
    BY <2>1, VersionReadKeeps
  <2>2. CASE Mapping!Wait(r)
    BY <2>2, WaitKeeps
  <2>3. CASE Mapping!Wake(r)
    BY <2>3, WakeKeeps
  <2>4. CASE Mapping!Write(r)
    BY <2>4, VersionWriteKeeps
  <2>5. CASE Mapping!Commit(r)
    BY <2>5, VersionCommitKeeps
  <2>6. CASE Mapping!Abort(r)
    BY <2>6, VersionAbortKeeps DEF Mapping!Abort
  <2> QED
    BY <1>2, <2>1, <2>2, <2>3, <2>4, <2>5, <2>6
<1> QED
  BY <1>1, <1>2 DEF Mapping!Next

-----------------------------------------------------------------------------
(***************************************************************************)
(* ProgressViews.  The pages count the same items in three ways: a share,  *)
(* rows joined to the items, and one tally for each status.                *)
(***************************************************************************)
LEMMA CardinalityOfViews == \A S : Views!Cardinality(S) = Cardinality(S)
BY DEF Views!Cardinality, Cardinality

ItemRows == [Items -> Views!Statuses \cup {Views!Absent}]

LEMMA FiniteItems == ASSUME NEW S \in SUBSET Items PROVE IsFiniteSet(S)
<1>1. Views!IsFiniteSet(Items)
  BY ConstantsAssumption DEF ConstantsFit, Views!ConstantsOK
<1>2. IsFiniteSet(Items)
  BY <1>1 DEF Views!IsFiniteSet, IsFiniteSet
<1> QED
  BY <1>2, FS_Subset

\* As many rows as items when every item is joined to its one row.
LEMMA PairsCount ==
  ASSUME NEW S, IsFiniteSet(S), NEW row
  PROVE  Cardinality({<<i, row[i]>> : i \in S}) = Cardinality(S)
<1> DEFINE T == {<<i, row[i]>> : i \in S}
           join == [i \in S |-> <<i, row[i]>>]
<1>1. join \in Bijection(S, T)
  BY DEF Bijection, Injection, Surjection, IsInjective
<1>2. ExistsBijection(S, T)
  BY <1>1 DEF ExistsBijection
<1> QED
  BY <1>2, FS_Bijection

\* Each item is complete, partial or missing.
LEMMA TallyAll ==
  ASSUME NEW row \in ItemRows, NEW S \in SUBSET Items
  PROVE  Cardinality(S) = Cardinality(Views!With(row, S, "complete"))
                          + Cardinality(Views!With(row, S, "partial"))
                          + Cardinality(Views!With(row, S, "missing"))
<1> DEFINE C == Views!With(row, S, "complete")
           P == Views!With(row, S, "partial")
           M == Views!With(row, S, "missing")
<1>1. \A i \in S : Views!Stored(row, i) \in Views!Statuses
  BY DEF ItemRows, Views!Stored, Views!Statuses
<1>2. S = (C \cup P) \cup M /\ C \cap P = {} /\ (C \cup P) \cap M = {}
  BY <1>1 DEF Views!With, Views!Statuses
<1>3. C \in SUBSET Items /\ P \in SUBSET Items /\ M \in SUBSET Items
  BY DEF Views!With
<1>4. IsFiniteSet(C) /\ IsFiniteSet(P) /\ IsFiniteSet(M)
  BY <1>3, FiniteItems
<1> HIDE DEF C, P, M
<1>5. /\ IsFiniteSet(C \cup P)
      /\ Cardinality(C \cup P) = Cardinality(C) + Cardinality(P) - Cardinality(C \cap P)
  BY <1>4, FS_Union
<1>6. Cardinality((C \cup P) \cup M)
      = Cardinality(C \cup P) + Cardinality(M) - Cardinality((C \cup P) \cap M)
  BY <1>4, <1>5, FS_Union
<1>7. Cardinality({}) = 0
  BY FS_EmptySet
<1>8. Cardinality(C) \in Nat /\ Cardinality(P) \in Nat /\ Cardinality(M) \in Nat
  BY <1>4, FS_CardinalityType
<1>9. Cardinality(S) = Cardinality(C) + Cardinality(P) + Cardinality(M)
  <2>1. Cardinality(C \cup P) = Cardinality(C) + Cardinality(P)
    <3>1. Cardinality(C \cap P) = 0
      BY <1>2, <1>7
    <3> QED
      BY <1>5, <1>8, <3>1
  <2>2. Cardinality((C \cup P) \cap M) = 0
    BY <1>2, <1>7
  <2>3. Cardinality(S) = Cardinality((C \cup P) \cup M)
    BY <1>2
  <2> QED
    BY <1>6, <1>8, <2>1, <2>2, <2>3
<1> QED
  BY <1>9 DEF C, P, M

LEMMA ShareCounts ==
  ASSUME NEW row \in ItemRows, NEW S \in SUBSET Items
  PROVE  /\ Views!Share(row, S).complete = Cardinality(Views!With(row, S, "complete"))
         /\ Views!Share(row, S).total = Cardinality(S)
         /\ Views!Share(row, S).complete \in 0..Cardinality(Items)
         /\ Views!Share(row, S).total \in 0..Cardinality(Items)
         /\ Views!AllComplete(Views!Share(row, S)) <=> \A i \in S : row[i] = "complete"
<1> DEFINE C == Views!With(row, S, "complete")
<1>1. /\ Views!Share(row, S).complete = Cardinality(C)
      /\ Views!Share(row, S).total = Cardinality(S)
  BY CardinalityOfViews DEF Views!Share
<1>2. C \in SUBSET S /\ \A i \in S : i \in C <=> row[i] = "complete"
  BY DEF Views!With, Views!Stored, Views!Absent
<1>3. IsFiniteSet(S) /\ IsFiniteSet(Items)
  BY FiniteItems
<1> HIDE DEF C
<1>4. Cardinality(C) <= Cardinality(S) /\ (Cardinality(S) = Cardinality(C) <=> S = C)
  BY <1>2, <1>3, FS_Subset
<1>5. Cardinality(S) <= Cardinality(Items)
  BY <1>3, FS_Subset
<1>6. IsFiniteSet(C)
  BY <1>2, <1>3, FS_Subset
<1>7. Cardinality(C) \in Nat /\ Cardinality(S) \in Nat /\ Cardinality(Items) \in Nat
  BY <1>3, <1>6, FS_CardinalityType
<1>8. /\ Views!Share(row, S).complete \in 0..Cardinality(Items)
      /\ Views!Share(row, S).total \in 0..Cardinality(Items)
  BY <1>1, <1>4, <1>5, <1>7
<1>9. Views!AllComplete(Views!Share(row, S)) <=> \A i \in S : row[i] = "complete"
  BY <1>1, <1>2, <1>4 DEF Views!AllComplete
<1> QED
  BY <1>1, <1>8, <1>9 DEF C

\* aggregate_disclosure_status: the status is complete when every item is.
LEMMA AggregateCounts ==
  ASSUME NEW row \in ItemRows, NEW S \in SUBSET Items
  PROVE  /\ Views!Aggregate(row, S) \in
              [status : Views!Statuses \cup {Views!Absent},
               complete : 0..Cardinality(Items), total : 0..Cardinality(Items)]
         /\ Views!Aggregate(row, S).complete = Views!Share(row, S).complete
         /\ Views!Aggregate(row, S).total = Views!Share(row, S).total
         /\ Views!Aggregate(row, S).status = "complete" <=> \A i \in S : row[i] = "complete"
<1> DEFINE share0 == Views!Share(row, S)
           status0 == IF share0.complete = share0.total THEN "complete"
                      ELSE IF share0.complete > 0 THEN "partial" ELSE "missing"
<1>1. Views!Aggregate(row, S)
      = [status |-> status0, complete |-> share0.complete, total |-> share0.total]
  BY DEF Views!Aggregate, Views!AggregateOf
<1>2. /\ share0.complete \in 0..Cardinality(Items) /\ share0.total \in 0..Cardinality(Items)
      /\ share0.complete = share0.total <=> \A i \in S : row[i] = "complete"
  BY ShareCounts DEF Views!AllComplete
<1>3. status0 \in Views!Statuses /\ (status0 = "complete" <=> share0.complete = share0.total)
  BY DEF Views!Statuses
<1> HIDE DEF share0, status0
<1>4. /\ Views!Aggregate(row, S) \in
           [status : Views!Statuses \cup {Views!Absent},
            complete : 0..Cardinality(Items), total : 0..Cardinality(Items)]
      /\ Views!Aggregate(row, S).complete = share0.complete
      /\ Views!Aggregate(row, S).total = share0.total
      /\ Views!Aggregate(row, S).status = status0
  BY <1>1, <1>2, <1>3
<1> QED
  BY <1>2, <1>3, <1>4 DEF share0

\* No operation stores a malformed row, and no count exceeds the number of items.
LEMMA ViewsInit == Views!Init => Views!TypeOK
<1> SUFFICES ASSUME Views!Init PROVE Views!TypeOK
  OBVIOUS
<1>1. Cardinality(Items) \in Nat
  BY FiniteItems, FS_CardinalityType
<1>2. Views!Unstored \in [status : Views!Statuses \cup {Views!Absent},
                          complete : 0..Views!Cardinality(Items),
                          total : 0..Views!Cardinality(Items)]
  BY <1>1, CardinalityOfViews DEF Views!Unstored
<1> HIDE DEF Views!Unstored
<1> QED
  BY <1>2 DEF Views!Init, Views!TypeOK

Disclosed == [status : Views!Statuses \cup {Views!Absent},
              complete : 0..Cardinality(Items), total : 0..Cardinality(Items)]

LEMMA ViewsTypes ==
  Views!TypeOK <=>
    /\ created \subseteq Items /\ retired \subseteq created
    /\ attached \subseteq Views!Standards
    /\ bound \in [Points -> {"unbound", "open", "approved"}]
    /\ boundary \in {Views!NoBoundary} \cup SUBSET Covered
    /\ itemRow \in ItemRows /\ disclosed \in [Views!Disclosures -> Disclosed]
    /\ shown \in BOOLEAN
<1>1. Views!Cardinality(Items) = Cardinality(Items)
  BY CardinalityOfViews
<1> QED
  BY <1>1 DEF Views!TypeOK, ItemRows, Disclosed

\* Rows that are computed afresh for some of the items.
LEMMA FreshRows ==
  ASSUME NEW S, itemRow \in ItemRows
  PROVE  Views!Recalculated(S) \in ItemRows
<1>1. \A i : Views!ItemStatus(i) \in Views!Statuses
  BY DEF Views!ItemStatus, Views!Statuses
<1> QED
  BY <1>1 DEF ItemRows, Views!Recalculated

LEMMA FreshDisclosures ==
  ASSUME NEW row \in ItemRows, created \subseteq Items, NEW touched,
         disclosed \in [Views!Disclosures -> Disclosed]
  PROVE  [d \in Views!Disclosures |->
            IF d \in touched THEN Views!Aggregate(row, Views!RequiredOf(d)) ELSE disclosed[d]]
         \in [Views!Disclosures -> Disclosed]
<1>1. \A d : Views!RequiredOf(d) \in SUBSET Items
  BY DEF Views!RequiredOf, Views!Required
<1>2. \A d : Views!Aggregate(row, Views!RequiredOf(d)) \in Disclosed
  BY <1>1, AggregateCounts DEF Disclosed
<1> QED
  BY <1>2

LEMMA ViewsNext == Views!TypeOK /\ [Views!Next]_(Views!vars) => Views!TypeOK'
<1> SUFFICES ASSUME Views!TypeOK, [Views!Next]_(Views!vars) PROVE Views!TypeOK'
  OBVIOUS
<1> DEFINE Typed ==
      /\ created' \subseteq Items /\ retired' \subseteq created'
      /\ attached' \subseteq Views!Standards
      /\ bound' \in [Points -> {"unbound", "open", "approved"}]
      /\ boundary' \in {Views!NoBoundary} \cup SUBSET Covered
      /\ itemRow' \in ItemRows /\ disclosed' \in [Views!Disclosures -> Disclosed]
<1>1. /\ created \subseteq Items /\ retired \subseteq created
      /\ attached \subseteq Views!Standards
      /\ bound \in [Points -> {"unbound", "open", "approved"}]
      /\ boundary \in {Views!NoBoundary} \cup SUBSET Covered
      /\ itemRow \in ItemRows /\ disclosed \in [Views!Disclosures -> Disclosed]
      /\ shown \in BOOLEAN
  BY ViewsTypes
<1>2. shown' \in BOOLEAN => (Views!TypeOK' <=> Typed)
  <2>1. Views!Cardinality(Items) = Cardinality(Items)
    BY CardinalityOfViews
  <2> QED
    BY <2>1 DEF Views!TypeOK, ItemRows, Disclosed, Views!Statuses, Views!NoBoundary
<1>10. shown' \in BOOLEAN
  BY <1>1 DEF Views!Next, Views!vars
<1> SUFFICES Typed
  BY <1>2, <1>10
<1>3. \A i : Views!ItemStatus(i) \in Views!Statuses /\ Views!ItemStatus(i)' \in Views!Statuses
  BY DEF Views!ItemStatus, Views!Statuses
<1>4. ASSUME NEW S, Views!ShowCompleteness(S) PROVE Typed
  <2>1. UNCHANGED <<created, retired, attached, bound, boundary>>
    BY <1>4 DEF Views!ShowCompleteness
  <2>2. PICK T, touched :
          /\ itemRow' = Views!Recalculated(T)
          /\ disclosed' = [d \in Views!Disclosures |->
               IF d \in touched
               THEN Views!Aggregate(Views!Recalculated(T), Views!RequiredOf(d))
               ELSE disclosed[d]]
    BY <1>4 DEF Views!ShowCompleteness, Views!Refreshed
  <2> QED
    BY <1>1, <2>1, <2>2, FreshRows, FreshDisclosures
<1>5. CASE Views!ShowItem
  BY <1>1, <1>5, FreshRows DEF Views!ShowItem
<1>6. CASE Views!ShowDisclosure
  <2>1. PICK d \in Views!Disclosures :
          disclosed' = [disclosed EXCEPT ![d] =
                          Views!Aggregate(itemRow, Views!RequiredOf(d))]
    BY <1>6 DEF Views!ShowDisclosure
  <2>2. Views!Aggregate(itemRow, Views!RequiredOf(d)) \in Disclosed
    <3>1. Views!RequiredOf(d) \in SUBSET Items
      BY <1>1 DEF Views!RequiredOf, Views!Required
    <3> QED
      BY <1>1, <3>1, AggregateCounts DEF Disclosed
  <2> QED
    BY <1>1, <1>6, <2>1, <2>2 DEF Views!ShowDisclosure
<1>7. CASE Views!ChangePoint
  <2>1. PICK p \in Points, status \in {"open", "approved"} :
          /\ bound' = [bound EXCEPT ![p] = status]
          /\ itemRow' = [itemRow EXCEPT ![ItemOf[p]] = Views!ItemStatus(ItemOf[p])']
    BY <1>7 DEF Views!ChangePoint
  <2>2. UNCHANGED <<created, retired, attached, boundary, disclosed>>
    BY <1>7 DEF Views!ChangePoint
  <2>3. itemRow' \in ItemRows
    BY <1>1, <1>3, <2>1 DEF ItemRows
  <2> QED
    BY <1>1, <2>1, <2>2, <2>3
<1>8. CASE Views!ReplaceMemberships
  <2> DEFINE row == [i \in Items |-> IF i \in Views!ProjectItems THEN Views!ItemStatus(i)'
                                     ELSE itemRow[i]]
  <2>1. row \in ItemRows
    BY <1>1, <1>3 DEF ItemRows
  <2> HIDE DEF row
  <2>2. /\ UNCHANGED <<created, retired, attached, bound>> /\ boundary' \in SUBSET Covered
        /\ itemRow' = row
    BY <1>8 DEF Views!ReplaceMemberships, row
  <2>3. \E T : disclosed' = [d \in Views!Disclosures |->
                  IF d \in T THEN Views!Aggregate(row, Views!RequiredOf(d)) ELSE disclosed[d]]
    BY <1>8 DEF Views!ReplaceMemberships, row
  <2> QED
    BY <1>1, <2>1, <2>2, <2>3, FreshDisclosures
<1>9. CASE \/ Views!ApplyBoundary \/ Views!CreateItem \/ Views!RetireItems
           \/ Views!AddStandard \/ Views!ShowDashboard \/ Views!Expire
           \/ UNCHANGED Views!vars
  BY <1>1, <1>9
  DEF Views!ApplyBoundary, Views!CreateItem, Views!RetireItems, Views!AddStandard,
      Views!ShowDashboard, Views!Expire, Views!vars
<1> HIDE DEF Typed
<1> QED
  BY <1>4, <1>5, <1>6, <1>7, <1>8, <1>9 DEF Views!Next, Views!ShowAll

-----------------------------------------------------------------------------
(* The answer the dashboard keeps.                                         *)

LEMMA AnswerStays ==
  ASSUME UNCHANGED <<created, retired, attached, itemRow>>
  PROVE  Views!Answer' = Views!Answer
BY DEF Views!Answer, Views!DashboardOverall, Views!StoredItems, Views!StandardProgress,
       Views!DisclosureProgress, Views!StandardItems, Views!RequiredOf, Views!Required,
       Views!Share, Views!With, Views!Stored

\* A step that drops the answer, and one that leaves it without changing what it
\* is computed from or marks it as outdated.
LEMMA AnswerFollows ==
  ASSUME Views!DashboardCurrent, NEW changed \in BOOLEAN,
         \/ Views!DropAnswer
         \/ /\ Views!KeepAnswer(changed)
            /\ ~changed => UNCHANGED <<created, retired, attached, itemRow>>
  PROVE  Views!DashboardCurrent'
<1>1. CASE Views!DropAnswer
  BY <1>1 DEF Views!DropAnswer, Views!DashboardCurrent, Views!Dashboard, Views!NotKept
<1>2. CASE Views!KeepAnswer(changed) /\ cached = Views!NotKept
  BY <1>2 DEF Views!KeepAnswer, Views!DashboardCurrent, Views!Dashboard, Views!NotKept
<1>3. CASE Views!KeepAnswer(changed) /\ cached # Views!NotKept /\ changed
  BY <1>3 DEF Views!KeepAnswer, Views!DashboardCurrent, Views!Outdated, Views!NotKept
<1>4. CASE Views!KeepAnswer(changed) /\ cached # Views!NotKept /\ ~changed
  <2>1. cached' = cached
    BY <1>4 DEF Views!KeepAnswer
  <2>5. Views!Answer' = Views!Answer
    <3>1. CASE Views!DropAnswer
      BY <3>1, <2>1, <1>4 DEF Views!DropAnswer
    <3>2. CASE UNCHANGED <<created, retired, attached, itemRow>>
      BY <3>2, AnswerStays
    <3> QED
      BY <3>1, <3>2, <1>4
  <2>2. cached = Views!Outdated \/ cached = Views!Answer
    BY <1>4 DEF Views!DashboardCurrent, Views!Dashboard
  <2>3. CASE cached = Views!Outdated
    <3>1. Views!Outdated' = Views!Outdated
      BY DEF Views!Outdated
    <3> QED
      BY <2>1, <2>3, <3>1 DEF Views!DashboardCurrent
  <2>4. CASE cached = Views!Answer
    BY <2>1, <2>5, <2>4 DEF Views!DashboardCurrent, Views!Dashboard
  <2> QED
    BY <2>2, <2>3, <2>4
<1> QED
  BY <1>1, <1>2, <1>3, <1>4

LEMMA DashboardFollows ==
  ASSUME Views!DashboardCurrent, [Views!Next]_(Views!vars)
  PROVE  Views!DashboardCurrent'
<1>1. ASSUME NEW S, Views!ShowCompleteness(S) PROVE Views!DashboardCurrent'
  <2>1. UNCHANGED <<created, retired, attached>>
    BY <1>1 DEF Views!ShowCompleteness
  <2>2. Views!DropAnswer \/ (Views!KeepAnswer(FALSE) /\ itemRow' = itemRow)
    BY <1>1 DEF Views!ShowCompleteness, Views!Noticed, Views!NoticedInRows
  <2> QED
    BY <2>1, <2>2, AnswerFollows
<1>2. CASE Views!ShowItem
  <2>1. UNCHANGED <<created, retired, attached>>
    BY <1>2 DEF Views!ShowItem
  <2>2. PICK changed \in BOOLEAN : changed = (itemRow' # itemRow)
    OBVIOUS
  <2>3. Views!KeepAnswer(changed)
    BY <1>2, <2>2 DEF Views!ShowItem
  <2> QED
    BY <2>1, <2>2, <2>3, AnswerFollows
<1>3. CASE Views!ShowDisclosure
  <2>1. Views!KeepAnswer(FALSE) /\ UNCHANGED <<created, retired, attached, itemRow>>
    BY <1>3 DEF Views!ShowDisclosure
  <2> QED
    BY <2>1, AnswerFollows
<1>4. CASE \/ Views!ChangePoint \/ Views!ReplaceMemberships \/ Views!ApplyBoundary
           \/ Views!AddStandard \/ Views!Expire
  <2>1. Views!DropAnswer
    BY <1>4 DEF Views!ChangePoint, Views!ReplaceMemberships, Views!ApplyBoundary,
                Views!AddStandard, Views!Expire
  <2> QED
    BY <2>1, AnswerFollows
<1>5. CASE Views!CreateItem \/ Views!RetireItems
  <2>1. Views!KeepAnswer(TRUE)
    BY <1>5 DEF Views!CreateItem, Views!RetireItems
  <2> QED
    BY <2>1, AnswerFollows
<1>6. CASE Views!ShowDashboard
  <2>1. cached' = Views!Answer /\ UNCHANGED <<created, retired, attached, itemRow>>
    BY <1>6 DEF Views!ShowDashboard
  <2>2. Views!Answer' = Views!Answer
    BY <2>1, AnswerStays
  <2> QED
    BY <2>1, <2>2 DEF Views!DashboardCurrent, Views!Dashboard
<1>7. CASE UNCHANGED Views!vars
  <2>1. cached' = cached /\ UNCHANGED <<created, retired, attached, itemRow>>
    BY <1>7 DEF Views!vars
  <2>2. Views!Answer' = Views!Answer
    BY <2>1, AnswerStays
  <2> QED
    BY <2>1, <2>2 DEF Views!DashboardCurrent, Views!Dashboard, Views!Outdated, Views!NotKept
<1> QED
  BY <1>1, <1>2, <1>3, <1>4, <1>5, <1>6, <1>7 DEF Views!Next, Views!ShowAll

-----------------------------------------------------------------------------
(* The pages.                                                              *)

\* get_coverage: one joined row for every required item, retired ones among them,
\* complete when its status is.
LEMMA CoverageCounts ==
  ASSUME Views!TypeOK, NEW s
  PROVE  LET S == Views!StandardItems(s)
             R == Views!RetiredOf(s)
         IN /\ Views!Coverage(s).total = Views!Share(itemRow, S).total + Views!Cardinality(R)
            /\ Views!Coverage(s).complete =
                 Views!Share(itemRow, S).complete
                 + Views!Cardinality(Views!With(itemRow, R, "complete"))
<1> DEFINE S == Views!StandardItems(s)
           R == Views!RetiredOf(s)
           CS == Views!With(itemRow, S, "complete")
           CR == Views!With(itemRow, R, "complete")
           pairs(T) == {<<i, itemRow[i]>> : i \in T}
<1>1. /\ S \in SUBSET Items /\ R \in SUBSET Items /\ S \cup R \in SUBSET Items
      /\ CS \in SUBSET Items /\ CR \in SUBSET Items
  BY DEF Views!TypeOK, Views!StandardItems, Views!RetiredOf, Views!Required, Views!With
<1>2. /\ S \cap R = {} /\ CS \cap CR = {}
      /\ Views!With(itemRow, S \cup R, "complete") = CS \cup CR
  BY DEF Views!StandardItems, Views!RetiredOf, Views!Required, Views!With
<1>3. Views!CoverageRows(s) = pairs(S \cup R)
  <2>1. {k \in created : StandardOf[DisclosureOf[k]] = s /\ k \notin Optional} = S \cup R
    BY DEF Views!TypeOK, Views!StandardItems, Views!RetiredOf, Views!Required
  <2>2. Views!CoverageRows(s) =
          pairs({k \in created : StandardOf[DisclosureOf[k]] = s /\ k \notin Optional})
    BY DEF Views!CoverageRows, Views!Rows
  <2> QED
    BY <2>1, <2>2
<1>4. {x \in pairs(S \cup R) : x[2] = "complete"} = pairs(CS \cup CR)
  BY <1>2 DEF Views!With, Views!Stored, Views!Absent
<1>5. /\ Views!Coverage(s).complete = Cardinality(pairs(CS \cup CR))
      /\ Views!Coverage(s).total = Cardinality(pairs(S \cup R))
  BY <1>3, <1>4, CardinalityOfViews DEF Views!Coverage
<1>6. /\ Views!Share(itemRow, S).complete = Cardinality(CS)
      /\ Views!Share(itemRow, S).total = Cardinality(S)
  BY CardinalityOfViews DEF Views!Share
<1>7. /\ Views!Cardinality(R) = Cardinality(R)
      /\ Views!Cardinality(CR) = Cardinality(CR)
  BY CardinalityOfViews
<1> SUFFICES /\ Views!Coverage(s).total = Views!Share(itemRow, S).total + Cardinality(R)
             /\ Views!Coverage(s).complete = Views!Share(itemRow, S).complete
                                              + Cardinality(CR)
  BY <1>7
<1> HIDE DEF S, R, CS, CR
<1>8. /\ IsFiniteSet(S) /\ IsFiniteSet(R) /\ IsFiniteSet(S \cup R)
      /\ IsFiniteSet(CS) /\ IsFiniteSet(CR) /\ IsFiniteSet(CS \cup CR)
  BY <1>1, FiniteItems
<1>9. /\ Cardinality(pairs(CS \cup CR)) = Cardinality(CS \cup CR)
      /\ Cardinality(pairs(S \cup R)) = Cardinality(S \cup R)
  BY <1>8, PairsCount
<1> HIDE DEF pairs
<1>10. /\ Cardinality(S) \in Nat /\ Cardinality(R) \in Nat
       /\ Cardinality(CS) \in Nat /\ Cardinality(CR) \in Nat
  BY <1>8, FS_CardinalityType
<1>11. /\ Cardinality(S \cup R) = Cardinality(S) + Cardinality(R) - Cardinality(S \cap R)
       /\ Cardinality(CS \cup CR) =
            Cardinality(CS) + Cardinality(CR) - Cardinality(CS \cap CR)
  BY <1>8, FS_Union
<1>12. Cardinality(S \cap R) = 0 /\ Cardinality(CS \cap CR) = 0
  BY <1>2, FS_EmptySet
<1> QED
  BY <1>5, <1>6, <1>9, <1>10, <1>11, <1>12

LEMMA TalliedShares ==
  ASSUME itemRow \in ItemRows, NEW S \in SUBSET Items
  PROVE  Views!Tallied(S) = Views!Share(itemRow, S)
<1>1. Cardinality(S) = Cardinality(Views!With(itemRow, S, "complete"))
                       + Cardinality(Views!With(itemRow, S, "partial"))
                       + Cardinality(Views!With(itemRow, S, "missing"))
  BY TallyAll
<1> QED
  BY <1>1, CardinalityOfViews DEF Views!Tallied, Views!Share

\* What the pages agree on whatever rows are stored.
PagesCount ==
  /\ Views!StandardsAgree
  /\ Views!ProjectSummary = Views!PageOverall
  /\ Views!AllComplete(Views!PageOverall)
     <=> \A s \in attached : Views!AllComplete(Views!StandardProgress(s))
  /\ Views!StoredItems = Views!ProjectItems => Views!DashboardOverall = Views!PageOverall
  /\ \A d \in Views!Disclosures :
       Views!DisclosureProgress(d) = "complete"
       <=> \A i \in Views!RequiredOf(d) : itemRow[i] = "complete"

LEMMA ViewsCount == Views!TypeOK => PagesCount
<1> SUFFICES ASSUME Views!TypeOK PROVE PagesCount
  OBVIOUS
<1>1. itemRow \in ItemRows /\ created \subseteq Items
  BY ViewsTypes
<1>2. /\ \A s : Views!StandardItems(s) \in SUBSET Items
      /\ \A d : Views!RequiredOf(d) \in SUBSET Items
      /\ Views!ProjectItems \in SUBSET Items
  BY <1>1 DEF Views!StandardItems, Views!RequiredOf, Views!Required, Views!ProjectItems
<1>3. Views!StandardsAgree
  BY <1>1, <1>2, CoverageCounts, TalliedShares
  DEF Views!StandardsAgree, Views!StandardProgress, Views!StandardSummary
<1>4. Views!ProjectSummary = Views!PageOverall
  BY <1>1, <1>2, TalliedShares DEF Views!ProjectSummary, Views!PageOverall
<1>5. Views!AllComplete(Views!PageOverall)
      <=> \A s \in attached : Views!AllComplete(Views!StandardProgress(s))
  <2>1. Views!AllComplete(Views!PageOverall)
        <=> \A i \in Views!ProjectItems : itemRow[i] = "complete"
    BY <1>1, <1>2, ShareCounts DEF Views!PageOverall
  <2>2. \A s : Views!AllComplete(Views!StandardProgress(s))
               <=> \A i \in Views!StandardItems(s) : itemRow[i] = "complete"
    BY <1>1, <1>2, ShareCounts DEF Views!StandardProgress
  <2> QED
    BY <2>1, <2>2 DEF Views!ProjectItems
<1>6. Views!StoredItems = Views!ProjectItems => Views!DashboardOverall = Views!PageOverall
  BY DEF Views!DashboardOverall, Views!PageOverall
<1>7. ASSUME NEW d \in Views!Disclosures
      PROVE  Views!DisclosureProgress(d) = "complete"
             <=> \A i \in Views!RequiredOf(d) : itemRow[i] = "complete"
  BY <1>1, <1>2
  DEF Views!DisclosureProgress, Views!With, Views!Stored, ItemRows, Views!Statuses,
      Views!Absent
<1> QED
  BY <1>3, <1>4, <1>5, <1>6, <1>7 DEF PagesCount

\* calculate_item_status: a complete entity-wide item has data of every entity.
LEMMA CompleteLeavesNone ==
  ASSUME NEW d, NEW i \in Views!RequiredOf(d) \cap EntityWide,
         Views!ItemStatus(i) = "complete"
  PROVE  Views!WithoutData(d) = {}
<1>1. ~Views!LeavesOut(i)
  BY DEF Views!ItemStatus
<1>2. boundary \in {Views!NoBoundary, {}} \/ Views!EntitiesOf(Views!ApprovedIn(i)) = boundary
  BY <1>1 DEF Views!LeavesOut
<1>3. Views!EntitiesOf(Views!ApprovedIn(i)) \subseteq Views!EntitiesOf(Views!InScope(i))
  BY DEF Views!EntitiesOf, Views!ApprovedIn
<1> QED
  BY <1>2, <1>3 DEF Views!WithoutData, Views!NoBoundary

\* What the page that has just been shown says of the rows and the disclosures.
Shown ==
  /\ \A i \in Views!ProjectItems : itemRow[i] = Views!ItemStatus(i)
  /\ \A d \in {DisclosureOf[i] : i \in Views!ProjectItems} :
       /\ d \in Views!Disclosures
       /\ disclosed[d].status = "complete"
          <=> \A i \in Views!RequiredOf(d) : itemRow[i] = "complete"
       /\ disclosed[d].complete = Views!Share(itemRow, Views!RequiredOf(d)).complete
       /\ disclosed[d].total = Views!Share(itemRow, Views!RequiredOf(d)).total
       /\ (\E i \in Views!RequiredOf(d) \cap EntityWide : itemRow[i] = "complete")
          => Views!WithoutData(d) = {}

\* get_project_completeness: every item of the project is recalculated before the
\* disclosures it touches are aggregated.
LEMMA ShowAllShows == Views!TypeOK /\ Views!ShowAll => Shown'
<1> SUFFICES ASSUME Views!TypeOK, Views!ShowAll PROVE Shown'
  OBVIOUS
<1> DEFINE P == Views!ProjectItems
           touched == {DisclosureOf[i] : i \in P}
<1>1. itemRow \in ItemRows /\ created \subseteq Items
  BY ViewsTypes
<1>2. P \in SUBSET Items /\ \A d : Views!RequiredOf(d) \in SUBSET Items
  BY <1>1 DEF Views!StandardItems, Views!RequiredOf, Views!Required, Views!ProjectItems
<1>3. /\ UNCHANGED <<created, retired, attached, bound, boundary>>
      /\ itemRow' = Views!Recalculated(P)
      /\ disclosed' = [d \in Views!Disclosures |->
                         IF d \in touched THEN Views!Aggregate(itemRow', Views!RequiredOf(d))
                         ELSE disclosed[d]]
  BY DEF Views!ShowAll, Views!ShowCompleteness, Views!Refreshed, Views!ProjectItems
<1>4. itemRow' \in ItemRows
  BY <1>1, <1>3, FreshRows
<1>5. /\ P' = P /\ \A d : Views!RequiredOf(d)' = Views!RequiredOf(d)
      /\ \A i : Views!ItemStatus(i)' = Views!ItemStatus(i)
      /\ \A d : Views!WithoutData(d)' = Views!WithoutData(d)
  BY <1>3
  DEF Views!ProjectItems, Views!StandardItems, Views!RequiredOf, Views!Required,
      Views!ItemStatus, Views!LeavesOut, Views!ApprovedIn, Views!InScope, Views!EntitiesOf,
      Views!WithoutData
<1>6. \A i \in P : itemRow'[i] = Views!ItemStatus(i)
  BY <1>2, <1>3 DEF Views!Recalculated
<1>7. \A d \in touched : d \in Views!Disclosures /\ Views!RequiredOf(d) \subseteq P
  <2> SUFFICES ASSUME NEW i \in P
               PROVE  /\ DisclosureOf[i] \in Views!Disclosures
                      /\ Views!RequiredOf(DisclosureOf[i]) \subseteq P
    OBVIOUS
  <2>1. DisclosureOf[i] \in Views!Disclosures
    BY <1>2, ConstantsAssumption DEF ConstantsFit, Views!ConstantsOK
  <2> QED
    BY <2>1 DEF Views!ProjectItems, Views!StandardItems, Views!RequiredOf
<1> HIDE DEF P, touched
<1>8. ASSUME NEW d \in touched
      PROVE  /\ disclosed'[d].status = "complete"
                <=> \A i \in Views!RequiredOf(d) : itemRow'[i] = "complete"
             /\ disclosed'[d].complete = Views!Share(itemRow', Views!RequiredOf(d)).complete
             /\ disclosed'[d].total = Views!Share(itemRow', Views!RequiredOf(d)).total
             /\ (\E i \in Views!RequiredOf(d) \cap EntityWide : itemRow'[i] = "complete")
                => Views!WithoutData(d) = {}
  <2>1. disclosed'[d] = Views!Aggregate(itemRow', Views!RequiredOf(d))
    BY <1>3, <1>7
  <2>2. (\E i \in Views!RequiredOf(d) \cap EntityWide : itemRow'[i] = "complete")
        => Views!WithoutData(d) = {}
    BY <1>6, <1>7, CompleteLeavesNone
  <2> QED
    BY <1>2, <1>4, <2>1, <2>2, AggregateCounts
<1> QED
  BY <1>3, <1>5, <1>6, <1>7, <1>8 DEF Shown, touched, P

LEMMA ShownAgree == PagesCount /\ Shown => Views!PagesAgree
BY DEF PagesCount, Shown, Views!PagesAgree

ViewsInv == Views!TypeOK /\ Views!DashboardCurrent /\ (shown => Shown)

LEMMA ViewsInvInit == Views!Init => ViewsInv
<1>1. Views!Init => cached = Views!NotKept /\ ~shown
  BY DEF Views!Init
<1> QED
  BY <1>1, ViewsInit DEF ViewsInv, Views!DashboardCurrent, Views!Dashboard

LEMMA ViewsInvNext == ViewsInv /\ [Views!Next]_(Views!vars) => ViewsInv'
<1> SUFFICES ASSUME ViewsInv, [Views!Next]_(Views!vars) PROVE ViewsInv'
  OBVIOUS
<1>1. Views!TypeOK' /\ Views!DashboardCurrent'
  BY ViewsNext, DashboardFollows DEF ViewsInv
<1> SUFFICES ASSUME shown' PROVE Shown'
  BY <1>1 DEF ViewsInv
<1>2. CASE Views!ShowAll
  BY <1>2, ShowAllShows DEF ViewsInv
<1>4. CASE UNCHANGED Views!vars
  <2>1. UNCHANGED <<created, retired, attached, bound, boundary, itemRow, disclosed, shown>>
    BY <1>4 DEF Views!vars
  <2>2. /\ Views!ProjectItems' = Views!ProjectItems
        /\ \A d : Views!RequiredOf(d)' = Views!RequiredOf(d)
        /\ \A i : Views!ItemStatus(i)' = Views!ItemStatus(i)
        /\ \A d : Views!WithoutData(d)' = Views!WithoutData(d)
    BY <2>1
    DEF Views!ProjectItems, Views!StandardItems, Views!RequiredOf, Views!Required,
        Views!ItemStatus, Views!LeavesOut, Views!ApprovedIn, Views!InScope, Views!EntitiesOf,
        Views!WithoutData
  <2>3. \A d : Views!Share(itemRow, Views!RequiredOf(d))' = Views!Share(itemRow, Views!RequiredOf(d))
    BY <2>1, <2>2 DEF Views!Share, Views!With, Views!Stored
  <2>4. shown
    BY <2>1
  <2>5. Shown
    BY <2>4 DEF ViewsInv
  <2> QED
    BY <2>1, <2>2, <2>3, <2>5 DEF Shown
<1>5. Views!Next => Views!ShowAll
  BY Zenon DEF Views!Next
<1> QED
  BY <1>2, <1>4, <1>5

-----------------------------------------------------------------------------
(***************************************************************************)
(* Notices.  What is still to be told has no row and no mail; a row says   *)
(* how often its notice went out, up to the digests that were lost; and a  *)
(* notice that was judged has seen those that were on their way.           *)
(***************************************************************************)
ToTell(n) ==
  \/ event[n[1]].stage = "new"
  \/ Mail!Telling(n[1]) /\ n[2] \in event[n[1]].todo \cup {event[n[1]].now}

TellingOnce ==
  /\ \A n \in Mail!Id : ToTell(n) => notice[n] = Mail!NoRow /\ mailed[n] = 0
  /\ \A e \in Events :
       /\ event[e].now \notin event[e].todo
       /\ event[e].now # Nobody => event[e].channel # "none"
  /\ \A n \in Mail!Stored : event[n[1]].stage = "ended"

\* A row of the running digest is locked and will be marked.
Counted(n) ==
  /\ notice[n].emailSent => mailed[n] = 1
  /\ ~notice[n].emailSent =>
       mailed[n] <= lost + (IF notice[n].digestSent \/ Mail!Locked(n) THEN 1 ELSE 0)
  /\ EmailEnabled /\ notice[n].digestSent => mailed[n] > 0
  /\ notice[n].state = "written" =>
       ~notice[n].digestSent /\ (~notice[n].emailSent => mailed[n] = 0)
RowsCounted == \A n \in Mail!Id : notice[n] # Mail!NoRow => Counted(n)

DigestHonest ==
  digest # Mail!NoDigest =>
    /\ digest.marked \subseteq digest.listed
    /\ \A n \in digest.listed :
         n \in Mail!Stored /\ ~notice[n].emailSent /\ ~notice[n].digestSent
    /\ \A n \in digest.marked :
         n[2] \notin digest.todo /\ (EmailEnabled => mailed[n] > 0)

\* Of two notices of one matter that are on their way or unread, one saw the other.
Live(n) ==
  \/ n \in Mail!InHand \/ n \in Mail!Written
  \/ n \in Mail!Stored /\ ~notice[n].read
Plain(n) == Severity[n[1]] # "important"
SeenBeside ==
  \A m, n \in Mail!Id :
    Live(m) /\ Live(n) /\ Mail!SameTopic(m, n) /\ Plain(m) /\ Plain(n)
    => m \in beside[n] \/ n \in beside[m]

MailInv == Mail!TypeOK /\ TellingOnce /\ RowsCounted /\ DigestHonest /\ SeenBeside

LEMMA MailInit == ASSUME Mail!ConstantsOK PROVE Mail!Init => MailInv
<1> SUFFICES ASSUME Mail!Init PROVE MailInv
  OBVIOUS
<1>1. \A e \in Events : /\ event[e].stage = "new" /\ event[e].todo = {}
                        /\ event[e].now = Nobody /\ event[e].channel = "none"
                        /\ event[e].mail = "no"
  BY DEF Mail!Init, Mail!Handler
<1>2. Mail!TypeOK
  <2>1. event \in [Events -> [stage : {"new", "telling", "ended"}, todo : SUBSET Users,
                              now : Users \cup {Nobody}, channel : Mail!Channels \cup {"none"},
                              mail : {"now", "later", "no"}]]
    BY DEF Mail!Init, Mail!Handler
  <2> QED
    BY <2>1 DEF Mail!Init, Mail!TypeOK, Mail!ConstantsOK, Mail!Prefs
<1>3. TellingOnce /\ RowsCounted /\ DigestHonest
  BY <1>1 DEF Mail!Init, TellingOnce, RowsCounted, DigestHonest, Mail!Stored, Mail!NoRow
<1>4. \A n \in Mail!Id : ~Live(n)
  BY <1>1 DEF Mail!Init, Live, Mail!InHand, Mail!Telling, Mail!Written, Mail!Stored, Mail!NoRow
<1> QED
  BY <1>2, <1>3, <1>4 DEF MailInv, SeenBeside

Handlers == [stage : {"new", "telling", "ended"}, todo : SUBSET Users,
             now : Users \cup {Nobody}, channel : Mail!Channels \cup {"none"},
             mail : {"now", "later", "no"}]

\* What is not about rows or mail leaves their account alone.
LEMMA AccountKept ==
  ASSUME MailInv, UNCHANGED <<notice, digest, mailed, lost>>
  PROVE  RowsCounted' /\ DigestHonest'
BY DEF MailInv, RowsCounted, Counted, DigestHonest, Mail!Locked, Mail!Stored

LEMMA PublishKeeps ==
  ASSUME Mail!ConstantsOK, MailInv, NEW e \in Events, Mail!Publish(e)
  PROVE  MailInv'
<1>1. PICK us \in (SUBSET Users) \ {{}} :
        event' = [event EXCEPT ![e] = Mail!Handler("telling", us)]
  BY DEF Mail!Publish
<1>2. /\ event[e].stage = "new"
      /\ UNCHANGED <<notice, prefs, digest, mailed, beside, lost>>
  BY DEF Mail!Publish
<1>3. /\ event'[e].stage = "telling" /\ event'[e].todo = us /\ event'[e].now = Nobody
      /\ \A f \in Events : f # e => event'[f] = event[f]
  BY <1>1 DEF MailInv, Mail!TypeOK, Mail!Handler
<1>4. Mail!TypeOK'
  BY <1>1, <1>2 DEF MailInv, Mail!TypeOK, Mail!Handler
<1>5. TellingOnce'
  <2>1. \A n \in Mail!Id : ToTell(n)' => ToTell(n)
    BY <1>2, <1>3 DEF ToTell, Mail!Telling, Mail!Id
  <2>2. \A n \in Mail!Stored : n[1] # e
    BY <1>2 DEF MailInv, TellingOnce
  <2> QED
    BY <1>2, <1>3, <2>1, <2>2
    DEF MailInv, TellingOnce, Mail!Stored, Mail!Id, Mail!ConstantsOK
<1>6. SeenBeside'
  <2>1. \A n \in Mail!Id : Live(n)' => Live(n)
    BY <1>2, <1>3 DEF Live, Mail!InHand, Mail!Telling, Mail!Written, Mail!Stored
  <2> QED
    BY <1>2, <2>1 DEF MailInv, SeenBeside
<1> QED
  BY <1>2, <1>4, <1>5, <1>6, AccountKept DEF MailInv

LEMMA SkipKeeps ==
  ASSUME MailInv, NEW e \in Events, NEW u \in Users, Mail!Skip(e, u)
  PROVE  MailInv'
<1>1. /\ event' = [event EXCEPT ![e].todo = @ \ {u}]
      /\ UNCHANGED <<notice, prefs, digest, mailed, beside, lost>>
  BY DEF Mail!Skip
<1>2. /\ event'[e].stage = event[e].stage /\ event'[e].now = event[e].now
      /\ event'[e].channel = event[e].channel
      /\ event'[e].todo = event[e].todo \ {u}
      /\ \A f \in Events : f # e => event'[f] = event[f]
  BY <1>1 DEF MailInv, Mail!TypeOK
<1>3. Mail!TypeOK'
  BY <1>1 DEF MailInv, Mail!TypeOK
<1>4. TellingOnce'
  <2>1. \A n \in Mail!Id : ToTell(n)' => ToTell(n)
    BY <1>2 DEF ToTell, Mail!Telling, Mail!Id
  <2> QED
    BY <1>1, <1>2, <2>1 DEF MailInv, TellingOnce, Mail!Stored, Mail!Id
<1>5. SeenBeside'
  <2>1. \A n \in Mail!Id : Live(n)' => Live(n)
    BY <1>1, <1>2 DEF Live, Mail!InHand, Mail!Telling, Mail!Written, Mail!Stored
  <2> QED
    BY <1>1, <2>1 DEF MailInv, SeenBeside
<1> QED
  BY <1>1, <1>3, <1>4, <1>5, AccountKept DEF MailInv

LEMMA JudgeKeeps ==
  ASSUME MailInv, NEW e \in Events, NEW u \in Users, Mail!Judge(e, u)
  PROVE  MailInv'
<1> DEFINE new == <<e, u>>
<1>1. /\ event[e].stage = "telling" /\ event[e].now = Nobody /\ u \in event[e].todo
      /\ ~Mail!Duplicate(e, u) /\ Mail!Channel(e, u) # "none"
      /\ beside' = [beside EXCEPT ![new] = Mail!Written \cup Mail!InHand]
      /\ UNCHANGED <<notice, prefs, digest, mailed, lost>>
  BY DEF Mail!Judge, Mail!Telling
<1> DEFINE h == [event[e] EXCEPT !.todo = event[e].todo \ {u}, !.now = u,
                   !.channel = Mail!Channel(e, u), !.mail = Mail!Mail(e, u)]
<1>2. event \in [Events -> Handlers]
  BY DEF MailInv, Mail!TypeOK, Handlers
<1>3. /\ Mail!Channel(e, u) \in Mail!Channels \cup {"none"}
      /\ Mail!Mail(e, u) \in {"now", "later", "no"}
  BY DEF Mail!Channel, Mail!Mail, Mail!Channels
<1>4. /\ h \in Handlers /\ h.stage = event[e].stage
       /\ h.todo = event[e].todo \ {u} /\ h.now = u /\ h.channel = Mail!Channel(e, u)
  <2>1. event[e] \in Handlers /\ event[e].todo \ {u} \in SUBSET Users
    BY <1>2 DEF Handlers
  <2> QED
    BY <1>3, <2>1 DEF Handlers
<1>5. event' = [event EXCEPT ![e] = h]
  <2>1. event' = [event EXCEPT ![e].todo = event[e].todo \ {u}, ![e].now = u,
                   ![e].channel = Mail!Channel(e, u), ![e].mail = Mail!Mail(e, u)]
    BY DEF Mail!Judge
  <2> QED
    BY <1>2, <2>1 DEF Handlers
<1>6. /\ event'[e].stage = "telling" /\ event'[e].now = u
      /\ event'[e].todo = event[e].todo \ {u} /\ event'[e].channel = Mail!Channel(e, u)
      /\ \A f \in Events : f # e => event'[f] = event[f]
  <2> HIDE DEF h
  <2> QED
    BY <1>1, <1>2, <1>4, <1>5
<1>7. new \in Mail!Id /\ new[1] = e /\ new[2] = u
  BY DEF Mail!Id
<1>8. Mail!InHand \subseteq Mail!Id
  BY DEF MailInv, Mail!TypeOK, Mail!InHand, Mail!Id, Mail!Telling
<1>9. Mail!TypeOK'
  <2>2. event' \in [Events -> Handlers]
    <3> HIDE DEF h
    <3> QED
      BY <1>2, <1>4, <1>5
  <2>3. beside' \in [Mail!Id -> SUBSET Mail!Id]
    BY <1>1, <1>8 DEF MailInv, Mail!TypeOK, Mail!Written
  <2> QED
    BY <1>1, <2>2, <2>3 DEF MailInv, Mail!TypeOK, Handlers
<1>10. TellingOnce'
  <2>1. \A n \in Mail!Id : ToTell(n)' => ToTell(n)
    BY <1>1, <1>6 DEF ToTell, Mail!Telling, Mail!Id
  <2> QED
    BY <1>1, <1>6, <2>1 DEF MailInv, TellingOnce, Mail!Stored, Mail!Id
<1>11. SeenBeside'
  <2>1. \A n \in Mail!Id : Live(n)' => Live(n) \/ n = new
    BY <1>1, <1>6 DEF Live, Mail!InHand, Mail!Telling, Mail!Written, Mail!Stored
  <2>2. \A n \in Mail!Id : n # new => beside'[n] = beside[n]
    BY <1>1 DEF MailInv, Mail!TypeOK
  <2>3. ASSUME NEW m \in Mail!Id, Live(m), m # new, Plain(new), Plain(m),
               Mail!SameTopic(m, new)
        PROVE  m \in beside'[new]
    <3>1. beside'[new] = Mail!Written \cup Mail!InHand
      BY <1>1, <1>7 DEF MailInv, Mail!TypeOK
    <3>2. ~(m \in Mail!Stored /\ ~notice[m].read)
      BY <1>1, <1>7, <2>3 DEF Mail!Duplicate, Plain, Mail!SameTopic
    <3> QED
      BY <2>3, <3>1, <3>2 DEF Live
  <2>4. \A m, n : Mail!SameTopic(m, n) <=> Mail!SameTopic(n, m)
    BY DEF Mail!SameTopic
  <2> SUFFICES ASSUME NEW m \in Mail!Id, NEW n \in Mail!Id, Live(m)', Live(n)',
                      Mail!SameTopic(m, n), Plain(m), Plain(n)
               PROVE  m \in beside'[n] \/ n \in beside'[m]
    BY DEF SeenBeside, Plain, Mail!SameTopic
  <2>5. CASE m # new /\ n # new
    BY <2>1, <2>2, <2>5 DEF MailInv, SeenBeside
  <2>6. CASE n = new
    BY <2>1, <2>3, <2>6 DEF Mail!SameTopic
  <2>7. CASE m = new
    BY <2>1, <2>3, <2>4, <2>7 DEF Mail!SameTopic
  <2> QED
    BY <2>5, <2>6, <2>7
<1> QED
  BY <1>1, <1>9, <1>10, <1>11, AccountKept DEF MailInv

LEMMA WriteKeeps ==
  ASSUME Mail!ConstantsOK, MailInv, NEW e \in Events, Mail!Write(e)
  PROVE  MailInv'
<1> DEFINE n == <<e, event[e].now>>
<1>1. /\ event[e].stage = "telling" /\ event[e].now # Nobody
      /\ UNCHANGED <<prefs, digest, beside, lost>>
  BY DEF Mail!Write, Mail!Telling
<1>2. PICK delivery \in {"sent", "failed", "skipped"} :
        /\ notice' = [notice EXCEPT ![n] =
             [state |-> "written", channel |-> event[e].channel,
              emailSent |-> delivery = "sent", digestSent |-> FALSE, read |-> FALSE]]
        /\ mailed' = [mailed EXCEPT ![n] = IF delivery = "sent" THEN @ + 1 ELSE @]
  BY DEF Mail!Write, Mail!Deliveries
<1> DEFINE row == [state |-> "written", channel |-> event[e].channel,
                   emailSent |-> delivery = "sent", digestSent |-> FALSE, read |-> FALSE]
           h == [event[e] EXCEPT !.todo = event[e].todo, !.now = Nobody,
                                 !.channel = "none", !.mail = "no"]
<1>3. event \in [Events -> Handlers]
  BY DEF MailInv, Mail!TypeOK, Handlers
<1>4. /\ h \in Handlers /\ h.stage = "telling"
      /\ h.todo = event[e].todo /\ h.now = Nobody
  <2>1. event[e] \in Handlers /\ event[e].todo \in SUBSET Users
    BY <1>3 DEF Handlers
  <2> QED
    BY <1>1, <2>1 DEF Handlers
<1>5. event' = [event EXCEPT ![e] = h]
  <2>1. h = [event[e] EXCEPT !.now = Nobody, !.channel = "none", !.mail = "no"]
    BY <1>3 DEF Handlers
  <2>2. event' = [event EXCEPT ![e] =
                    [event[e] EXCEPT !.now = Nobody, !.channel = "none", !.mail = "no"]]
    BY DEF Mail!Write
  <2> QED
    BY <2>1, <2>2
<1>6. /\ event' \in [Events -> Handlers]
      /\ event'[e].stage = "telling" /\ event'[e].now = Nobody
      /\ event'[e].todo = event[e].todo
      /\ \A f \in Events : f # e => event'[f] = event[f]
  <2> HIDE DEF h
  <2> QED
    BY <1>3, <1>4, <1>5
<1>7. n \in Mail!Id /\ n[1] = e /\ n[2] = event[e].now /\ n[2] \in Users
  BY <1>1, <1>3 DEF Handlers, Mail!Id
<1>8. notice[n] = Mail!NoRow /\ mailed[n] = 0
  BY <1>1, <1>7 DEF MailInv, TellingOnce, ToTell, Mail!Telling
<1>9. /\ notice' \in [Mail!Id -> Mail!Row \cup {Mail!NoRow}] /\ mailed' \in [Mail!Id -> Nat]
      /\ notice'[n] = row /\ mailed'[n] = IF delivery = "sent" THEN 1 ELSE 0
      /\ \A m \in Mail!Id : m # n => notice'[m] = notice[m] /\ mailed'[m] = mailed[m]
  <2>1. event[e].channel \in Mail!Channels
    BY <1>1, <1>3 DEF Handlers, MailInv, TellingOnce
  <2>2. row \in Mail!Row
    BY <2>1 DEF Mail!Row
  <2>3. notice' = [notice EXCEPT ![n] = row]
    BY <1>2
  <2>4. mailed' = [mailed EXCEPT ![n] = IF delivery = "sent" THEN 1 ELSE 0]
    BY <1>2, <1>7, <1>8 DEF MailInv, Mail!TypeOK
  <2> HIDE DEF row, n
  <2> QED
    BY <1>7, <2>2, <2>3, <2>4 DEF MailInv, Mail!TypeOK
<1>10. Mail!TypeOK'
  BY <1>1, <1>6, <1>9 DEF MailInv, Mail!TypeOK, Handlers
<1>11. TellingOnce'
  <2>1. \A m \in Mail!Id : ToTell(m)' => ToTell(m) /\ m # n
    BY <1>1, <1>6, <1>7 DEF ToTell, Mail!Telling, Mail!Id, MailInv, TellingOnce,
       Mail!ConstantsOK
  <2>2. \A m \in Mail!Id : m \in Mail!Stored' => m \in Mail!Stored /\ m[1] # e
    BY <1>1, <1>9 DEF Mail!Stored, MailInv, TellingOnce
  <2>3. \A f \in Events : /\ event'[f].now \notin event'[f].todo
                          /\ event'[f].now # Nobody => event'[f].channel # "none"
    BY <1>1, <1>3, <1>6 DEF MailInv, TellingOnce, Handlers, Mail!ConstantsOK
  <2> QED
    BY <1>6, <1>9, <2>1, <2>2, <2>3 DEF MailInv, TellingOnce, Mail!Stored, Mail!Id
<1>12. RowsCounted'
  <2> SUFFICES ASSUME NEW m \in Mail!Id, notice'[m] # Mail!NoRow PROVE Counted(m)'
    BY DEF RowsCounted
  <2>1. CASE m = n
    <3>1. /\ row.emailSent <=> delivery = "sent"
          /\ row.digestSent = FALSE
      OBVIOUS
    <3>2. lost \in Nat
      BY DEF MailInv, Mail!TypeOK
    <3> HIDE DEF row
    <3> QED
      BY <1>1, <1>9, <2>1, <3>1, <3>2 DEF Counted
  <2>2. CASE m # n
    BY <1>1, <1>9, <2>2 DEF Counted, MailInv, RowsCounted, Mail!Locked
  <2> QED
    BY <2>1, <2>2
<1>13. DigestHonest'
  <2>1. digest # Mail!NoDigest => n \notin digest.listed /\ digest.listed \subseteq Mail!Id
    BY <1>8 DEF MailInv, DigestHonest, Mail!Stored, Mail!NoRow
  <2> QED
    BY <1>1, <1>9, <2>1 DEF MailInv, DigestHonest, Mail!Stored
<1>14. SeenBeside'
  <2>1. n \in Mail!InHand
    BY <1>1 DEF Mail!InHand, Mail!Telling
  <2>2. \A m \in Mail!Id : Live(m)' => Live(m)
    BY <1>6, <1>9, <2>1 DEF Live, Mail!InHand, Mail!Telling, Mail!Written, Mail!Stored
  <2> QED
    BY <1>1, <2>2 DEF MailInv, SeenBeside
<1> QED
  BY <1>10, <1>11, <1>12, <1>13, <1>14 DEF MailInv


\* The handler of an event ends: its rows are stored, or none is left.
LEMMA EndKeeps ==
  ASSUME Mail!ConstantsOK, MailInv, NEW e \in Events,
         Mail!CommitEvent(e) \/ Mail!FailEvent(e)
  PROVE  MailInv'
<1>1. /\ event[e].stage = "telling" /\ event' = [event EXCEPT ![e] = Mail!Handler("ended", {})]
      /\ UNCHANGED <<prefs, digest, mailed, beside, lost>>
  BY DEF Mail!CommitEvent, Mail!FailEvent, Mail!Telling, Mail!Ended
<1>2. /\ event'[e].stage = "ended" /\ event'[e].todo = {} /\ event'[e].now = Nobody
      /\ \A f \in Events : f # e => event'[f] = event[f]
  BY <1>1 DEF MailInv, Mail!TypeOK, Mail!Handler
<1>3. /\ notice' \in [Mail!Id -> Mail!Row \cup {Mail!NoRow}]
      /\ \A n \in Mail!Id : n[1] # e => notice'[n] = notice[n]
      /\ \A n \in Mail!Id : n[1] = e =>
           \/ notice'[n] = Mail!NoRow
           \/ /\ notice[n].state = "written" /\ notice'[n].state = "stored"
              /\ notice'[n].emailSent = notice[n].emailSent
              /\ notice'[n].digestSent = notice[n].digestSent
  <2>1. CASE Mail!FailEvent(e)
    BY <2>1 DEF Mail!FailEvent, MailInv, Mail!TypeOK
  <2>2. CASE Mail!CommitEvent(e)
    <3>1. notice' = [n \in Mail!Id |->
            IF n[1] = e /\ n \in Mail!Written THEN [notice[n] EXCEPT !.state = "stored"]
            ELSE notice[n]]
      BY <2>2 DEF Mail!CommitEvent
    <3>2. ASSUME NEW n \in Mail!Id, n[1] = e
          PROVE  \/ notice'[n] = Mail!NoRow
                 \/ /\ notice[n].state = "written" /\ notice'[n].state = "stored"
                    /\ notice'[n] \in Mail!Row
                    /\ notice'[n].emailSent = notice[n].emailSent
                    /\ notice'[n].digestSent = notice[n].digestSent
      <4>1. notice[n] \in Mail!Row \cup {Mail!NoRow} /\ n \notin Mail!Stored
        BY <1>1, <3>2 DEF MailInv, TellingOnce, Mail!TypeOK
      <4>2. CASE notice[n].state = "written"
        <5>1. notice[n] \in Mail!Row /\ notice'[n] = [notice[n] EXCEPT !.state = "stored"]
          BY <3>1, <3>2, <4>1, <4>2 DEF Mail!Written, Mail!NoRow
        <5> QED
          BY <4>2, <5>1 DEF Mail!Row
      <4>3. CASE notice[n].state # "written"
        <5>1. notice[n] = Mail!NoRow
          BY <4>1, <4>3 DEF Mail!Row, Mail!Stored
        <5> QED
          BY <3>1, <4>3, <5>1 DEF Mail!Written
      <4> QED
        BY <4>2, <4>3
    <3>3. \A n \in Mail!Id : n[1] # e => notice'[n] = notice[n]
      BY <3>1
    <3>4. \A n \in Mail!Id : notice'[n] \in Mail!Row \cup {Mail!NoRow}
      BY <3>2, <3>3 DEF MailInv, Mail!TypeOK
    <3> QED
      BY <3>1, <3>2, <3>3, <3>4
  <2> QED
    BY <2>1, <2>2
<1>4. Mail!TypeOK'
  BY <1>1, <1>3 DEF MailInv, Mail!TypeOK, Mail!Handler
<1>5. TellingOnce'
  <2>1. \A n \in Mail!Id : ToTell(n)' => ToTell(n) /\ n[1] # e
    BY <1>2 DEF ToTell, Mail!Telling, Mail!Id, Mail!ConstantsOK
  <2>2. \A n \in Mail!Stored' : event'[n[1]].stage = "ended"
    BY <1>2, <1>3 DEF Mail!Stored, Mail!Id, MailInv, TellingOnce
  <2> QED
    BY <1>1, <1>2, <1>3, <2>1, <2>2 DEF MailInv, TellingOnce, Mail!Id
<1>6. \A n \in Mail!Id : n[1] = e => n \notin Mail!Stored
  BY <1>1 DEF MailInv, TellingOnce
<1>7. RowsCounted'
  <2> SUFFICES ASSUME NEW n \in Mail!Id, notice'[n] # Mail!NoRow PROVE Counted(n)'
    BY DEF RowsCounted
  <2>1. CASE n[1] # e
    BY <1>1, <1>3, <2>1 DEF Counted, MailInv, RowsCounted, Mail!Locked
  <2>2. CASE n[1] = e
    <3>1. /\ notice[n].state = "written" /\ notice'[n].state = "stored"
          /\ notice'[n].emailSent = notice[n].emailSent
          /\ notice'[n].digestSent = notice[n].digestSent
      BY <1>3, <2>2
    <3>2. Counted(n)
      BY <3>1 DEF MailInv, RowsCounted, Mail!NoRow
    <3> QED
      BY <1>1, <3>1, <3>2 DEF Counted, Mail!Locked
  <2> QED
    BY <2>1, <2>2
<1>8. DigestHonest'
  BY <1>1, <1>3, <1>6 DEF MailInv, DigestHonest, Mail!Stored
<1>9. SeenBeside'
  <2>1. \A n \in Mail!Id : Live(n)' => Live(n)
    BY <1>2, <1>3 DEF Live, Mail!InHand, Mail!Telling, Mail!Written, Mail!Stored,
       Mail!NoRow
  <2> QED
    BY <1>1, <2>1 DEF MailInv, SeenBeside
<1> QED
  BY <1>4, <1>5, <1>7, <1>8, <1>9 DEF MailInv

\* A user reads a notice.
LEMMA ReadKeeps ==
  ASSUME MailInv, NEW r \in Mail!Id, Mail!MarkRead(r)
  PROVE  MailInv'
<1>1. /\ r \in Mail!Stored /\ ~Mail!Locked(r)
      /\ notice' = [notice EXCEPT ![r].read = TRUE]
      /\ UNCHANGED <<event, prefs, digest, mailed, beside, lost>>
  BY DEF Mail!MarkRead
<1>2. notice[r] \in Mail!Row
  BY <1>1 DEF MailInv, Mail!TypeOK, Mail!Stored, Mail!NoRow
<1>3. /\ notice' \in [Mail!Id -> Mail!Row \cup {Mail!NoRow}]
      /\ \A n \in Mail!Id : n # r => notice'[n] = notice[n]
      /\ notice'[r].state = "stored"
      /\ notice'[r].emailSent = notice[r].emailSent
      /\ notice'[r].digestSent = notice[r].digestSent
      /\ notice'[r].read = TRUE
  <2>1. [notice[r] EXCEPT !.read = TRUE] \in Mail!Row
    BY <1>2 DEF Mail!Row
  <2> QED
    BY <1>1, <1>2, <2>1 DEF MailInv, Mail!TypeOK, Mail!Row, Mail!Stored
<1>4. Mail!TypeOK'
  BY <1>1, <1>3 DEF MailInv, Mail!TypeOK
<1>5. TellingOnce'
  <2>1. \A n \in Mail!Id : ToTell(n)' => ToTell(n) /\ n # r
    BY <1>1, <1>2 DEF ToTell, Mail!Telling, MailInv, TellingOnce, Mail!NoRow, Mail!Stored
  <2>2. \A n \in Mail!Id : n \in Mail!Stored' => n \in Mail!Stored
    BY <1>1, <1>3 DEF Mail!Stored
  <2> QED
    BY <1>1, <1>3, <2>1, <2>2 DEF MailInv, TellingOnce, Mail!Stored
<1>6. RowsCounted'
  <2> SUFFICES ASSUME NEW n \in Mail!Id, notice'[n] # Mail!NoRow PROVE Counted(n)'
    BY DEF RowsCounted
  <2>1. CASE n # r
    BY <1>1, <1>3, <2>1 DEF Counted, MailInv, RowsCounted, Mail!Locked
  <2>2. CASE n = r
    <3>1. Counted(r)
      BY <1>1 DEF MailInv, RowsCounted, Mail!Stored, Mail!NoRow
    <3> QED
      BY <1>1, <1>3, <2>2, <3>1 DEF Counted, Mail!Locked
  <2> QED
    BY <2>1, <2>2
<1>7. DigestHonest'
  BY <1>1, <1>3 DEF MailInv, DigestHonest, Mail!Stored
<1>8. SeenBeside'
  <2>1. \A n \in Mail!Id : Live(n)' => Live(n)
    BY <1>1, <1>3 DEF Live, Mail!InHand, Mail!Telling, Mail!Written, Mail!Stored
  <2> QED
    BY <1>1, <2>1 DEF MailInv, SeenBeside
<1> QED
  BY <1>4, <1>5, <1>6, <1>7, <1>8 DEF MailInv

LEMMA PreferencesKeep ==
  ASSUME MailInv, NEW u \in Users, Mail!UpdatePreferences(u)
  PROVE  MailInv'
<1>1. UNCHANGED <<event, notice, digest, mailed, beside, lost>>
  BY DEF Mail!UpdatePreferences
<1>2. PICK f \in DOMAIN prefs[u] : prefs' = [prefs EXCEPT ![u][f] = ~@]
  BY DEF Mail!UpdatePreferences
<1>3. prefs' \in [Users -> Mail!Prefs]
  <2>1. prefs[u] \in Mail!Prefs
    BY DEF MailInv, Mail!TypeOK
  <2> DEFINE new == [prefs[u] EXCEPT ![f] = ~prefs[u][f]]
  <2>2. f \in {"email", "inApp", "digest"}
    BY <1>2, <2>1 DEF Mail!Prefs
  <2>3. new \in Mail!Prefs
    BY <2>1, <2>2 DEF Mail!Prefs
  <2>4. prefs' = [prefs EXCEPT ![u] = new]
    BY <1>2
  <2> HIDE DEF new
  <2> QED
    BY <2>3, <2>4 DEF MailInv, Mail!TypeOK
<1>4. Mail!TypeOK'
  BY <1>1, <1>3 DEF MailInv, Mail!TypeOK
<1>5. TellingOnce'
  BY <1>1 DEF MailInv, TellingOnce, ToTell, Mail!Telling, Mail!Stored
<1>6. SeenBeside'
  BY <1>1 DEF MailInv, SeenBeside, Live, Mail!InHand, Mail!Telling, Mail!Written, Mail!Stored
<1> QED
  BY <1>1, <1>4, <1>5, <1>6, AccountKept DEF MailInv

\* What a digest does to neither rows nor events leaves what was told alone.
LEMMA TellingKept ==
  ASSUME MailInv, UNCHANGED <<event, notice, beside>>
  PROVE  SeenBeside' /\ (mailed' = mailed => TellingOnce')
<1>1. SeenBeside'
  BY DEF MailInv, SeenBeside, Live, Mail!InHand, Mail!Telling, Mail!Written, Mail!Stored
<1>2. mailed' = mailed => TellingOnce'
  BY DEF MailInv, TellingOnce, ToTell, Mail!Telling, Mail!Stored
<1> QED
  BY <1>1, <1>2

LEMMA StartKeeps ==
  ASSUME MailInv, Mail!StartDigest
  PROVE  MailInv'
<1>1. PICK due \in SUBSET Users :
        /\ digest = Mail!NoDigest
        /\ digest' = [stage |-> "sending", listed |-> Mail!Pending, todo |-> due, marked |-> {}]
        /\ UNCHANGED <<event, notice, prefs, mailed, beside, lost>>
  BY DEF Mail!StartDigest
<1>2. Mail!TypeOK'
  <2>1. digest' \in Mail!Digest
    BY <1>1 DEF Mail!Digest, Mail!Pending, Mail!Stored
  <2> QED
    BY <1>1, <2>1 DEF MailInv, Mail!TypeOK
<1>3. /\ digest'.listed = Mail!Pending /\ digest'.marked = {}
      /\ digest' # Mail!NoDigest
  BY <1>1 DEF Mail!NoDigest
<1>4. RowsCounted'
  BY <1>1, <1>3 DEF MailInv, RowsCounted, Counted, Mail!Locked
<1>5. DigestHonest'
  BY <1>1, <1>3 DEF DigestHonest, Mail!Pending, Mail!Stored
<1> QED
  BY <1>1, <1>2, <1>4, <1>5, TellingKept DEF MailInv

LEMMA SendKeeps ==
  ASSUME MailInv, NEW u \in Users, Mail!SendDigest(u)
  PROVE  MailInv'
<1>1. /\ digest # Mail!NoDigest /\ u \in digest.todo
      /\ UNCHANGED <<event, notice, prefs, beside, lost>>
  BY DEF Mail!SendDigest
<1>2. digest \in Mail!Digest
  BY <1>1 DEF MailInv, Mail!TypeOK
<1>3. PICK delivery \in Mail!Deliveries :
        /\ mailed' = [n \in Mail!Id |-> IF delivery = "sent" /\ n \in Mail!PendingOf(u)
                                       THEN mailed[n] + 1 ELSE mailed[n]]
        /\ digest' = [digest EXCEPT
             !.todo = @ \ {u},
             !.marked = @ \cup Mail!NowMarked(delivery, Mail!PendingOf(u))]
  BY DEF Mail!SendDigest
<1> DEFINE now == Mail!NowMarked(delivery, Mail!PendingOf(u))
<1>4. /\ now \subseteq Mail!PendingOf(u)
      /\ delivery = "sent" => now = Mail!PendingOf(u)
      /\ EmailEnabled /\ now # {} => delivery = "sent"
  BY DEF Mail!NowMarked, Mail!MarkedUnlessFailed, Mail!Deliveries
<1>5. /\ Mail!PendingOf(u) \subseteq digest.listed /\ digest.listed \subseteq Mail!Id
      /\ \A n \in Mail!PendingOf(u) : n[2] = u
  BY <1>2 DEF Mail!PendingOf, Mail!Digest
<1>6. /\ digest' \in Mail!Digest /\ digest' # Mail!NoDigest
      /\ digest'.listed = digest.listed /\ digest'.todo = digest.todo \ {u}
      /\ digest'.marked = digest.marked \cup now
  <2> DEFINE new == [digest EXCEPT !.todo = digest.todo \ {u},
                                   !.marked = digest.marked \cup now]
  <2>1. digest' = new
    BY <1>3
  <2>2. now \subseteq Mail!Id
    BY <1>4, <1>5
  <2> HIDE DEF now
  <2>3. new \in Mail!Digest /\ new # Mail!NoDigest
    BY <1>2, <2>2 DEF Mail!Digest, Mail!NoDigest
  <2>4. /\ new.listed = digest.listed /\ new.todo = digest.todo \ {u}
        /\ new.marked = digest.marked \cup now
    BY <1>2 DEF Mail!Digest
  <2> HIDE DEF new
  <2> QED
    BY <2>1, <2>3, <2>4
<1> HIDE DEF now
<1>7. /\ mailed' \in [Mail!Id -> Nat]
      /\ \A n \in Mail!Id : n \notin Mail!PendingOf(u) => mailed'[n] = mailed[n]
      /\ \A n \in Mail!PendingOf(u) :
           mailed'[n] = IF delivery = "sent" THEN mailed[n] + 1 ELSE mailed[n]
  BY <1>3, <1>5 DEF MailInv, Mail!TypeOK
<1>8. Mail!TypeOK'
  BY <1>1, <1>6, <1>7 DEF MailInv, Mail!TypeOK
<1>9. \A n \in Mail!PendingOf(u) :
        /\ n \in Mail!Id /\ n \in Mail!Stored /\ n \notin digest.marked
        /\ ~notice[n].emailSent /\ ~notice[n].digestSent
  BY <1>1, <1>5 DEF MailInv, DigestHonest
<1>10. TellingOnce'
  <2>1. \A n \in Mail!Id : ToTell(n)' => ToTell(n) /\ n \notin Mail!PendingOf(u)
    BY <1>1, <1>9 DEF ToTell, Mail!Telling, MailInv, TellingOnce, Mail!Stored, Mail!NoRow
  <2> QED
    BY <1>1, <1>7, <2>1 DEF MailInv, TellingOnce, Mail!Stored
<1>11. RowsCounted'
  <2> SUFFICES ASSUME NEW n \in Mail!Id, notice'[n] # Mail!NoRow PROVE Counted(n)'
    BY DEF RowsCounted
  <2>1. Counted(n)
    BY <1>1 DEF MailInv, RowsCounted
  <2>2. mailed[n] \in Nat /\ lost \in Nat
    BY DEF MailInv, Mail!TypeOK
  <2>3. CASE n \notin Mail!PendingOf(u)
    <3>1. Mail!Locked(n)' <=> Mail!Locked(n)
      BY <1>1, <1>4, <1>6, <2>3 DEF Mail!Locked
    <3> QED
      BY <1>1, <1>7, <2>1, <2>3, <3>1 DEF Counted
  <2>4. CASE n \in Mail!PendingOf(u)
    <3>1. mailed[n] <= lost
      BY <1>9, <2>1, <2>2, <2>4 DEF Counted, Mail!Locked
    <3>2. delivery = "sent" => Mail!Locked(n)'
      BY <1>4, <1>6, <2>4 DEF Mail!Locked
    <3> QED
      BY <1>1, <1>7, <1>9, <2>2, <2>4, <3>1, <3>2 DEF Counted, Mail!Stored
  <2> QED
    BY <2>3, <2>4
<1>12. DigestHonest'
  <2>1. \A n \in digest.marked : n \notin Mail!PendingOf(u) /\ n \in Mail!Id
    BY <1>1, <1>5, <1>9 DEF MailInv, DigestHonest
  <2>2. ASSUME NEW n \in digest'.marked
        PROVE  n[2] \notin digest'.todo /\ (EmailEnabled => mailed'[n] > 0)
    <3>1. CASE n \in digest.marked
      BY <1>1, <1>6, <1>7, <2>1, <3>1 DEF MailInv, DigestHonest
    <3>2. CASE n \in now
      <4>1. n \in Mail!PendingOf(u) /\ mailed[n] \in Nat
        BY <1>4, <1>9, <3>2 DEF MailInv, Mail!TypeOK
      <4> QED
        BY <1>4, <1>5, <1>6, <1>7, <3>2, <4>1
    <3> QED
      BY <1>6, <3>1, <3>2
  <2>3. digest'.marked \subseteq digest'.listed
    BY <1>1, <1>4, <1>5, <1>6 DEF MailInv, DigestHonest
  <2> QED
    BY <1>1, <1>6, <2>2, <2>3 DEF MailInv, DigestHonest, Mail!Stored
<1> QED
  BY <1>1, <1>8, <1>10, <1>11, <1>12, TellingKept DEF MailInv

LEMMA CommitDigestKeeps ==
  ASSUME MailInv, Mail!CommitDigest
  PROVE  MailInv'
<1>1. /\ digest # Mail!NoDigest /\ digest' = Mail!NoDigest
      /\ notice' = [n \in Mail!Id |->
           IF n \in digest.marked THEN [notice[n] EXCEPT !.digestSent = TRUE] ELSE notice[n]]
      /\ UNCHANGED <<event, prefs, mailed, beside, lost>>
  BY DEF Mail!CommitDigest
<1>2. \A n \in digest.marked :
        /\ n \in Mail!Id /\ n \in Mail!Stored /\ notice[n] \in Mail!Row
        /\ ~notice[n].emailSent /\ (EmailEnabled => mailed[n] > 0)
  BY <1>1 DEF MailInv, DigestHonest, Mail!TypeOK, Mail!Stored, Mail!NoRow
<1>3. \A n \in Mail!Id : n \notin digest.marked => notice'[n] = notice[n]
  BY <1>1
<1>4. \A n \in digest.marked :
        /\ notice'[n] \in Mail!Row /\ notice'[n].state = "stored"
        /\ notice'[n].emailSent = notice[n].emailSent /\ notice'[n].digestSent = TRUE
        /\ notice'[n].read = notice[n].read
  BY <1>1, <1>2 DEF Mail!Row, Mail!Stored
<1>5. notice' \in [Mail!Id -> Mail!Row \cup {Mail!NoRow}]
  BY <1>1, <1>3, <1>4 DEF MailInv, Mail!TypeOK
<1>6. Mail!TypeOK'
  BY <1>1, <1>5 DEF MailInv, Mail!TypeOK
<1>7. Mail!Stored' = Mail!Stored /\ Mail!Written' = Mail!Written
  BY <1>2, <1>3, <1>4 DEF Mail!Stored, Mail!Written
<1>8. TellingOnce'
  <2>1. \A n \in Mail!Id : ToTell(n)' => ToTell(n) /\ n \notin digest.marked
    BY <1>1, <1>2 DEF ToTell, Mail!Telling, MailInv, TellingOnce, Mail!NoRow, Mail!Stored
  <2> QED
    BY <1>1, <1>3, <1>7, <2>1 DEF MailInv, TellingOnce
<1>9. RowsCounted'
  <2> SUFFICES ASSUME NEW n \in Mail!Id, notice'[n] # Mail!NoRow PROVE Counted(n)'
    BY DEF RowsCounted
  <2>1. CASE n \notin digest.marked
    BY <1>1, <1>3, <2>1 DEF Counted, MailInv, RowsCounted, Mail!Locked
  <2>2. CASE n \in digest.marked
    <3>1. Counted(n)
      BY <1>2, <2>2 DEF MailInv, RowsCounted, Mail!Stored, Mail!NoRow
    <3>2. mailed[n] <= lost + 1
      BY <1>2, <2>2, <3>1 DEF Counted, MailInv, Mail!TypeOK
    <3> QED
      BY <1>1, <1>2, <1>4, <2>2, <3>2 DEF Counted
  <2> QED
    BY <2>1, <2>2
<1>10. SeenBeside'
  <2>1. \A n \in Mail!Id : Live(n)' => Live(n)
    BY <1>1, <1>3, <1>4, <1>7 DEF Live, Mail!InHand, Mail!Telling
  <2> QED
    BY <1>1, <2>1 DEF MailInv, SeenBeside
<1> QED
  BY <1>1, <1>6, <1>8, <1>9, <1>10 DEF MailInv, DigestHonest

LEMMA LoseKeeps ==
  ASSUME Mail!ConstantsOK, MailInv, Mail!LoseDigest
  PROVE  MailInv'
<1>1. /\ digest # Mail!NoDigest /\ digest' = Mail!NoDigest
      /\ lost < MaxLost /\ lost' = lost + 1
      /\ UNCHANGED <<event, notice, prefs, mailed, beside>>
  BY DEF Mail!LoseDigest
<1>2. Mail!TypeOK'
  BY <1>1 DEF MailInv, Mail!TypeOK, Mail!ConstantsOK
<1>3. RowsCounted'
  <2> SUFFICES ASSUME NEW n \in Mail!Id, notice[n] # Mail!NoRow PROVE Counted(n)'
    BY <1>1 DEF RowsCounted
  <2>1. Counted(n) /\ mailed[n] \in Nat /\ lost \in Nat
    BY DEF MailInv, RowsCounted, Mail!TypeOK
  <2> QED
    BY <1>1, <2>1 DEF Counted, Mail!Locked
<1> QED
  BY <1>1, <1>2, <1>3, TellingKept DEF MailInv, DigestHonest

LEMMA MailNext ==
  ASSUME Mail!ConstantsOK
  PROVE  MailInv /\ [Mail!Next]_(Mail!vars) => MailInv'
<1> SUFFICES ASSUME MailInv, [Mail!Next]_(Mail!vars) PROVE MailInv'
  OBVIOUS
<1>1. CASE UNCHANGED Mail!vars
  <2>1. UNCHANGED <<event, notice, prefs, digest, mailed, beside, lost>>
    BY <1>1 DEF Mail!vars
  <2>2. Mail!TypeOK'
    BY <2>1 DEF MailInv, Mail!TypeOK
  <2> QED
    BY <2>1, <2>2, AccountKept, TellingKept DEF MailInv
<1> QED
  BY <1>1, PublishKeeps, SkipKeeps, JudgeKeeps, WriteKeeps, EndKeeps, ReadKeeps,
     PreferencesKeep, StartKeeps, SendKeeps, CommitDigestKeeps, LoseKeeps
  DEF Mail!Next

LEMMA MailCounts == ASSUME MailInv PROVE Mail!MailAccounted
<1>1. ASSUME NEW n \in Mail!Stored
      PROVE  /\ notice[n].emailSent \/ (EmailEnabled /\ notice[n].digestSent) => mailed[n] > 0
             /\ mailed[n] <= 1 + lost
  <2>1. Counted(n)
    BY DEF MailInv, RowsCounted, Mail!Stored, Mail!NoRow
  <2>2. mailed[n] \in Nat /\ lost \in Nat
    BY DEF MailInv, Mail!TypeOK, Mail!Stored
  <2> QED
    BY <2>1, <2>2 DEF Counted
<1>2. ASSUME NEW m \in Mail!Stored, NEW n \in Mail!Stored, Mail!SameTopic(m, n),
             Severity[m[1]] # "important", Severity[n[1]] # "important",
             ~notice[m].read, ~notice[n].read
      PROVE  m \in beside[n] \/ n \in beside[m]
  BY <1>2 DEF MailInv, SeenBeside, Live, Plain, Mail!Stored
<1> QED
  BY <1>1, <1>2 DEF Mail!MailAccounted

-----------------------------------------------------------------------------
(***************************************************************************)
(* AssignmentSla.  What has been told since the days became quiet is what  *)
(* the checks of those days tell, up to the last day that was checked.     *)
(***************************************************************************)
LastCheck == IF checked THEN day ELSE day - 1

Open == ~Sla!Completed /\ assignment.due # Sla!NoDate

\* Who has heard by the last check; whoever heard, the assignment is open, the
\* admins' day has come, and a backup is called in only by a window shorter than that.
HeardInTime ==
  /\ Open /\ quiet <= assignment.due =>
       /\ LastCheck >= assignment.due => Sla!Heard("collector")
       /\ LastCheck >= assignment.due + 1 => Sla!Heard("managers")
       /\ LastCheck >= assignment.due + Sla!Window /\ Sla!Window < 7 => Sla!Heard("backup")
       /\ LastCheck >= assignment.due + 7 => Sla!Heard("admins")
HeardForReason ==
  /\ \A who \in Sla!Recipients : Sla!Heard(who) => Open
  /\ Sla!Heard("admins") => LastCheck >= assignment.due + 7
  /\ Sla!Heard("backup") => Sla!Window < 7

\* Every quiet day on which the running project had to be mentioned, it was.
RemindersSent ==
  running => \A k \in {7, 3, 1} :
    quiet <= ProjectDue - k /\ ProjectDue - k < day => k \in reminded

SlaInv ==
  /\ Sla!TypeOK /\ quiet <= day
  /\ HeardInTime /\ HeardForReason /\ RemindersSent

LEMMA SlaNumbers ==
  ASSUME Sla!ConstantsOK, Sla!TypeOK
  PROVE  /\ day \in Nat /\ quiet \in Nat
         /\ Open => assignment.due \in Nat
         /\ Sla!Window \in Nat /\ Sla!Window >= 1
         /\ Sla!Left = assignment.due - day
<1>1. assignment.after \in Windows /\ assignment.due \in Deadlines \cup {Sla!NoDate}
  BY DEF Sla!TypeOK
<1>2. assignment.after \in Nat
  BY <1>1 DEF Sla!ConstantsOK
<1>3. Open => assignment.due \in Nat
  BY <1>1 DEF Sla!ConstantsOK, Open
<1> QED
  BY <1>2, <1>3 DEF Sla!ConstantsOK, Sla!TypeOK, Sla!Days, Sla!Window, Sla!Left

\* What one check tells of an open assignment, by the days that have passed.
LEMMA CheckTells ==
  ASSUME Sla!ConstantsOK, Sla!TypeOK
  PROVE  /\ Sla!Level \in Sla!Levels /\ Sla!Told(Sla!Level) \subseteq Sla!Recipients
         /\ Sla!Told(Sla!Level) # {} => Open
         /\ Open =>
              /\ day = assignment.due => "collector" \in Sla!Told(Sla!Level)
              /\ day = assignment.due + 1 => "managers" \in Sla!Told(Sla!Level)
              /\ day = assignment.due + Sla!Window /\ Sla!Window < 7
                 => "backup" \in Sla!Told(Sla!Level)
              /\ "backup" \in Sla!Told(Sla!Level) => Sla!Window < 7
              /\ "admins" \in Sla!Told(Sla!Level) <=> day >= assignment.due + 7
<1> DEFINE L == Sla!Level
<1>1. CASE Sla!Completed
  <2>1. L = "completed"
    BY <1>1 DEF Sla!Level
  <2> QED
    BY <1>1, <2>1 DEF Sla!Told, Sla!Levels, Sla!Recipients, Open
<1>2. CASE ~Sla!Completed /\ assignment.due = Sla!NoDate
  <2>1. L = "no_deadline"
    BY <1>2 DEF Sla!Level
  <2> QED
    BY <1>2, <2>1 DEF Sla!Told, Sla!Levels, Sla!Recipients, Open
<1>3. CASE Open
  <2>1. /\ day \in Int /\ assignment.due \in Int /\ Sla!Window \in Int /\ Sla!Window >= 1
        /\ Sla!Left = assignment.due - day
    BY <1>3, SlaNumbers
  <2>2. L = Sla!LevelByDays
    BY <1>3 DEF Open, Sla!Level, Sla!OpenLevel
  <2>3. CASE assignment.due - day > 3
    <3>1. L = "on_track"
      BY <2>1, <2>2, <2>3 DEF Sla!LevelByDays, Sla!WarningWindow
    <3> QED
      BY <1>3, <2>1, <2>3, <3>1 DEF Sla!Told, Sla!Levels, Sla!Recipients
  <2>4. CASE assignment.due - day \in 1..3
    <3>1. L = "warning"
      BY <2>1, <2>2, <2>4 DEF Sla!LevelByDays, Sla!WarningWindow
    <3> QED
      BY <1>3, <2>1, <2>4, <3>1 DEF Sla!Told, Sla!Levels, Sla!Recipients
  <2>5. CASE assignment.due = day
    <3>1. L = "due_today"
      BY <2>1, <2>2, <2>5 DEF Sla!LevelByDays, Sla!WarningWindow
    <3> QED
      BY <1>3, <2>1, <2>5, <3>1 DEF Sla!Told, Sla!Levels, Sla!Recipients
  <2>6. CASE day - assignment.due \in 1..6 /\ day - assignment.due < Sla!Window
    <3>1. L = "overdue"
      BY <2>1, <2>2, <2>6 DEF Sla!LevelByDays, Sla!WarningWindow, Sla!LevelTwo
    <3> QED
      BY <1>3, <2>1, <2>6, <3>1 DEF Sla!Told, Sla!Levels, Sla!Recipients
  <2>7. CASE day - assignment.due \in 1..6 /\ day - assignment.due >= Sla!Window
    <3>1. L = "breach_level_1"
      BY <2>1, <2>2, <2>7 DEF Sla!LevelByDays, Sla!WarningWindow, Sla!LevelTwo
    <3> QED
      BY <1>3, <2>1, <2>7, <3>1 DEF Sla!Told, Sla!Levels, Sla!Recipients
  <2>8. CASE day - assignment.due > 6
    <3>1. L = "breach_level_2"
      BY <2>1, <2>2, <2>8 DEF Sla!LevelByDays, Sla!WarningWindow, Sla!LevelTwo
    <3> QED
      BY <1>3, <2>1, <2>8, <3>1 DEF Sla!Told, Sla!Levels, Sla!Recipients
  <2> QED
    BY <2>1, <2>3, <2>4, <2>5, <2>6, <2>7, <2>8
<1> QED
  BY <1>1, <1>2, <1>3 DEF Open

LEMMA SlaInit == ASSUME Sla!ConstantsOK PROVE Sla!Init => SlaInv
<1> SUFFICES ASSUME Sla!Init PROVE SlaInv
  OBVIOUS
<1>1. Sla!TypeOK
  <2>1. PICK due \in Deadlines \cup {Sla!NoDate}, after \in Windows :
          assignment = [due |-> due, after |-> after, completed |-> FALSE]
    BY DEF Sla!Init
  <2>2. assignment \in [due : Deadlines \cup {Sla!NoDate}, after : Windows,
                       completed : BOOLEAN]
    BY <2>1
  <2>3. 0 \in 0..LastDay /\ 0 \in 0..LastDay + 1
    BY DEF Sla!ConstantsOK
  <2> QED
    BY <2>2, <2>3 DEF Sla!Init, Sla!TypeOK, Sla!Days
<1>2. \A who : ~Sla!Heard(who)
  BY DEF Sla!Init, Sla!Heard
<1>3. LastCheck = -1 /\ day = 0 /\ quiet = 0
  BY DEF Sla!Init, LastCheck
<1>5. Open => assignment.due \in Nat /\ Sla!Window \in Nat
  BY <1>1, SlaNumbers
<1>6. RemindersSent
  BY <1>3 DEF RemindersSent, Sla!ConstantsOK
<1> QED
  BY <1>1, <1>2, <1>3, <1>5, <1>6 DEF SlaInv, HeardInTime, HeardForReason

\* A change, or a day without a check, starts the account afresh.
LEMMA AfreshKeeps ==
  ASSUME Sla!ConstantsOK, SlaInv, Sla!StartAfresh(day'), Sla!TypeOK'
  PROVE  SlaInv'
<1>1. \A who : ~Sla!Heard(who)'
  BY DEF Sla!StartAfresh, Sla!Heard
<1>2. LastCheck' = day' - 1 /\ quiet' = day' /\ day' \in Nat
  BY DEF Sla!StartAfresh, LastCheck, Sla!TypeOK, Sla!Days
<1>3. Open' => assignment'.due \in Nat /\ Sla!Window' \in Nat
  <2>1. assignment'.after \in Windows /\ assignment'.due \in Deadlines \cup {Sla!NoDate}
    BY DEF Sla!TypeOK
  <2> QED
    BY <2>1 DEF Sla!ConstantsOK, Open, Sla!Window
<1>4. RemindersSent'
  BY <1>2 DEF RemindersSent, Sla!ConstantsOK
<1> QED
  BY <1>1, <1>2, <1>3, <1>4 DEF SlaInv, HeardInTime, HeardForReason

LEMMA CheckKeeps ==
  ASSUME Sla!ConstantsOK, SlaInv, Sla!CheckBreaches
  PROVE  SlaInv'
<1>1. /\ UNCHANGED <<day, assignment, point, running, reminded, quiet>>
      /\ LastCheck' = day /\ LastCheck \in {day, day - 1} /\ day \in Nat
      /\ Open' = Open /\ Sla!Window' = Sla!Window
  BY DEF Sla!CheckBreaches, LastCheck, SlaInv, Sla!TypeOK, Sla!Days, Open, Sla!Completed,
     Sla!Matching, Sla!Window
<1>2. \A who \in Sla!Recipients :
        Sla!Heard(who)' <=> Sla!Heard(who) \/ who \in Sla!Told(Sla!Level)
  BY CheckTells DEF Sla!CheckBreaches, Sla!Heard, SlaInv
<1>3. {"collector", "managers", "backup", "admins"} \subseteq Sla!Recipients
  BY DEF Sla!Recipients
<1>4. Sla!TypeOK'
  BY CheckTells DEF SlaInv, Sla!TypeOK, Sla!CheckBreaches
<1>5. Open => assignment.due \in Nat /\ Sla!Window \in Nat /\ Sla!Window >= 1
  BY SlaNumbers DEF SlaInv
<1>6. HeardInTime'
  <2> SUFFICES ASSUME Open, quiet <= assignment.due
      PROVE  /\ day >= assignment.due => Sla!Heard("collector")'
             /\ day >= assignment.due + 1 => Sla!Heard("managers")'
             /\ day >= assignment.due + Sla!Window /\ Sla!Window < 7 => Sla!Heard("backup")'
             /\ day >= assignment.due + 7 => Sla!Heard("admins")'
    BY <1>1 DEF HeardInTime
  <2>1. /\ LastCheck >= assignment.due => Sla!Heard("collector")
        /\ LastCheck >= assignment.due + 1 => Sla!Heard("managers")
        /\ LastCheck >= assignment.due + Sla!Window /\ Sla!Window < 7 => Sla!Heard("backup")
        /\ LastCheck >= assignment.due + 7 => Sla!Heard("admins")
    BY DEF SlaInv, HeardInTime
  <2>2. /\ day = assignment.due => "collector" \in Sla!Told(Sla!Level)
        /\ day = assignment.due + 1 => "managers" \in Sla!Told(Sla!Level)
        /\ day = assignment.due + Sla!Window /\ Sla!Window < 7
           => "backup" \in Sla!Told(Sla!Level)
        /\ "admins" \in Sla!Told(Sla!Level) <=> day >= assignment.due + 7
    BY CheckTells DEF SlaInv
  <2> QED
    BY <1>1, <1>2, <1>3, <1>5, <2>1, <2>2
<1>7. HeardForReason'
  <2>1. Sla!Told(Sla!Level) # {} => Open
    BY CheckTells DEF SlaInv
  <2>2. /\ Open /\ "backup" \in Sla!Told(Sla!Level) => Sla!Window < 7
        /\ Open /\ "admins" \in Sla!Told(Sla!Level) => day >= assignment.due + 7
    BY CheckTells DEF SlaInv
  <2>3. /\ \A who \in Sla!Recipients : Sla!Heard(who) => Open
        /\ Sla!Heard("admins") => LastCheck >= assignment.due + 7
        /\ Sla!Heard("backup") => Sla!Window < 7
    BY DEF SlaInv, HeardForReason
  <2> QED
    BY <1>1, <1>2, <1>3, <1>5, <2>1, <2>2, <2>3 DEF HeardForReason
<1>8. RemindersSent'
  BY <1>1 DEF SlaInv, RemindersSent
<1> QED
  BY <1>1, <1>4, <1>6, <1>7, <1>8 DEF SlaInv

LEMMA SlaNext ==
  ASSUME Sla!ConstantsOK
  PROVE  SlaInv /\ [Sla!Next]_(Sla!vars) => SlaInv'
<1> SUFFICES ASSUME SlaInv, [Sla!Next]_(Sla!vars) PROVE SlaInv'
  OBVIOUS
<1>1. CASE UNCHANGED Sla!vars
  BY <1>1 DEF Sla!vars, SlaInv, Sla!TypeOK, HeardInTime, HeardForReason, RemindersSent,
     LastCheck, Open, Sla!Heard, Sla!Completed, Sla!Matching, Sla!Window
<1>2. CASE Sla!RemindProject
  <2>1. /\ UNCHANGED <<day, assignment, point, running, told, checked, quiet>>
        /\ reminded \subseteq reminded' /\ reminded' \subseteq {7, 3, 1}
    BY <1>2 DEF Sla!RemindProject, Sla!ReminderDays, Sla!OnTheseDays, SlaInv, Sla!TypeOK
  <2>2. Sla!TypeOK' /\ RemindersSent'
    BY <2>1 DEF SlaInv, Sla!TypeOK, RemindersSent
  <2>3. HeardInTime' /\ HeardForReason' /\ quiet' <= day'
    BY <2>1 DEF SlaInv, HeardInTime, HeardForReason, LastCheck, Open, Sla!Heard,
       Sla!Completed, Sla!Matching, Sla!Window
  <2> QED
    BY <2>2, <2>3 DEF SlaInv
<1>3. CASE Sla!NextDay
  <2>1. day \in Nat /\ day' = day + 1 /\ UNCHANGED <<assignment, point, running>>
    BY <1>3 DEF Sla!NextDay, SlaInv, Sla!TypeOK, Sla!Days
  <2>2. Sla!TypeOK'
    <3>1. day' \in Sla!Days
      BY <1>3, <2>1 DEF Sla!NextDay, Sla!Days, Sla!ConstantsOK
    <3>2. /\ told' \subseteq told /\ reminded' \subseteq reminded
          /\ checked' = FALSE /\ quiet' \in {quiet, day'}
      BY <1>3, <2>1 DEF Sla!NextDay, Sla!StartAfresh
    <3>3. quiet' \in 0..LastDay + 1
      BY <3>1, <3>2 DEF SlaInv, Sla!TypeOK, Sla!Days, Sla!ConstantsOK
    <3> QED
      BY <2>1, <3>1, <3>2, <3>3 DEF SlaInv, Sla!TypeOK
  <2>3. CASE Sla!Checked
    <3>1. checked /\ ~checked' /\ UNCHANGED <<told, reminded, quiet>>
      BY <1>3, <2>3 DEF Sla!NextDay, Sla!Checked
    <3>2. LastCheck = day /\ LastCheck' = day
      BY <2>1, <3>1 DEF LastCheck
    <3>3. HeardInTime' /\ HeardForReason'
      BY <2>1, <3>1, <3>2 DEF SlaInv, HeardInTime, HeardForReason, Open, Sla!Heard,
         Sla!Completed, Sla!Matching, Sla!Window
    <3>4. RemindersSent'
      <4> SUFFICES ASSUME running, NEW k \in {7, 3, 1}, quiet <= ProjectDue - k,
                          ProjectDue - k < day + 1
                   PROVE  k \in reminded
        BY <2>1, <3>1 DEF RemindersSent
      <4>1. CASE ProjectDue - k < day
        BY <4>1 DEF SlaInv, RemindersSent
      <4>2. CASE ProjectDue - k = day
        BY <2>1, <2>3, <4>2 DEF Sla!Checked, Sla!ReminderDays, Sla!OnTheseDays, Sla!ConstantsOK
      <4> QED
        BY <2>1, <4>1, <4>2 DEF Sla!ConstantsOK
    <3>5. quiet' <= day'
      BY <2>1, <3>1 DEF SlaInv, Sla!TypeOK, Sla!ConstantsOK
    <3> QED
      BY <2>2, <3>3, <3>4, <3>5 DEF SlaInv
  <2>4. CASE ~Sla!Checked
    <3>1. Sla!StartAfresh(day')
      BY <1>3, <2>1, <2>4 DEF Sla!NextDay
    <3> QED
      BY <2>2, <3>1, AfreshKeeps
  <2> QED
    BY <2>3, <2>4
<1>4. CASE Sla!EditAssignment \/ Sla!MovePoint \/ Sla!MoveProject
  <2>1. UNCHANGED day /\ Sla!StartAfresh(day)
    BY <1>4 DEF Sla!EditAssignment, Sla!MovePoint, Sla!MoveProject
  <2>2. Sla!TypeOK'
    <3>1. /\ told' = {} /\ reminded' = {} /\ checked' = FALSE /\ quiet' \in 0..LastDay + 1
      BY <2>1 DEF SlaInv, Sla!TypeOK, Sla!StartAfresh, Sla!Days, Sla!ConstantsOK
    <3>2. assignment' \in [due : Deadlines \cup {Sla!NoDate}, after : Windows,
                           completed : BOOLEAN]
      BY <1>4 DEF Sla!EditAssignment, Sla!MovePoint, Sla!MoveProject, SlaInv, Sla!TypeOK
    <3>3. point' \in [Matched -> {"absent", "open", "approved"}]
      BY <1>4 DEF Sla!EditAssignment, Sla!MovePoint, Sla!MoveProject, SlaInv, Sla!TypeOK
    <3>4. running' \in BOOLEAN
      BY <1>4 DEF Sla!EditAssignment, Sla!MovePoint, Sla!MoveProject, SlaInv, Sla!TypeOK
    <3> QED
      BY <2>1, <3>1, <3>2, <3>3, <3>4 DEF SlaInv, Sla!TypeOK
  <2> QED
    BY <2>1, <2>2, AfreshKeeps DEF Sla!StartAfresh
<1> QED
  BY <1>1, <1>2, <1>3, <1>4, CheckKeeps DEF Sla!Next

LEMMA SlaKeepsUp == ASSUME Sla!ConstantsOK, SlaInv PROVE Sla!EscalationKeepsUp
<1>1. /\ day \in Nat /\ LastCheck <= day /\ LastCheck \in Int /\ (checked => LastCheck = day)
      /\ Open => assignment.due \in Nat /\ Sla!Window \in Nat /\ Sla!Window >= 1
      /\ Sla!Left = assignment.due - day /\ reminded \subseteq {7, 3, 1}
  BY SlaNumbers DEF SlaInv, Sla!TypeOK, LastCheck
<1>2. Sla!Heard("admins") => Open /\ LastCheck >= assignment.due + 7
  BY DEF SlaInv, HeardForReason, Sla!Recipients
<1>3. Open /\ quiet <= assignment.due =>
        /\ LastCheck >= assignment.due => Sla!Heard("collector")
        /\ LastCheck >= assignment.due + 1 => Sla!Heard("managers")
        /\ LastCheck >= assignment.due + Sla!Window /\ Sla!Window < 7 => Sla!Heard("backup")
        /\ LastCheck >= assignment.due + 7 => Sla!Heard("admins")
  BY DEF SlaInv, HeardInTime
<1>4. Sla!Heard("backup") => Sla!Window < 7
  BY DEF SlaInv, HeardForReason
<1>5. Sla!Heard("admins") => assignment.due # Sla!NoDate /\ -Sla!Left >= Sla!LevelTwo
  BY <1>1, <1>2 DEF Open, Sla!LevelTwo
<1>6. Sla!Heard("admins") /\ quiet <= assignment.due =>
        /\ Sla!Heard("collector") /\ Sla!Heard("managers")
        /\ Sla!Heard("backup") <=> Sla!Window < Sla!LevelTwo
  BY <1>1, <1>2, <1>3, <1>4 DEF Sla!LevelTwo
<1>7. checked /\ ~Sla!Completed /\ assignment.due # Sla!NoDate /\ quiet <= assignment.due
      => (-Sla!Left >= Sla!LevelTwo <=> Sla!Heard("admins"))
  BY <1>1, <1>2, <1>3 DEF Sla!LevelTwo, Open
<1>8. running /\ quiet <= ProjectDue - 7 /\ day >= ProjectDue => reminded = {7, 3, 1}
  <2> SUFFICES ASSUME running, quiet <= ProjectDue - 7, day >= ProjectDue, NEW k \in {7, 3, 1}
               PROVE  k \in reminded
    BY <1>1
  <2>1. quiet <= ProjectDue - k /\ ProjectDue - k < day
    BY <1>1 DEF Sla!ConstantsOK, SlaInv, Sla!TypeOK
  <2> QED
    BY <2>1 DEF SlaInv, RemindersSent
<1> QED
  BY <1>5, <1>6, <1>7, <1>8 DEF Sla!EscalationKeepsUp

-----------------------------------------------------------------------------
(***************************************************************************)
(* The seven together.                                                     *)
(***************************************************************************)
Parts == {"graph", "chains", "setup", "mapping", "views", "mail", "sla"}

Everything ==
  /\ part \in Parts /\ Inv /\ Proved!ChainsInv /\ SetupInv /\ MappingInv
  /\ ViewsInv /\ MailInv /\ SlaInv

LEMMA EverythingInit == Start => Everything
<1> SUFFICES ASSUME Start PROVE Everything
  OBVIOUS
<1>1. /\ Whole \in Nat /\ Chains!ConstantsOK /\ Setup!ConstantsOK
      /\ Mail!ConstantsOK /\ Sla!ConstantsOK
  BY ConstantsAssumption DEF ConstantsFit
<1>2. part \in Parts /\ Init /\ Chains!Init /\ Setup!Init /\ Mapping!Init /\ Views!Init
      /\ Mail!Init /\ Sla!Init
  BY DEF Start, Parts
<1> QED
  BY <1>1, <1>2, InvInit, ChainsInit, SetupInit, MappingInit, ViewsInvInit, MailInit,
     SlaInit
  DEF Everything

LEMMA EverythingNext == Everything /\ [Step]_allVars => Everything'
<1> SUFFICES ASSUME Everything, [Step]_allVars PROVE Everything'
  OBVIOUS
<1>1. /\ Whole \in Nat /\ Chains!ConstantsOK /\ MaxVersions \in Nat
      /\ Setup!ConstantsOK /\ Mail!ConstantsOK /\ Sla!ConstantsOK
  BY ConstantsAssumption DEF ConstantsFit
<1>2. part' = part
  BY DEF Step, allVars
<1>3. Next \/ UNCHANGED vars
  BY DEF Step, allVars, vars
<1>4. Chains!Next \/ UNCHANGED Chains!vars
  BY DEF Step, allVars, Chains!vars
<1>5. Setup!Next \/ UNCHANGED Setup!vars
  BY DEF Step, allVars, setupVars, Setup!vars
<1>6. Mapping!Next \/ UNCHANGED Mapping!vars
  BY DEF Step, allVars, mappingVars, Mapping!vars
<1>7. Views!Next \/ UNCHANGED Views!vars
  BY DEF Step, allVars, viewVars, Views!vars
<1>8. Mail!Next \/ UNCHANGED Mail!vars
  BY DEF Step, allVars, noticeVars, Mail!vars
<1>9. Sla!Next \/ UNCHANGED Sla!vars
  BY DEF Step, allVars, slaVars, Sla!vars
<1>10. Inv'
  BY <1>1, <1>3, InvNext DEF Everything
<1>11. Proved!ChainsInv'
  BY <1>1, <1>4, ChainsNext DEF Everything
<1>12. SetupInv'
  BY <1>1, <1>5, SetupNext DEF Everything
<1>13. MappingInv'
  BY <1>1, <1>6, MappingNext DEF Everything
<1>14. ViewsInv'
  BY <1>7, ViewsInvNext DEF Everything
<1>15. MailInv'
  BY <1>1, <1>8, MailNext DEF Everything
<1>16. SlaInv'
  BY <1>1, <1>9, SlaNext DEF Everything
<1> QED
  BY <1>2, <1>10, <1>11, <1>12, <1>13, <1>14, <1>15, <1>16 DEF Everything

\* The operations of the seven modules leave no malformed row, count or request,
\* however many of them overlap.
THEOREM TypesHold == Composition => []TypesOK
<1>1. Everything => TypesOK
  <2>1. Chains!ConstantsOK
    BY ConstantsAssumption DEF ConstantsFit
  <2> QED
    BY <2>1, ChainsFollow
    DEF Everything, Parts, TypesOK, Inv, SetupInv, MappingInv, ViewsInv, MailInv, SlaInv
<1> QED
  BY <1>1, EverythingInit, EverythingNext, PTL DEF Composition

\* create_ownership: however many creations overlap, no entity is owned beyond 100 %.
THEOREM SharesBounded == Composition => []Within100
<1>1. Everything => Within100
  BY DEF Everything, Inv
<1> QED
  BY <1>1, EverythingInit, EverythingNext, PTL DEF Composition

\* create_ownership: however many creations overlap, no two entities own each other.
THEOREM NeverMutual == Composition => []NoMutualOwnership
<1>1. Everything => NoMutualOwnership
  BY DEF Everything, Inv
<1> QED
  BY <1>1, EverythingInit, EverythingNext, PTL DEF Composition

\* calculate_effective_ownership: over any sequence of links that create_ownership lets
\* through, an entity's effective share is the sum over all chains from the roots, at
\* most the whole, and the whole where it is wholly held by what is wholly held.
THEOREM SharesFollowChains == Composition => []EffectiveFollowsChains
<1>1. Everything => EffectiveFollowsChains
  <2>1. Chains!ConstantsOK
    BY ConstantsAssumption DEF ConstantsFit
  <2> QED
    BY <2>1, ChainsFollow DEF Everything, EffectiveFollowsChains
<1> QED
  BY <1>1, EverythingInit, EverythingNext, PTL DEF Composition

\* add_item, create_assignment, generate_default, update_config: an item is collected by
\* the one assignment of its metric and place, a scope has one active form, and while
\* nothing but the boundary is complained about, a generated form has the fields a new
\* one would have.
THEOREM SetupHolds == Composition => []SetupMeetsAssignments
<1>1. Everything => SetupMeetsAssignments
  BY OneForm, HealthTells DEF Everything, SetupInv, SetupMeetsAssignments
<1> QED
  BY <1>1, EverythingInit, EverythingNext, PTL DEF Composition

\* create_mapping: however many creations of a mapping overlap, its versions have no
\* gap, and the last one alone is current.
THEOREM VersionsCurrent == Composition => []OneCurrentVersion
<1>1. Everything => OneCurrentVersion
  BY DEF Everything, MappingInv, OneCurrentVersion
<1> QED
  BY <1>1, EverythingInit, EverythingNext, PTL DEF Composition

\* notify, _run_digest: a notice recorded as mailed has been mailed, a second time only
\* if a digest lost its commit, whatever is read, lost or sent meanwhile.
\* check_sla_breaches: for any deadline and window, whoever must have heard of an open
\* assignment by now has, and nobody hears of it early.
THEOREM PeopleHear == Composition => []PeopleAreTold
<1>1. Everything => PeopleAreTold
  <2>1. Sla!ConstantsOK
    BY ConstantsAssumption DEF ConstantsFit
  <2> QED
    BY <2>1, MailCounts, SlaKeepsUp DEF Everything, PeopleAreTold
<1> QED
  BY <1>1, EverythingInit, EverythingNext, PTL DEF Composition

\* The merge view, the completeness page and the dashboard: the summaries of a
\* standard are the counts of its rows on all of them, where the merge view adds the
\* items that were retired; an answer the dashboard keeps is the one it would compute,
\* unless the catalogue changed or one item was asked for since; and when the
\* completeness page has just been shown, its rows say what the points say and its
\* disclosures what the dashboard says, whatever rows were stored before.
THEOREM ViewsHold == Composition => []ViewsAgree
<1>1. ViewsInv => PagesCount /\ Views!DashboardCurrent /\ (shown => Shown)
  BY ViewsCount DEF ViewsInv
<1>2. ViewsInv => Views!ViewsAgree
  BY <1>1, ShownAgree DEF PagesCount, Views!ViewsAgree
<1>3. Everything => ViewsAgree
  BY <1>2 DEF Everything, ViewsAgree
<1> QED
  BY <1>3, EverythingInit, EverythingNext, PTL DEF Composition
=============================================================================
