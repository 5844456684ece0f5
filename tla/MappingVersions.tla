-------------------------- MODULE MappingVersions --------------------------
(***************************************************************************)
(* The versions of the mapping between one requirement item and one shared *)
(* element: create_mapping of MappingService as overlapping READ COMMITTED *)
(* transactions.                                                           *)
(*                                                                         *)
(* The current version is read FOR UPDATE.  A transaction that waits for   *)
(* its lock reads again when the holder commits: the row it waited for has *)
(* been retired, and the new version was not there when its query began,   *)
(* so that it finds no mapping at all.  The INSERT meets the unique        *)
(* constraints on (item, element, version) and on the current version.     *)
(***************************************************************************)
EXTENDS Naturals

CONSTANTS Requests, MaxVersions

VARIABLES
  versions,  \* the versions that are committed, and whether each is current
  request    \* the creation in flight

vars == <<versions, request>>

None == 0
Ids == 1..MaxVersions
Idle == [stage |-> "idle"]
InFlight == [stage : {"waiting", "read", "written"}, found : Ids \cup {None}]

TypeOK ==
  /\ versions \in [Ids -> {"absent", "current", "retired"}]
  /\ request \in [Requests -> InFlight \cup {Idle}]

Init ==
  /\ versions = [v \in Ids |-> "absent"]
  /\ request = [r \in Requests |-> Idle]

Present == {v \in Ids : versions[v] # "absent"}
Current == {v \in Ids : versions[v] = "current"}

Locks(r, v) == request[r].stage \in {"read", "written"} /\ request[r].found = v
Locked(v) == \E r \in Requests : Locks(r, v)

\* get_by_item_and_element: what the query finds when it does not have to wait.
Read(r) ==
  /\ request[r] = Idle
  /\ \A v \in Current : ~Locked(v)
  /\ request' = [request EXCEPT ![r] =
       [stage |-> "read", found |-> IF Current = {} THEN None ELSE CHOOSE v \in Current : TRUE]]
  /\ UNCHANGED versions

\* The row is locked by another transaction.
Wait(r) ==
  /\ request[r] = Idle
  /\ \E v \in Current :
       /\ Locked(v)
       /\ request' = [request EXCEPT ![r] = [stage |-> "waiting", found |-> v]]
  /\ UNCHANGED versions

\* The wait is over: the row is still current, or it is passed over.
Wake(r) ==
  /\ request[r].stage = "waiting"
  /\ ~Locked(request[r].found)
  /\ request' = [request EXCEPT ![r] =
       [stage |-> "read",
        found |-> IF request[r].found \in Current THEN request[r].found ELSE None]]
  /\ UNCHANGED versions

\* The version that is written: the one after the version that was found.
VersionOf(r) == request[r].found + 1

\* Another transaction has written that version and has not committed.
BeingWritten(r) ==
  \E q \in Requests \ {r} : request[q].stage = "written" /\ VersionOf(q) = VersionOf(r)

\* The unique constraints: no such version, and no other current one.
Unique(r) == VersionOf(r) \notin Present /\ Current \subseteq {request[r].found}
\* Mutant: no constraint is declared.
Unconstrained(r) == TRUE
Accepted(r) == Unique(r)

\* The INSERT, which waits for a transaction that writes the same version.
Write(r) ==
  /\ request[r].stage = "read"
  /\ VersionOf(r) \in Ids
  /\ ~BeingWritten(r)
  /\ request' = [request EXCEPT ![r] = IF Accepted(r) THEN [@ EXCEPT !.stage = "written"]
                                       ELSE Idle]
  /\ UNCHANGED versions

Commit(r) ==
  /\ request[r].stage = "written"
  /\ versions' = [v \in Ids |-> IF v = VersionOf(r) THEN "current"
                                ELSE IF v = request[r].found THEN "retired" ELSE versions[v]]
  /\ request' = [request EXCEPT ![r] = Idle]

\* The request fails and is rolled back.
Abort(r) ==
  /\ request[r] # Idle
  /\ request' = [request EXCEPT ![r] = Idle]
  /\ UNCHANGED versions

Next == \E r \in Requests : Read(r) \/ Wait(r) \/ Wake(r) \/ Write(r) \/ Commit(r) \/ Abort(r)

Spec == Init /\ [][Next]_vars

-----------------------------------------------------------------------------
\* However many creations overlap, the versions are numbered without a gap, and
\* the last one is current and no other is.
OneCurrentVersion ==
  \A v \in Present :
    /\ \A u \in Ids : u < v => u \in Present
    /\ v \in Current <=> \A u \in Present : u <= v
=============================================================================
