-------------------------- MODULE SupportSessions --------------------------
(***************************************************************************)
(* Support mode: a platform admin works inside a tenant.  start_support_   *)
(* session and end_support_session of PlatformService, and the part of     *)
(* get_current_context that admits a request to support mode.              *)
(*                                                                         *)
(* Requests are READ COMMITTED transactions that overlap.  A unique index  *)
(* over the active rows of an admin backs the check that start_support_    *)
(* session makes.                                                          *)
(***************************************************************************)
EXTENDS Naturals, FiniteSets

CONSTANTS Requests, Admins, Tenants, MaxSessions

VARIABLES
  sessions,  \* support_sessions by id
  request,   \* what is in flight
  acted      \* history: the session and the tenant of what was done in support mode

vars == <<sessions, request, acted>>

Ids == 1..MaxSessions
None == 0
Row == [state : {"active", "ended"}, admin : Admins, tenant : Tenants]
Free == [state |-> "free"]
Idle == [kind |-> "idle"]
Starting == [kind : {"start"}, stage : {"checked", "inserted"}, admin : Admins, tenant : Tenants]
Ending == [kind : {"end"}, session : Ids]
Acting == [kind : {"act"}, session : Ids, tenant : Tenants]

TypeOK ==
  /\ sessions \in [Ids -> Row \cup {Free}]
  /\ request \in [Requests -> Starting \cup Ending \cup Acting \cup {Idle}]
  /\ acted \subseteq Ids \X Tenants

Init ==
  /\ sessions = [s \in Ids |-> Free]
  /\ request = [r \in Requests |-> Idle]
  /\ acted = {}

Active(a) == {s \in Ids : sessions[s].state = "active" /\ sessions[s].admin = a}

\* get_active_support_session finds none.
Start(r) ==
  /\ request[r] = Idle
  /\ \E a \in Admins, t \in Tenants :
       /\ Active(a) = {}
       /\ request' = [request EXCEPT ![r] =
            [kind |-> "start", stage |-> "checked", admin |-> a, tenant |-> t]]
  /\ UNCHANGED <<sessions, acted>>

IsStart(r, stage) == request[r].kind = "start" /\ request[r].stage = stage

\* Another transaction has inserted an active row of the admin: the INSERT waits.
BeingInserted(r) ==
  \E q \in Requests \ {r} : IsStart(q, "inserted") /\ request[q].admin = request[r].admin

\* uq_support_sessions_active_admin
UniqueActive(r) == Active(request[r].admin) = {}
\* Mutant: the check before the INSERT is thought to be enough.
NoIndex(r) == TRUE
Accepted(r) == UniqueActive(r)

\* A violation of the index is answered with 409 after a rollback.
Insert(r) ==
  /\ IsStart(r, "checked")
  /\ ~BeingInserted(r)
  /\ request' = [request EXCEPT ![r] = IF Accepted(r) THEN [@ EXCEPT !.stage = "inserted"]
                                       ELSE Idle]
  /\ UNCHANGED <<sessions, acted>>

CommitStart(r) ==
  /\ IsStart(r, "inserted")
  /\ \E s \in Ids :
       /\ sessions[s] = Free /\ \A i \in 1..(s - 1) : sessions[i] # Free
       /\ sessions' = [sessions EXCEPT ![s] =
            [state |-> "active", admin |-> request[r].admin, tenant |-> request[r].tenant]]
  /\ request' = [request EXCEPT ![r] = Idle]
  /\ UNCHANGED acted

\* end_support_session: the row is the caller's and still active.
End(r) ==
  /\ request[r] = Idle
  /\ \E s \in Ids :
       /\ sessions[s].state = "active"
       /\ request' = [request EXCEPT ![r] = [kind |-> "end", session |-> s]]
  /\ UNCHANGED <<sessions, acted>>

CommitEnd(r) ==
  /\ request[r].kind = "end"
  /\ sessions' = [sessions EXCEPT ![request[r].session].state = "ended"]
  /\ request' = [request EXCEPT ![r] = Idle]
  /\ UNCHANGED acted

\* get_current_context: the session named by the request is active, and an
\* organization that is named besides must be its tenant.
Admit(r) ==
  /\ request[r] = Idle
  /\ \E s \in Ids, t \in Tenants \cup {None} :
       /\ sessions[s].state = "active"
       /\ t \in {None, sessions[s].tenant}
       /\ request' = [request EXCEPT ![r] =
            [kind |-> "act", session |-> s, tenant |-> sessions[s].tenant]]
  /\ UNCHANGED <<sessions, acted>>

\* The request works on what it was admitted to, even if the session has ended.
Act(r) ==
  /\ request[r].kind = "act"
  /\ acted' = acted \cup {<<request[r].session, request[r].tenant>>}
  /\ request' = [request EXCEPT ![r] = Idle]
  /\ UNCHANGED sessions

\* A request fails and is rolled back.
Abort(r) ==
  /\ request[r] # Idle
  /\ request' = [request EXCEPT ![r] = Idle]
  /\ UNCHANGED <<sessions, acted>>

Next == \E r \in Requests :
  \/ Start(r) \/ Insert(r) \/ CommitStart(r)
  \/ End(r) \/ CommitEnd(r)
  \/ Admit(r) \/ Act(r)
  \/ Abort(r)

Spec == Init /\ [][Next]_vars

-----------------------------------------------------------------------------
\* However starts, ends and requests in support mode overlap, an admin has one
\* session open, so that get_active_support_session finds one row at most, and all
\* that is done under a session is done to its tenant.
SupportPinned ==
  /\ \A a \in Admins : Cardinality(Active(a)) <= 1
  /\ \A x \in acted : sessions[x[1]] # Free /\ sessions[x[1]].tenant = x[2]
=============================================================================
