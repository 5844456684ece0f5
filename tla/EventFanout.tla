------------------------------ MODULE EventFanout ------------------------------
(* Domain events on their way from requests to those who are told: EventBus,     *)
(* NotificationEventHandler, WebhookEventHandler, and the pool of connections.   *)
(*                                                                               *)
(* A request changes rows, publishes an event after each change, and commits in  *)
(* the end.  The bus calls its handlers one after the other, and the request     *)
(* waits; each call is a transaction on a second connection, committed before    *)
(* the request is.  A handler that fails is logged, and the request goes on.     *)
(* Whether a user is told again while a notice is unread is read when the        *)
(* handler's transaction begins; preferences stay as they are (Notices has mail, *)
(* digests, and preferences that change).                                        *)
EXTENDS Naturals, Sequences, FiniteSets, SequencesExt

CONSTANTS
  Requests,
  Rows,       \* what requests change: points, assignments, projects
  Jobs,       \* what requests do: [kind, rows : a sequence without repetition]
  RoleOf,     \* user -> role in the organization
  Wants,      \* user -> the channels his preferences leave on
  Targets,    \* the sets of users events may name
  PoolSize,   \* connections of the pool
  MaxFailures \* bound on the handlers that fail

VARIABLES
  request,
  told,     \* what handlers have committed, in order: [request, row, call, users, spared]
  unread,   \* the unread notices of no great weight: <<user, kind, row>>
  failed,   \* the handlers that failed: <<request, row, handler>>
  order     \* the requests that have committed, in order

vars == <<request, told, unread, failed, order>>

Everybody == DOMAIN RoleOf

-----------------------------------------------------------------------------
(* Who is told of what.                                                    *)

\* register_event_handlers: both handlers are called for every kind, and each
\* ignores what it has no method for.
PointKinds == {"submitted", "approved", "rejected", "revisionRequested", "rolledBack"}
ProjectKinds == {"started", "reviewStarted", "published", "boundaryApplied"}
\* CompletenessUpdated of a project that is complete, and of any other.
Progress == {"completenessReached", "completenessUpdated"}
Kinds ==
  PointKinds \cup ProjectKinds \cup Progress
    \cup {"assignmentCreated", "assignmentUpdated", "evidenceCreated", "snapshotSaved"}

\* The methods of NotificationEventHandler that name users, and those that leave it to
\* EVENT_ROUTING; a new assignment is told to its collector and to its reviewer apart.
Named == PointKinds \cup {"assignmentUpdated", "reviewStarted"}
Routed == ProjectKinds \cup Progress \cup {"snapshotSaved"}
Hooked == PointKinds \cup ProjectKinds \cup Progress \cup {"evidenceCreated"}
RoutedRoles(kind) ==
  IF kind \in Progress THEN {"esg_manager"} ELSE {"esg_manager", "admin"}

\* The kinds whose notices are information or a warning: no second one is written while
\* one of the same user, type and entity is unread.
Quiet == {"approved", "assignmentUpdated", "boundaryApplied", "snapshotSaved",
          "completenessUpdated"}

Call(handler, part) == [handler |-> handler, part |-> part]
Optional(on, call) == IF on THEN <<call>> ELSE <<>>
\* _notify_users without users opens no session.
Calls(kind, targets) ==
  Optional(kind \in Named /\ targets # {}, Call("notices", "named"))
    \o Optional(kind = "assignmentCreated" /\ targets # {}, Call("notices", "collector"))
    \o Optional(kind = "assignmentCreated" /\ Cardinality(targets) > 1,
                Call("notices", "reviewer"))
    \o Optional(kind \in Routed, Call("notices", "roles"))
    \o Optional(kind \in Hooked, Call("webhooks", "endpoints"))

Collector(targets) == CHOOSE u \in targets : TRUE
Audience(q, part) ==
  CASE part = "named" -> q.targets
    [] part = "collector" -> {Collector(q.targets)}
    [] part = "reviewer" -> q.targets \ {Collector(q.targets)}
    [] part = "roles" -> {u \in Everybody : RoleOf[u] \in RoutedRoles(q.kind)}
    [] part = "endpoints" -> {}

\* _resolve_channel: the notices whose channel is the application only.
InAppOnly(kind, part) ==
  kind \in Quiet \ {"boundaryApplied"} \/ (kind = "reviewStarted" /\ part = "roles")
Channels(kind, part) == IF InAppOnly(kind, part) THEN {"in_app"} ELSE {"in_app", "email"}
\* notify: not the user who caused the event, and nobody whose preferences leave no channel.
Reached(q, part) ==
  {u \in Audience(q, part) \ {q.by} : Wants[u] \cap Channels(q.kind, part) # {}}

-----------------------------------------------------------------------------
(* Requests.                                                               *)

New == [stage |-> "new"]
Stage(r) == request[r].stage
Open(r) == Stage(r) \in {"working", "publishing", "calling"}
Held == Cardinality({r \in Requests : Open(r)})
          + Cardinality({r \in Requests : Stage(r) = "calling"})
\* Mutant: the pool opens a connection when all are in use.
FreeOrFull == Held <= PoolSize
Free == Held < PoolSize

TypeOK ==
  /\ \A r \in Requests :
       request[r] = New
         \/ /\ Stage(r) \in {"working", "publishing", "calling", "committed", "aborted"}
            /\ request[r].kind \in Kinds /\ request[r].by \in Everybody
            /\ request[r].targets \in Targets
            /\ \A x \in ToSet(request[r].rows \o request[r].changed) : x \in Rows
            /\ request[r].wrote \subseteq ToSet(request[r].changed)
            /\ request[r].seen \subseteq Everybody
  /\ Held <= PoolSize
  /\ \A i \in DOMAIN told : told[i].users \cup told[i].spared \subseteq Everybody
  /\ unread \subseteq Everybody \X Quiet \X Rows
  /\ failed \subseteq Requests \X Rows \X {"notices", "webhooks"}
  /\ ToSet(order) \subseteq Requests

Init ==
  /\ request = [r \in Requests |-> New]
  /\ told = <<>> /\ unread = {} /\ failed = {} /\ order = <<>>

Begin(r) ==
  /\ Stage(r) = "new" /\ Free
  /\ \E job \in Jobs, by \in Everybody, targets \in Targets :
       request' = [request EXCEPT ![r] =
                     [stage |-> "working", kind |-> job.kind, by |-> by, targets |-> targets,
                      rows |-> job.rows, changed |-> <<>>, wrote |-> {}, calls |-> <<>>,
                      seen |-> {}]]
  /\ UNCHANGED <<told, unread, failed, order>>

\* An UPDATE waits for those who have written the row and not ended.
Locked(r, row) == \E q \in Requests \ {r} : Open(q) /\ row \in request[q].wrote

\* The progress of a project is no column of its row, and values that are the old ones
\* are not written; such events are published all the same, and wait for nobody.
MayKeepRow == Progress \cup {"assignmentUpdated", "boundaryApplied", "snapshotSaved"}
Written(r, row) ==
  IF request[r].kind \in Progress THEN {{}}
  ELSE (IF request[r].kind \in MayKeepRow THEN {{}} ELSE {})
         \cup (IF Locked(r, row) THEN {} ELSE {{row}})

\* One change, and the event it publishes.
Change(r) ==
  LET q == request[r] IN
  /\ Stage(r) = "working" /\ q.rows # <<>>
  /\ \E written \in Written(r, Head(q.rows)) :
       request' = [request EXCEPT ![r] =
                     [q EXCEPT !.stage = "publishing", !.rows = Tail(@),
                               !.changed = Append(@, Head(q.rows)),
                               !.wrote = @ \cup written,
                               !.calls = Calls(q.kind, q.targets)]]
  /\ UNCHANGED <<told, unread, failed, order>>

Current(r) == Last(request[r].changed)
\* notify: those who have an unread notice of this type and entity.
Noticed(r, part) ==
  {u \in Reached(request[r], part) : <<u, request[r].kind, Current(r)>> \in unread}

\* EventBus.publish: the next call, once there is a connection.
CallHandler(r) ==
  LET q == request[r] IN
  /\ Stage(r) = "publishing" /\ q.calls # <<>> /\ Free
  /\ request' = [request EXCEPT ![r] =
                   [q EXCEPT !.stage = "calling", !.seen = Noticed(r, Head(q.calls).part)]]
  /\ UNCHANGED <<told, unread, failed, order>>

\* The handler's transaction commits.
Tell(r) ==
  LET q == request[r]
      users == Reached(q, Head(q.calls).part) \ q.seen IN
  /\ Stage(r) = "calling"
  /\ told' = Append(told, [request |-> r, row |-> Current(r), call |-> Head(q.calls),
                           users |-> users, spared |-> q.seen])
  /\ unread' = unread \cup (users \X ({q.kind} \cap Quiet) \X {Current(r)})
  /\ request' = [request EXCEPT ![r] =
                   [q EXCEPT !.stage = "publishing", !.calls = Tail(@), !.seen = {}]]
  /\ UNCHANGED <<failed, order>>

\* mark_read and mark_all_read; auditors have no notices page.
Read(u) ==
  LET mine == {x \in unread : x[1] = u} IN
  /\ RoleOf[u] # "auditor"
  /\ \E read \in {{x} : x \in mine} \cup {mine} : unread' = unread \ read
  /\ UNCHANGED <<request, told, failed, order>>

\* A handler raises, or waits in vain for a connection: the rest of its method is
\* skipped, and the next handler is called; the webhooks have one call, the last.
\* Mutant: the exception ends the loop over the handlers.
LoopEnds(calls) == <<>>
AfterFailure(calls) ==
  IF Head(calls).handler = Last(calls).handler THEN <<>> ELSE <<Last(calls)>>
Fail(r) ==
  LET q == request[r] IN
  /\ Cardinality(failed) < MaxFailures
  /\ Stage(r) = "calling" \/ (Stage(r) = "publishing" /\ q.calls # <<>> /\ ~Free)
  /\ failed' = failed \cup {<<r, Current(r), Head(q.calls).handler>>}
  /\ request' = [request EXCEPT ![r] =
                   [q EXCEPT !.stage = "publishing", !.calls = AfterFailure(@), !.seen = {}]]
  /\ UNCHANGED <<told, unread, order>>

Published(r) ==
  /\ Stage(r) = "publishing" /\ request[r].calls = <<>>
  /\ request' = [request EXCEPT ![r].stage = "working"]
  /\ UNCHANGED <<told, unread, failed, order>>

Commit(r) ==
  /\ Stage(r) = "working" /\ request[r].rows = <<>>
  /\ request' = [request EXCEPT ![r].stage = "committed"]
  /\ order' = Append(order, r)
  /\ UNCHANGED <<told, unread, failed>>

\* The request is refused, fails, or is the victim of a deadlock.
Abort(r) ==
  /\ Stage(r) = "working"
  /\ request' = [request EXCEPT ![r].stage = "aborted"]
  /\ UNCHANGED <<told, unread, failed, order>>

Next ==
  \/ \E r \in Requests :
       \/ Begin(r) \/ Change(r) \/ CallHandler(r) \/ Tell(r) \/ Fail(r) \/ Published(r)
       \/ Commit(r) \/ Abort(r)
  \/ \E u \in Everybody : Read(u)

Spec == Init /\ [][Next]_vars

-----------------------------------------------------------------------------
Place(r) == CHOOSE i \in DOMAIN order : order[i] = r
Committed(r) == Stage(r) = "committed"

\* Whoever is told of two changes of one row is told in the order in which they were
\* committed, although events are published, and told, before the commit; events that
\* are published without a write of their row are in no order.
ToldInOrder ==
  \A i, j \in DOMAIN told :
    /\ i < j /\ told[i].row = told[j].row /\ told[i].request # told[j].request
    /\ \A k \in {i, j} : /\ Committed(told[k].request)
                         /\ told[k].row \in request[told[k].request].wrote
    => Place(told[i].request) < Place(told[j].request)

\* The user has been told of an earlier event of the same kind and row: by which request,
\* and whether that one has committed, the code does not ask.
ToldBefore(i, u) ==
  \E j \in DOMAIN told :
    /\ j < i /\ u \in told[j].users /\ told[j].row = told[i].row
    /\ request[told[j].request].kind = request[told[i].request].kind

\* Every change that was committed has been told to everybody concerned but the one who
\* made it and those who want no such notice, and to the webhooks, once; unless that
\* handler, and no other one, failed.  Only of what is information or a warning a user is
\* not told again who had a notice of the same kind and row, unread when the handler began.
Concerned(q) ==
  UNION {{<<c.handler, u>> : u \in Reached(q, c.part)} : c \in ToSet(Calls(q.kind, q.targets))}
TellsOf(r, row, handler) ==
  {i \in DOMAIN told : told[i].request = r /\ told[i].row = row /\ told[i].call.handler = handler}
ToldToAll ==
  \A r \in Requests : Committed(r) =>
    \A row \in ToSet(request[r].changed) :
      LET q == request[r] IN
      /\ <<r, row, "notices">> \notin failed =>
           \A x \in Concerned(q) :
             \E i \in TellsOf(r, row, "notices") :
               \/ x[2] \in told[i].users
               \/ q.kind \in Quiet /\ x[2] \in told[i].spared /\ ToldBefore(i, x[2])
      /\ q.kind \in Hooked /\ <<r, row, "webhooks">> \notin failed =>
           Cardinality(TellsOf(r, row, "webhooks")) = 1
      /\ Cardinality(TellsOf(r, row, "notices")) <= 2

EventsReachAll == ToldInOrder /\ ToldToAll
=============================================================================
