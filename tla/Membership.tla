----------------------------- MODULE Membership -----------------------------
(***************************************************************************)
(* Who belongs to one organization and in which role: InvitationService,   *)
(* OrganizationUserService, UserRoleService, assign_tenant_admin of        *)
(* PlatformService and the provisioning of SSOService.                     *)
(*                                                                         *)
(* role_bindings holds one row per user and scope (uq_user_scope), so the  *)
(* bindings of the organization are a function.  Accepting, declining,     *)
(* resending and cancelling an invitation read it without a lock and write *)
(* it by its key, two steps with other requests between them; the other    *)
(* operations are one step.                                                *)
(***************************************************************************)
EXTENDS Naturals, FiniteSets

CONSTANTS Users, Founder, Requests, MaxInvitations, InvitedRoles, DefaultRole,
          Roles  \* "admin", "esg_manager", and others with no say over members

VARIABLES
  role,        \* the role of each user in the organization
  invitation,  \* user_invitations by id
  handling,    \* what a request in flight does with the invitation it has read
  joined,      \* history: how many bindings each invitation has made
  contested    \* history: the invitations two requests were settling at once

vars == <<role, invitation, handling, joined, contested>>

NoRole == "none"
Platform == "platform_admin"
Ids == 1..MaxInvitations

ConstantsOK ==
  /\ Founder \in Users
  /\ "admin" \in Roles /\ NoRole \notin Roles
  /\ InvitedRoles \subseteq Roles /\ DefaultRole \in Roles
  /\ MaxInvitations \in Nat

Unsent == [state |-> "unsent", user |-> Founder, role |-> NoRole, late |-> FALSE]
Settling == {"accept", "decline", "cancel"}
Operations == Settling \cup {"resend"}
NoRead == [op |-> "none", id |-> 0]

TypeOK ==
  /\ role \in [Users -> Roles \cup {NoRole}]
  /\ invitation \in [Ids -> [state : {"unsent", "pending", "accepted", "declined", "cancelled"},
                             user : Users, role : Roles \cup {NoRole}, late : BOOLEAN]]
  /\ handling \in [Requests -> [op : Operations \cup {"none"}, id : Ids \cup {0}]]
  /\ joined \in [Ids -> Nat]
  /\ contested \subseteq Ids

\* setup_organization binds its caller as admin.
Init ==
  /\ role = [u \in Users |-> IF u = Founder THEN "admin" ELSE NoRole]
  /\ invitation = [i \in Ids |-> Unsent]
  /\ handling = [r \in Requests |-> NoRead]
  /\ joined = [i \in Ids |-> 0]
  /\ contested = {}

Member(u) == role[u] # NoRole
Admins == {u \in Users : role[u] = "admin"}

\* The role of a request's context: the caller's binding, or the platform.
Callers == {[user |-> u, role |-> role[u]] : u \in {v \in Users : Member(v)}}
           \cup {[user |-> Platform, role |-> Platform]}
AdminCall(c) == c.role \in {"admin", Platform}
ManageCall(c) == c.role \in {"admin", "esg_manager", Platform}

-----------------------------------------------------------------------------
(* Invitations.                                                            *)

Pending(i) == invitation[i].state = "pending"

\* A late invitation still counts as pending here: the attempts to use it set
\* "expired" and raise, and the rollback of the request undoes it.
Invite ==
  /\ \E c \in Callers : AdminCall(c)
  /\ \E u \in Users, r \in InvitedRoles, i \in Ids :
       /\ ~Member(u)
       /\ \A k \in Ids : ~(Pending(k) /\ invitation[k].user = u)
       /\ invitation[i] = Unsent
       /\ \A k \in Ids : k < i => invitation[k] # Unsent
       /\ invitation' = [invitation EXCEPT ![i] =
                           [state |-> "pending", user |-> u, role |-> r, late |-> FALSE]]
  /\ UNCHANGED <<role, handling, joined, contested>>

Usable(i) == Pending(i) /\ ~invitation[i].late

Cancellable(i) == Pending(i)
\* Mutant: an accepted invitation can be cancelled.
CancellableLate(i) == invitation[i].state \in {"pending", "accepted"}
CanCancel(i) == Cancellable(i)

\* What the operation finds of the row, before it goes on.
Allows(op, i) ==
  CASE op = "accept" -> Usable(i) /\ ~Member(invitation[i].user)
    [] op = "decline" -> Usable(i)
    [] op = "resend" -> Pending(i)
    [] op = "cancel" -> CanCancel(i)

Settles(r, i) == handling[r].op \in Settling /\ handling[r].id = i

\* The holder of the token accepts and declines; an admin resends and cancels.
Read(r) ==
  /\ handling[r] = NoRead
  /\ \E op \in Operations, i \in Ids :
       /\ op \in {"resend", "cancel"} => \E c \in Callers : AdminCall(c)
       /\ Allows(op, i)
       /\ handling' = [handling EXCEPT ![r] = [op |-> op, id |-> i]]
       /\ contested' = contested \cup
            {k \in {i} : op \in Settling /\ \E q \in Requests : Settles(q, k)}
  /\ UNCHANGED <<role, invitation, joined>>

\* The UPDATE names the key only, so it overwrites whatever the row has become.
SetState(i, state) == invitation' = [invitation EXCEPT ![i].state = state]

\* The INSERT fails when the user has become a member in between, and the
\* request is rolled back.  No operation changes the role of an invitation.
Accept(r) ==
  /\ handling[r].op = "accept"
  /\ handling' = [handling EXCEPT ![r] = NoRead]
  /\ LET i == handling[r].id
         u == invitation[i].user
     IN \/ /\ Member(u)
           /\ UNCHANGED <<role, invitation, joined>>
        \/ /\ ~Member(u)
           /\ role' = [role EXCEPT ![u] = invitation[i].role]
           /\ SetState(i, "accepted")
           /\ joined' = [joined EXCEPT ![i] = @ + 1]
  /\ UNCHANGED contested

Decline(r) ==
  /\ handling[r].op = "decline"
  /\ handling' = [handling EXCEPT ![r] = NoRead]
  /\ SetState(handling[r].id, "declined")
  /\ UNCHANGED <<role, joined, contested>>

\* Resending gives the invitation a new token and a new week, and leaves its
\* status as it is.
Resend(r) ==
  /\ handling[r].op = "resend"
  /\ handling' = [handling EXCEPT ![r] = NoRead]
  /\ invitation' = [invitation EXCEPT ![handling[r].id].late = FALSE]
  /\ UNCHANGED <<role, joined, contested>>

Cancel(r) ==
  /\ handling[r].op = "cancel"
  /\ handling' = [handling EXCEPT ![r] = NoRead]
  /\ SetState(handling[r].id, "cancelled")
  /\ UNCHANGED <<role, joined, contested>>

\* expires_at passes.
BecomeLate ==
  /\ \E i \in Ids :
       /\ Usable(i)
       /\ invitation' = [invitation EXCEPT ![i].late = TRUE]
  /\ UNCHANGED <<role, handling, joined, contested>>

-----------------------------------------------------------------------------
(* Roles.                                                                  *)

\* _guard_last_admin, and the same count in delete_role: users are never
\* deactivated by the program, so every admin counts.
NotLastAdmin(t) == role[t] = "admin" => Admins \ {t} # {}
\* Mutant: the user to remove is counted too.
SomeAdmin(t) == role[t] = "admin" => Admins # {}
MayLoseAdmin(t) == NotLastAdmin(t)

\* _guard_user_management: nobody manages himself, and managers leave admins
\* alone.
MayManage(c, t, next) ==
  /\ ManageCall(c)
  /\ c.user # t
  /\ c.role = "esg_manager" => role[t] # "admin" /\ next # "admin"

UpdateUserRole ==
  /\ \E c \in Callers, t \in Users, r \in Roles :
       /\ Member(t)
       /\ MayManage(c, t, r)
       /\ r # "admin" => MayLoseAdmin(t)
       /\ role' = [role EXCEPT ![t] = r]
  /\ UNCHANGED <<invitation, handling, joined, contested>>

\* remove_user_from_organization, and update_user_status to inactive, which
\* deletes the binding in the same way.
RemoveUser ==
  /\ \E c \in Callers, t \in Users :
       /\ Member(t)
       /\ MayManage(c, t, NoRole)
       /\ MayLoseAdmin(t)
       /\ role' = [role EXCEPT ![t] = NoRole]
  /\ UNCHANGED <<invitation, handling, joined, contested>>

\* create_role, and assign_tenant_admin for the platform.
CreateRole ==
  /\ \E c \in Callers : AdminCall(c)
  /\ \E t \in Users, r \in Roles :
       /\ ~Member(t)
       /\ role' = [role EXCEPT ![t] = r]
  /\ UNCHANGED <<invitation, handling, joined, contested>>

\* delete_role, by oneself too.
DeleteRole ==
  /\ \E c \in Callers : AdminCall(c)
  /\ \E t \in Users :
       /\ Member(t)
       /\ MayLoseAdmin(t)
       /\ role' = [role EXCEPT ![t] = NoRole]
  /\ UNCHANGED <<invitation, handling, joined, contested>>

\* A callback of a provider with auto_provision.
Provision ==
  /\ \E u \in Users :
       /\ ~Member(u)
       /\ role' = [role EXCEPT ![u] = DefaultRole]
  /\ UNCHANGED <<invitation, handling, joined, contested>>

Next ==
  \/ Invite \/ BecomeLate
  \/ \E r \in Requests : Read(r) \/ Accept(r) \/ Decline(r) \/ Resend(r) \/ Cancel(r)
  \/ UpdateUserRole \/ RemoveUser \/ CreateRole \/ DeleteRole \/ Provision

Spec == Init /\ [][Next]_vars

-----------------------------------------------------------------------------
\* No sequence of role changes, removals and revocations, by whichever of the
\* three services, leaves the organization without an admin.
AdminRemains == Admins # {}

\* An invitation that says "accepted" has made its user a member, and one that
\* has done so is never open again, whatever overlaps.  It has done so once and
\* says so, unless two requests were settling it at once: the code locks nothing,
\* so that the later of two acceptances can bring a user back who was removed
\* after the first, and a cancellation or a refusal that read the invitation
\* before the acceptance was committed overwrites "accepted".  Sending it again
\* does no harm.
AcceptedOnce ==
  \A i \in Ids :
    /\ invitation[i].state = "accepted" => joined[i] > 0
    /\ joined[i] > 0 => invitation[i].state \in {"accepted", "declined", "cancelled"}
    /\ i \notin contested =>
         joined[i] <= 1 /\ (joined[i] > 0 => invitation[i].state = "accepted")
=============================================================================
