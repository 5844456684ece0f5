---------------------------- MODULE WorkflowState ----------------------------
(***************************************************************************)
(* The review workflow of a data point as pure definitions: the transition *)
(* table of backend/app/domain/workflow_state.py and the role checks that  *)
(* stand in front of it.  No state; every other workflow module uses it.   *)
(***************************************************************************)

Statuses == {"draft", "submitted", "in_review", "approved", "rejected",
             "needs_revision"}

\* Roles a request can carry; "system" is the role of automatic transitions.
Roles == {"collector", "reviewer", "esg_manager", "admin", "platform_admin"}

Submitters == {"collector", "esg_manager", "admin", "platform_admin"}
Reviewers == {"reviewer", "esg_manager", "admin", "platform_admin"}
Rollbackers == {"esg_manager", "admin", "platform_admin"}

Transitions ==
  { [from |-> "draft", to |-> "submitted", comment |-> FALSE,
     roles |-> {"collector", "esg_manager", "admin", "platform_admin"}],
    [from |-> "submitted", to |-> "in_review", comment |-> FALSE,
     roles |-> {"system"}],
    [from |-> "in_review", to |-> "approved", comment |-> FALSE,
     roles |-> {"reviewer", "esg_manager", "admin"}],
    [from |-> "in_review", to |-> "rejected", comment |-> TRUE,
     roles |-> {"reviewer", "esg_manager", "admin"}],
    [from |-> "in_review", to |-> "needs_revision", comment |-> TRUE,
     roles |-> {"reviewer", "esg_manager", "admin"}],
    [from |-> "approved", to |-> "draft", comment |-> TRUE,
     roles |-> {"esg_manager", "admin"}],
    [from |-> "rejected", to |-> "submitted", comment |-> FALSE,
     roles |-> {"collector", "esg_manager", "admin"}],
    [from |-> "needs_revision", to |-> "submitted", comment |-> FALSE,
     roles |-> {"collector", "esg_manager", "admin"}] }

Editable == {"draft", "rejected", "needs_revision"}

CanTransition(current, target, role) ==
  \E t \in Transitions :
    t.from = current /\ t.to = target /\ role \in t.roles

RequiresComment(current, target) ==
  \E t \in Transitions : t.from = current /\ t.to = target /\ t.comment
=============================================================================
