------------------------------ MODULE JobQueue -------------------------------
(***************************************************************************)
(* What a queue of retried tasks promises, whoever works on it: a task is  *)
(* attempted at most MaxAttempts times, every attempt counts once, it is   *)
(* given up exactly when the last attempt has failed, and a task that is   *)
(* done or given up stays so.  Any number of tasks may move in one step:   *)
(* a worker commits a whole batch at once.                                 *)
(***************************************************************************)
EXTENDS Naturals

CONSTANTS Tasks, MaxAttempts

VARIABLE task

Task == [status : {"absent", "waiting", "done", "dead"}, attempts : 0..MaxAttempts]

Absent == [status |-> "absent", attempts |-> 0]
Waiting(n) == [status |-> "waiting", attempts |-> n]

\* The outcomes of one more attempt at a task that has had n.
Attempted(n) ==
  {[status |-> "done", attempts |-> n + 1]} \cup
  IF n + 1 = MaxAttempts THEN {[status |-> "dead", attempts |-> n + 1]}
  ELSE {Waiting(n + 1)}

Init == task = [t \in Tasks |-> Absent]

\* A task is created, attempted, or removed with whoever it was for.
Moved(old, new) ==
  \/ old = Absent /\ new = Waiting(0)
  \/ old.status = "waiting" /\ old.attempts < MaxAttempts /\ new \in Attempted(old.attempts)
  \/ new = Absent

Next == /\ task' \in [Tasks -> Task]
        /\ \A t \in Tasks : task'[t] = task[t] \/ Moved(task[t], task'[t])

Spec == Init /\ [][Next]_task
=============================================================================
