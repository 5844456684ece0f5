--------------------------- MODULE AssignmentSla ---------------------------
(***************************************************************************)
(* The escalation of one metric assignment, day by day: core/              *)
(* assignment_sla, SLAService (check_sla_breaches, check_project_deadlines)*)
(* and the edits of the assignment's deadline and escalation window.       *)
(*                                                                         *)
(* A check reads the rows and writes its notices in one transaction and is *)
(* one step.  The workers check every half a minute; what a user is told   *)
(* again on the same day is not counted.                                   *)
(***************************************************************************)
EXTENDS Integers

CONSTANTS
  Points,      \* the data points that match the assignment
  LastDay,     \* the horizon of the model
  Deadlines,   \* the deadlines an edit may set
  Windows,     \* the values of escalation_after_days
  ProjectDue   \* the deadline of the project

VARIABLES
  day,         \* today
  assignment,  \* the columns that decide the escalation
  point,       \* the status of each matching data point
  running,     \* whether the project is active or in review
  told,        \* who has been told what since quiet began
  reminded,    \* how many days ahead the project's people were reminded
  checked,     \* whether a worker has checked today
  quiet        \* the first day of the days checked without a change between them

vars == <<day, assignment, point, running, told, reminded, checked, quiet>>

NoDate == -1
Days == 0..LastDay
WarningWindow == 3
LevelTwo == 7

Recipients == {"collector", "backup", "managers", "admins"}
Levels == {"completed", "no_deadline", "on_track", "warning", "due_today", "overdue",
           "breach_level_1", "breach_level_2"}

ConstantsOK ==
  /\ LastDay \in Nat /\ Deadlines \subseteq Nat /\ Windows \subseteq Nat /\ ProjectDue \in Nat

TypeOK ==
  /\ day \in Days
  /\ assignment \in [due : Deadlines \cup {NoDate}, after : Windows,
                     completed : BOOLEAN]
  /\ point \in [Points -> {"absent", "open", "approved"}]
  /\ running \in BOOLEAN
  /\ told \subseteq Levels \X Recipients
  /\ reminded \subseteq {7, 3, 1}
  /\ checked \in BOOLEAN
  /\ quiet \in 0..LastDay + 1

Init ==
  /\ day = 0
  /\ assignment \in [due : Deadlines \cup {NoDate}, after : Windows,
                     completed : {FALSE}]
  /\ point = [p \in Points |-> "absent"]
  /\ running = TRUE
  /\ told = {}
  /\ reminded = {}
  /\ checked = FALSE
  /\ quiet = 0

\* normalize_escalation_after_days
Window == IF assignment.after < 1 THEN 3 ELSE assignment.after

\* assignment_completed
Matching == {p \in Points : point[p] # "absent"}
Completed ==
  \/ assignment.completed
  \/ Matching # {} /\ \A p \in Matching : point[p] = "approved"

Left == assignment.due - day

\* resolve_assignment_sla, for an assignment that is open and has a deadline.
LevelByDays ==
  CASE Left > WarningWindow -> "on_track"
    [] Left \in 1..WarningWindow -> "warning"
    [] Left = 0 -> "due_today"
    [] Left < 0 /\ -Left >= LevelTwo -> "breach_level_2"
    [] Left < 0 /\ -Left < LevelTwo /\ -Left >= Window -> "breach_level_1"
    [] OTHER -> "overdue"
\* Mutant: the first threshold that is passed decides.
LevelOneFirst ==
  CASE Left > WarningWindow -> "on_track"
    [] Left \in 1..WarningWindow -> "warning"
    [] Left = 0 -> "due_today"
    [] Left < 0 /\ -Left >= Window -> "breach_level_1"
    [] Left < 0 /\ -Left < Window /\ -Left >= LevelTwo -> "breach_level_2"
    [] OTHER -> "overdue"
OpenLevel == LevelByDays

Level == IF Completed THEN "completed"
         ELSE IF assignment.due = NoDate THEN "no_deadline" ELSE OpenLevel

\* Whom check_sla_breaches tells.
Told(level) ==
  CASE level \in {"warning", "due_today"} -> {"collector"}
    [] level = "overdue" -> {"collector", "managers"}
    [] level = "breach_level_1" -> {"backup", "managers"}
    [] level = "breach_level_2" -> {"admins"}
    [] OTHER -> {}

CheckBreaches ==
  /\ told' = told \cup ({Level} \X Told(Level))
  /\ checked' = TRUE
  /\ UNCHANGED <<day, assignment, point, running, reminded, quiet>>

OnTheseDays == {7, 3, 1}
\* Mutant: the people are reminded on the day itself as well.
DueDayToo == {7, 3, 1, 0}
ReminderDays == OnTheseDays

\* check_project_deadlines; it runs in the same cycle as check_sla_breaches.
RemindProject ==
  /\ running
  /\ ProjectDue - day \in ReminderDays
  /\ reminded' = reminded \cup {ProjectDue - day}
  /\ UNCHANGED <<day, assignment, point, running, told, checked, quiet>>

\* Both jobs of the cycle have run today.
Checked == checked /\ (running /\ ProjectDue - day \in ReminderDays => ProjectDue - day \in reminded)

\* A change, or a day on which no worker ran, starts the account afresh.
StartAfresh(first) == told' = {} /\ reminded' = {} /\ checked' = FALSE /\ quiet' = first

NextDay ==
  /\ day < LastDay
  /\ day' = day + 1
  /\ IF Checked THEN checked' = FALSE /\ UNCHANGED <<told, reminded, quiet>>
     ELSE StartAfresh(day + 1)
  /\ UNCHANGED <<assignment, point, running>>

\* _apply_assignment_update: one field; no value means no deadline.
\* A status of completed is set by nothing in the application.
EditAssignment ==
  /\ \/ \E d \in Deadlines \cup {NoDate} : assignment' = [assignment EXCEPT !.due = d]
     \/ \E w \in Windows : assignment' = [assignment EXCEPT !.after = w]
  /\ assignment' # assignment
  /\ StartAfresh(day)
  /\ UNCHANGED <<day, point, running>>

\* The life of the data points, and of the project.
MovePoint ==
  /\ \E p \in Points :
       \E s \in IF point[p] = "open" THEN {"approved"} ELSE {"open"} :
         point' = [point EXCEPT ![p] = s]
  /\ StartAfresh(day)
  /\ UNCHANGED <<day, assignment, running>>

MoveProject ==
  /\ running' = ~running
  /\ StartAfresh(day)
  /\ UNCHANGED <<day, assignment, point>>

Next == CheckBreaches \/ RemindProject \/ NextDay \/ EditAssignment \/ MovePoint \/ MoveProject

Spec == Init /\ [][Next]_vars

-----------------------------------------------------------------------------
Heard(who) == \E l \in Levels : <<l, who>> \in told

\* An open assignment nobody touches while the workers check it every day: its
\* collector has heard before the admins do, a backup is called in exactly when
\* the window ends before the seventh day, the managers have heard as well, and the
\* admins never hear before the seventh day.  A project
\* watched for its last week reminds its people three times.
EscalationKeepsUp ==
  /\ Heard("admins") => assignment.due # NoDate /\ -Left >= LevelTwo
  /\ Heard("admins") /\ quiet <= assignment.due =>
       /\ Heard("collector")
       /\ Heard("managers")
       /\ Heard("backup") <=> Window < LevelTwo
  /\ checked /\ ~Completed /\ assignment.due # NoDate /\ quiet <= assignment.due
       => (-Left >= LevelTwo <=> Heard("admins"))
  /\ running /\ quiet <= ProjectDue - 7 /\ day >= ProjectDue => reminded = {7, 3, 1}
=============================================================================
