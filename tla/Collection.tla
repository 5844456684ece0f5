----------------------------- MODULE Collection -----------------------------
(***************************************************************************)
(* OwnershipGraph next to the other modules around the collection of data: *)
(* EffectiveOwnership, CollectionSetup, MappingVersions, ProgressViews,    *)
(* Notices and AssignmentSla.  They share no state: in every behaviour one *)
(* of them moves and the others stand in an initial state.                 *)
(***************************************************************************)
EXTENDS OwnershipGraph

CONSTANTS
  Units,                                                  \* of shares that are passed on
  Metrics, TenantMetrics, Occurrences, Sites, Facilities, Nowhere, Drafts,
  MaxAssignments, MaxItems, MaxForms,
  Apart,    \* a bound: datasheet items and forms are not both in use, nor are retired
            \* items and boundaries
  Creations, MaxVersions,
  Items, Optional, EntityWide, DisclosureOf, StandardOf, Points, ItemOf, EntityOf, Covered,
  Events, Users, Nobody, Topic, Severity, EmailEnabled, FailSilently, MaxLost,
  Matched, LastDay, Deadlines, Windows, ProjectDue

VARIABLES
  part,
  share,
  metrics, scope, assigned, item, form,
  versions, mapping,
  created, retired, attached, bound, boundary, itemRow, disclosed, cached, shown,
  event, notice, prefs, digest, mailed, beside, lost,
  day, assignment, point, running, told, reminded, checked, quiet

setupVars == <<metrics, scope, assigned, item, form>>
mappingVars == <<versions, mapping>>
viewVars == <<created, retired, attached, bound, boundary, itemRow, disclosed, cached, shown>>
noticeVars == <<event, notice, prefs, digest, mailed, beside, lost>>
slaVars == <<day, assignment, point, running, told, reminded, checked, quiet>>
allVars == <<part, vars, share, setupVars, mappingVars, viewVars, noticeVars, slaVars>>

Chains == INSTANCE EffectiveOwnership WITH Whole <- Units
Setup == INSTANCE CollectionSetup
  WITH Entities <- Sites, boundary <- scope, assignment <- assigned
Mapping == INSTANCE MappingVersions WITH Requests <- Creations, request <- mapping
Views == INSTANCE ProgressViews WITH Entities <- Covered, point <- bound
Mail == INSTANCE Notices
Sla == INSTANCE AssignmentSla WITH Points <- Matched

ConstantsFit ==
  /\ Whole \in Nat /\ Chains!ConstantsOK
  /\ Setup!ConstantsOK /\ Views!ConstantsOK /\ Mail!ConstantsOK /\ Sla!ConstantsOK
  /\ MaxVersions \in Nat
ASSUME ConstantsAssumption == ConstantsFit

\* A datasheet's items and a project's forms meet in the assignments only.
OneSide == Setup!Used(item) = {} \/ Setup!Used(form) = {}
\* Items are retired, and answers of the dashboard outdated, in projects without a
\* boundary; no answer is kept after items were retired.
RetiredAside ==
  /\ cached = Views!Outdated \/ retired # {} => boundary = {Nowhere}
  /\ retired # {} => cached \in {Views!NotKept, Views!Outdated}

Start ==
  /\ part \in {"graph", "chains", "setup", "mapping", "views", "mail", "sla"}
  /\ Init /\ Chains!Init /\ Setup!Init /\ Mapping!Init /\ Views!Init /\ Mail!Init
  /\ Sla!Init
  \* Only the part that moves starts in more than one state.
  /\ part # "graph" => links = {} /\ \A e \in Entities : owned[e] = 0
  /\ part # "setup" => scope = {Nowhere}
  /\ part # "sla" => /\ assignment.due = Sla!NoDate
                     /\ assignment.after = CHOOSE w \in Windows : TRUE

Step ==
  \/ /\ part = "graph" /\ Next
     /\ UNCHANGED <<part, share, setupVars, mappingVars, viewVars, noticeVars, slaVars>>
  \/ /\ part = "chains" /\ Chains!Next
     /\ UNCHANGED <<part, vars, setupVars, mappingVars, viewVars, noticeVars, slaVars>>
  \/ /\ part = "setup" /\ Setup!Next /\ (Apart => OneSide')
     /\ UNCHANGED <<part, vars, share, mappingVars, viewVars, noticeVars, slaVars>>
  \/ /\ part = "mapping" /\ Mapping!Next
     /\ UNCHANGED <<part, vars, share, setupVars, viewVars, noticeVars, slaVars>>
  \/ /\ part = "views" /\ Views!Next /\ (Apart => RetiredAside')
     /\ UNCHANGED <<part, vars, share, setupVars, mappingVars, noticeVars, slaVars>>
  \/ /\ part = "mail" /\ Mail!Next
     /\ UNCHANGED <<part, vars, share, setupVars, mappingVars, viewVars, slaVars>>
  \/ /\ part = "sla" /\ Sla!Next
     /\ UNCHANGED <<part, vars, share, setupVars, mappingVars, viewVars, noticeVars>>

Composition == Start /\ [][Step]_allVars

-----------------------------------------------------------------------------
\* The types of the seven modules: no operation leaves a malformed row or count.
TypesOK ==
  CASE part = "graph" -> TypeOK
    [] part = "chains" -> Chains!TypeOK
    [] part = "setup" -> Setup!TypeOK
    [] part = "mapping" -> Mapping!TypeOK
    [] part = "views" -> Views!TypeOK
    [] part = "mail" -> Mail!TypeOK
    [] part = "sla" -> Sla!TypeOK

\* Each property is looked at where its module moves; the modules comment on them.
\* Those of OwnershipGraph are checked as they stand.
\* The effective share is the sum over the chains of ownership.
EffectiveFollowsChains == part = "chains" => Chains!EffectiveFollowsChains

\* Datasheet items meet the assignments they are collected by; one form is active in a
\* scope, and the health of a generated form tells how it meets the assignments.
SetupMeetsAssignments ==
  part = "setup" =>
    /\ Setup!ItemsMeetAssignments
    /\ Setup!OneActiveForm
    /\ Setup!HealthTellsDrift

\* Overlapping creations of a mapping leave one current version.
OneCurrentVersion == part = "mapping" => Mapping!OneCurrentVersion

\* The pages that show the progress agree.
ViewsAgree == part = "views" => Views!ViewsAgree

\* People are told what concerns them: mail and digests account for every notice, and
\* escalation keeps up with the days.
PeopleAreTold ==
  /\ part = "mail" => Mail!MailAccounted
  /\ part = "sla" => Sla!EscalationKeepsUp
=============================================================================
