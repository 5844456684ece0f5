------------------------------ MODULE Reporting ------------------------------
(***************************************************************************)
(* PointPages next to the other services around what is reported:          *)
(* EvidenceLinks, Catalogue, ProxyData, AssignmentPlanning, EventFanout.   *)
(* They share no state: in every behaviour one of them moves and the       *)
(* others stand in an initial state.                                       *)
(***************************************************************************)
EXTENDS PointPages

CONSTANTS
  \* EvidenceLinks
  Evidences, Authored, Holdings, BindableItems, StandardsOfItems,
  \* Catalogue
  Editions, Umbrella, ElementOf, NoText, MaxVersion, MaxRuns, MaxChanges,
  \* ProxyData
  Workbooks, SheetCodes, Disclosures, Years, ThisYear, NoValue, Staff, Critic, Collectors,
  Examples, Datasheet, NotStarted, InProgress, MaxRepairs,
  \* AssignmentPlanning
  Requirements, OwnCodes, Parent, InBoundary, Places, Assignees, Eligible, Staffings,
  Companies, MaxRows, MaxCommits,
  \* EventFanout
  Requests, ChangedRows, Jobs, Recipients, Wants, NamedPeople, PoolSize, MaxFailures

VARIABLES
  part,
  evidence, stored, links, bindings, reported, valid, held, approved, request, deletion,
  standards, disclosures, items, elements, mappings, batch, changes,
  db, repairs,
  company, staffed, added, rows, collected, planning, raced, commits,
  call, told, unread, failed, order

evidenceVars ==
  <<evidence, stored, links, bindings, reported, valid, held, approved, request, deletion>>
catalogueVars == <<standards, disclosures, items, elements, mappings, batch, changes>>
proxyVars == <<db, repairs>>
planningVars == <<company, staffed, added, rows, collected, planning, raced, commits>>
eventVars == <<call, told, unread, failed, order>>
serviceVars == <<vars, evidenceVars, catalogueVars, proxyVars, planningVars, eventVars>>
allVars == <<part, serviceVars>>

Files == INSTANCE EvidenceLinks
  WITH Points <- Authored, Assignments <- Holdings, Standards <- StandardsOfItems,
       Items <- BindableItems, attached <- reported, current <- valid, duty <- held
Imports == INSTANCE Catalogue WITH MaxEdits <- MaxChanges, count <- changes
Proxy == INSTANCE ProxyData
  WITH Codes <- SheetCodes, Current <- ThisYear, MaxEdits <- MaxRepairs, edits <- repairs
Planning == INSTANCE AssignmentPlanning
  WITH Scopes <- Places, Users <- Assignees, Teams <- Staffings,
       attached <- staffed, points <- collected, request <- planning
Events == INSTANCE EventFanout
  WITH RoleOf <- Recipients, Rows <- ChangedRows, Targets <- NamedPeople, request <- call

ASSUME PagesFit ==
  /\ Points \subseteq [project : Projects, element : DOMAIN Allowed,
                       entity : Entities \cup {Nowhere}, facility : Entities \cup {Nowhere}]
  /\ Nowhere \notin Entities /\ NoBoundary \notin DOMAIN Members
  /\ \A b \in DOMAIN Members : Members[b] \in [Entities -> {"full", "share", "excluded", "none"}]
  /\ Assignments \subseteq [id : Nat, project : Projects, element : DOMAIN Allowed,
                            entity : Entities \cup {Nowhere}, facility : Entities \cup {Nowhere}]
  /\ IsFiniteSet(Assignments)
  /\ \A a, b \in Assignments : a.id = b.id => a = b
  /\ FirstTeams \in [Assignments -> Teams]
  /\ DaysLeft \in [Assignments -> Int] /\ NoDate \in Int
  /\ FirstStandard \in {m.standard : m \in Mappings} /\ MaxEdits \in Nat

ASSUME EventsFit ==
  /\ IsFiniteSet(Requests) /\ PoolSize \in Nat /\ MaxFailures \in Nat
  /\ NamedPeople \subseteq SUBSET DOMAIN Recipients
  /\ \A job \in Jobs :
       /\ job.kind \in Events!Kinds /\ job.rows \in Seq(ChangedRows)
       /\ \A i, j \in DOMAIN job.rows : job.rows[i] = job.rows[j] => i = j

ASSUME ProxyFit ==
  /\ ThisYear \in Years /\ MaxRepairs \in Nat
  /\ \A w \in Workbooks : \A m \in w :
       /\ m.code \in SheetCodes /\ m.disclosure \in Disclosures
       /\ \A n \in w : n.code = m.code => n = m
  /\ Len(Examples) \in Nat
  /\ DOMAIN InProgress \cap NotStarted = {}
  /\ \A c \in DOMAIN InProgress : InProgress[c].status \in {"draft", "needs_revision"}

ASSUME CatalogueFit ==
  /\ IsFiniteSet(DOMAIN ElementOf)
  /\ MaxVersion \in Nat \ {0} /\ MaxRuns \in Nat /\ MaxChanges \in Nat
  /\ \A e \in Editions :
       /\ IsFiniteSet(e.disclosures)
       /\ \A x \in e.disclosures :
            /\ DOMAIN x.items \subseteq DOMAIN ElementOf
            /\ \A y \in e.disclosures : y.code = x.code => y = x

ASSUME PlanningFit ==
  /\ IsFiniteSet(Requirements) /\ Nobody \notin Assignees
  /\ MaxRows \in Nat /\ MaxCommits \in Nat
  /\ \A scope \in Places : scope = [entity |-> scope.entity, facility |-> scope.facility]
  /\ Staffings \subseteq [Planning!Duties -> Assignees \cup {Nobody}]
  /\ Eligible \in [Planning!Duties -> SUBSET Assignees]

Stand ==
  /\ Init /\ Files!Init /\ Imports!Init /\ Proxy!Init /\ Planning!Init /\ Events!Init
  \* Only the part that moves starts in more than one state.
  /\ part # "planning" => company = CHOOSE c \in Companies : TRUE
  /\ part # "pages" => comments = <<>> /\ \A p \in Points : point[p].by = Nobody

\* The last three are the readers of documents, which ReportingMC adds.
Parts == {"pages", "files", "catalogue", "proxy", "planning", "events",
          "documents", "industry", "workbook"}
Start == part \in Parts /\ Stand

Step ==
  \/ /\ part = "pages" /\ Next
     /\ UNCHANGED <<part, evidenceVars, catalogueVars, proxyVars, planningVars, eventVars>>
  \/ /\ part = "files" /\ Files!Next
     /\ UNCHANGED <<part, vars, catalogueVars, proxyVars, planningVars, eventVars>>
  \/ /\ part = "catalogue" /\ Imports!Next
     /\ UNCHANGED <<part, vars, evidenceVars, proxyVars, planningVars, eventVars>>
  \/ /\ part = "proxy" /\ Proxy!Next
     /\ UNCHANGED <<part, vars, evidenceVars, catalogueVars, planningVars, eventVars>>
  \/ /\ part = "planning" /\ Planning!Next
     /\ UNCHANGED <<part, vars, evidenceVars, catalogueVars, proxyVars, eventVars>>
  \/ /\ part = "events" /\ Events!Next
     /\ UNCHANGED <<part, vars, evidenceVars, catalogueVars, proxyVars, planningVars>>

Composition == Start /\ [][Step]_allVars

-----------------------------------------------------------------------------
\* The types of the modules: no operation leaves a malformed row or count, a reference
\* to a row that is not there, or more connections in use than the pool has.
TypesOK ==
  /\ part = "pages" => TypeOK
  /\ part = "files" => Files!TypeOK
  /\ part = "catalogue" => Imports!TypeOK
  /\ part = "proxy" => Proxy!TypeOK
  /\ part = "planning" => Planning!TypeOK
  /\ part = "events" => Events!TypeOK

\* Each property is looked at where its module moves; the modules comment on them.
\* The pages agree on who may read an evidence, and what is bound fits its context; they
\* agree on the points a user may open and on what they tell of a point and its comments.
PagesHold ==
  /\ part = "files" => Files!AccessAgrees /\ Files!EvidenceInContext
  /\ part = "pages" => ListsAreOpenable /\ PagesAgree /\ DeadlinesAgree /\ ThreadsAreWhole

\* Imports leave the catalogue that the documents describe.
CatalogueFollows == Imports!CatalogueFollows

\* The scripts of the proxy tenant can be repeated, also after users worked on.
ScriptsRepeat == part = "proxy" => Proxy!ScriptsRepeat

\* A project is staffed, and its boundary changed, as the pages that plan it say.
AssignmentsPlanned == Planning!AssignmentsPlanned /\ PreviewIsKept

\* Committed changes are told to all concerned, in the order of the commits.
EventsReachAll == part = "events" => Events!EventsReachAll
=============================================================================
