------------------------------ MODULE ReportingMC ------------------------------
(* Reporting on small tables, next to the readers of published standards,        *)
(* StandardDocuments and IndustryDocuments, and of the ESG datasheet,            *)
(* DatasheetWorkbook: they too share no state, and one part moves.               *)
EXTENDS Reporting, TLC

VARIABLES
  form, doc, truth,
  book, lines, meaning,
  sheet

documentVars == <<form, doc, truth>>
industryVars == <<book, lines, meaning>>

\* An administrator, the collector who wrote both points, and a reviewer; one point
\* belongs to a facility of an entity, and the assignment of the other to an entity.
Office == [chief |-> "admin", clerk |-> "collector", critic |-> "reviewer"]
Water(project, entity, facility) ==
  [project |-> project, element |-> "water", entity |-> entity, facility |-> facility]
Written(project, entity, facility) == Water(project, entity, facility) @@ ("by" :> "clerk")
WrittenPoints == {Written(1, "root", "site"), Written(2, "none", "none")}
HeldFor == {Water(1, "none", "site"), Water(2, "root", "none")}
AskedItems == {[standard |-> "s1"]}

\* GRI 302 has two editions, the second without item b; the scripts of the other
\* sources have one each.
Edition(script, standard, section, code, content) ==
  [script |-> script, standard |-> standard,
   disclosures |-> {[section |-> section, code |-> code, items |-> content]}]
OfItem(code, text) == [c \in {code} |-> text]
GriEditions ==
  {Edition("gri", "GRI", "GRI 302", "302-1", ("a" :> "t1" @@ "b" :> "t1")),
   Edition("gri", "GRI", "GRI 302", "302-1", OfItem("a", "t2"))}
OtherEditions ==
  {Edition(s, "GRI", s, s, OfItem("b", "t1")) : s \in {"gri2", "gri3"}}
    \cup {Edition(s, s, "S", "d", OfItem("b", "t1")) :
            s \in {"sector", "esrs", "esrs2", "law", "sasb"}}
PublishedEditions == GriEditions \cup OtherEditions
ElementCodes == [c \in {"a", "b"} |-> IF c = "a" THEN "SE-A" ELSE "SE-B"]

\* Two editions of the datasheet: the second has another value for c1, no c2 and c3.
Metric(code, disclosure, values) ==
  [code |-> code, disclosure |-> disclosure, values |-> values]
BookEditions ==
  {{Metric("c1", "D1", 2023 :> 1 @@ 2024 :> 1), Metric("c2", "D1", 2024 :> 1)},
   {Metric("c1", "D1", 2024 :> 2), Metric("c3", "D2", 2023 :> 1 @@ 2024 :> 1)}}
ImportStaff == [admin |-> "admin", collector |-> "collector"]
FrameworkExamples ==
  <<[code |-> "c1", standard |-> "GRI"], [code |-> "c3", standard |-> "ESRS"]>>
SetInProgress == "c2" :> [clear |-> TRUE, unlink |-> TRUE, status |-> "draft"]

\* Two standards share one metric; a site with a default collector, and a group with a
\* default reviewer; in the second company the site is the only active entity or not.
Requirement(standard, element, full) ==
  [standard |-> standard, element |-> element, full |-> full]
ProjectRequirements ==
  {Requirement("s1", "e1", TRUE), Requirement("s2", "e1", FALSE),
   Requirement("s2", "e2", TRUE)}
EntityParent == [e \in {"root", "sub"} |-> IF e = "sub" THEN "root" ELSE "none"]
PlanScopes ==
  {[entity |-> "sub", facility |-> "none"], [entity |-> "sub", facility |-> "root"]}
EligibleFor ==
  [collector |-> {"u", "v"}, reviewer |-> {"v", "w"}, backup |-> {"u", "v"}]
Team(collector, reviewer, backup) ==
  [collector |-> collector, reviewer |-> reviewer, backup |-> backup]
PlanTeams == {Team("nobody", "nobody", "u"), Team("u", "v", "nobody")}
Owners(collector, reviewer) == [collector |-> collector, reviewer |-> reviewer]
PlanCompanies ==
  {[owners |-> ("sub" :> Owners("v", "nobody") @@ "root" :> Owners("nobody", "w")),
    active |-> {"root", "sub"}],
   [owners |-> ("sub" :> Owners("w", "nobody") @@ "root" :> Owners("v", "v")),
    active |-> {"root"}]}

\* Two requests and three connections; one job changes two rows, the other ones one; the
\* collector has switched off the notices in the application.
Job(kind, sequence) == [kind |-> kind, rows |-> sequence]
PublishingJobs ==
  {Job("assignmentUpdated", <<"x", "y">>), Job("assignmentUpdated", <<"y">>),
   Job("reviewStarted", <<"x">>), Job("assignmentCreated", <<"y">>),
   Job("completenessUpdated", <<"x">>)}
OfficeRoles == [clerk |-> "collector", boss |-> "esg_manager"]
OfficeWants == [clerk |-> {"email"}, boss |-> {"in_app", "email"}]
NamedUsers == {{"clerk", "boss"}}

\* Points of the group and of its site in the first project, and one of the second; the
\* site has an assignment of its own, the second project one without an entity.
PagePoint(project, entity, facility) ==
  [project |-> project, element |-> "water", entity |-> entity, facility |-> facility]
PagePoints ==
  {PagePoint(1, "root", "none"), PagePoint(1, "root", "site"), PagePoint(2, "none", "none")}
PageDuty(id, project, entity, facility) ==
  [id |-> id, project |-> project, element |-> "water", entity |-> entity,
   facility |-> facility]
OfTheGroup == PageDuty(1, 1, "root", "none")
OfTheSite == PageDuty(2, 1, "root", "site")
InTheSecond == PageDuty(3, 2, "none", "none")
PageDuties == {OfTheGroup, OfTheSite, InTheSecond}
PageTeam(collector, backup, reviewer) ==
  [collector |-> collector, backup |-> backup, reviewer |-> reviewer]
NoTeam == PageTeam("nobody", "nobody", "nobody")
PageTeams == {NoTeam, PageTeam("clerk", "nobody", "critic"), PageTeam("nobody", "clerk", "nobody")}
FirstTeam == [a \in PageDuties |->
  IF a = OfTheSite THEN NoTeam ELSE PageTeam("clerk", "nobody", "critic")]
Deadlines == [a \in PageDuties |->
  IF a = OfTheSite THEN -3 ELSE IF a = OfTheGroup THEN 0 ELSE 99]
Scopes == [wide |-> [e \in {"root", "site"} |-> IF e = "root" THEN "full" ELSE "share"],
           narrow |-> [e \in {"root", "site"} |-> IF e = "root" THEN "full" ELSE "excluded"],
           small |-> [e \in {"root", "site"} |-> IF e = "root" THEN "none" ELSE "full"]]
PageMappings ==
  {[item |-> "i1", standard |-> "s1", element |-> "water"],
   [item |-> "i2", standard |-> "s2", element |-> "water"]}
StoredKinds == [e \in {"water"} |-> {"gas", "scope"}]
Dim(type, value) == [type |-> type, value |-> value]
DimPayloads ==
  {<<>>, <<Dim("gas", 1), Dim("scope", 1)>>, <<Dim("gas", 1), Dim("gas_type", 2)>>,
   <<Dim("category", 1)>>}
-----------------------------------------------------------------------------
(* The readers of documents.                                               *)

\* A clause is whole or two clauses in one, whose second can be two again.
ClauseParts ==
  [f \in {"whole", "pair", "more"} |->
     CASE f = "whole" -> <<>> [] f = "pair" -> <<"whole", "more">>
       [] f = "more" -> <<"whole", "whole">>]
TableCells == {<<"plain">>, <<"bullet">>, <<"plain", "mark", "plain", "bullet">>}
Lengths == [topic |-> 8, general |-> 6, sector |-> 7]
Documents == INSTANCE StandardDocuments
  WITH Disclosures <- {"d1", "d2"}, Raws <- {"a"}, Foreign <- "x",
       Fragments <- {"whole", "pair"},
       Parts <- ClauseParts, Groups <- {"management", "additional"}, Cells <- TableCells,
       MaxLines <- Lengths

Shape(numbers, letters, crossed) ==
  [numbers |-> numbers, letters |-> letters, crossed |-> crossed]
TitleShapes == {Shape(1, 1, FALSE), Shape(2, 2, TRUE), Shape(1, 3, FALSE)}
BulletLists == {<<"x">>, <<"x", "y", "x">>}
SectionNames == [c \in {"c1", "c2"} |-> "S"]
TitleInitials == [t \in {"t1", "t2"} |-> "T"]
TitleSlugs == [t \in {"t1", "t2"} |-> "slug"]
BookLengths == [esrs |-> 5, esrs2 |-> 5, sasb |-> 7]
Industry == INSTANCE IndustryDocuments
  WITH Codes <- {"c1", "c2"}, SectionOf <- SectionNames, Clauses <- {"q1"},
       Bullets <- BulletLists, Titles <- {"t1", "t2"}, Initials <- TitleInitials,
       SlugOf <- TitleSlugs, Shapes <- TitleShapes, MaxLines <- BookLengths,
       form <- book, doc <- lines, truth <- meaning

\* Rows without values are headings, by their depth; units are titles of their own.
NoCell == [y \in {2023, 2024} |-> "none"]
Numbers == [y \in {2023, 2024} |-> "number"]
TextAndNumber == [y \in {2023, 2024} |-> IF y = 2023 THEN "text" ELSE "number"]
OneNumber == [y \in {2023, 2024} |-> IF y = 2023 THEN "none" ELSE "number"]
SheetRow(label, depth, unit, cells) ==
  [label |-> label, depth |-> depth, unit |-> unit, cells |-> cells]
SheetRows ==
  {SheetRow(l, d, FALSE, c) : l \in {"a", "b"}, d \in 0..3, c \in {NoCell, Numbers}}
    \cup {SheetRow("b", d, TRUE, NoCell) : d \in 0..1}
    \cup {SheetRow("a", 1, TRUE, TextAndNumber), SheetRow("a", 0, TRUE, OneNumber)}
Workbook == INSTANCE DatasheetWorkbook
  WITH Rows <- SheetRows, Untitled <- "untitled", MaxRows <- 4
ASSUME DatasheetFit == Workbook!RowsOK

Begin ==
  /\ Start /\ Documents!Init /\ Industry!Init /\ Workbook!Init
  /\ part # "documents" => form = "topic"
  /\ part # "industry" => book = "esrs"

Turn ==
  \/ Step /\ UNCHANGED <<documentVars, industryVars, sheet>>
  \/ /\ part = "documents" /\ Documents!Next
     /\ UNCHANGED <<part, serviceVars, industryVars, sheet>>
  \/ /\ part = "industry" /\ Industry!Next
     /\ UNCHANGED <<part, serviceVars, documentVars, sheet>>
  \/ /\ part = "workbook" /\ Workbook!Next
     /\ UNCHANGED <<part, serviceVars, documentVars, industryVars>>

Everything == Begin /\ [][Turn]_<<allVars, documentVars, industryVars, sheet>>

-----------------------------------------------------------------------------
\* The readers of GRI and sector standards, of ESRS workbooks and SASB standards, and of
\* the datasheet find what the writers of the documents meant, in any document they write.
DocumentsAreRead ==
  /\ part = "documents" => Documents!TypeOK /\ Documents!ReadsWhatIsWritten
  /\ part = "industry" => Industry!TypeOK /\ Industry!ReadsWhatIsWritten
  /\ part = "workbook" => Workbook!TypeOK /\ Workbook!DatasheetIsRead
=============================================================================
