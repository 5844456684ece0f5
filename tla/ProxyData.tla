------------------------------- MODULE ProxyData -------------------------------
(* The proxy tenant, filled by three scripts: the import of an ESG datasheet    *)
(* (import_bp_esg_datasheet_xlsx.py), the framework examples                    *)
(* (seed_bp_proxy_framework_examples.py) and the mix of collection statuses     *)
(* (apply_bp_proxy_collection_status_mix.py).  Each may run again, in any order,*)
(* after users of the tenant worked on.  The tables are one record, db, and a   *)
(* script a set of outcomes: which of several points it takes is open.          *)
EXTENDS Naturals, Sequences, FiniteSets

CONSTANTS
  Workbooks,    \* editions: sets of metrics [code, disclosure, values : year -> value]
  Codes, Disclosures, Years,
  Current,      \* the year that is still being collected
  NoValue,      \* the value a user cleared
  Staff,        \* people of the import -> role
  Critic, Collectors,  \* the reviewer and the collectors of the mix
  Examples,     \* a sequence of [code, standard]
  Datasheet,    \* the standard of the workbook
  NotStarted, InProgress,  \* metrics the mix sets back; the latter -> [clear, unlink, status]
  MaxEdits

VARIABLES db, edits

vars == <<db, edits>>

Accounts == DOMAIN Staff \cup {Critic} \cup Collectors
NoPerson == [active |-> FALSE, role |-> "none"]
NoDuty == [status |-> "none", collector |-> "none"]
FrameRows == {"organization", "root", "boundary", "membership", "standard"}
Keys == Years \X Codes
Key(p) == <<p.year, p.code>>
PointsAt(d, k) == {p \in d.points : Key(p) = k}
Id(p) == <<p.year, p.code, p.nth>>

Init ==
  /\ db = [people |-> [a \in Accounts |-> NoPerson], frame |-> [f \in FrameRows |-> "none"],
           items |-> {},
           projects |-> [y \in Years |-> "none"], attached |-> {}, points |-> {}, bound |-> {},
           linked |-> {}, duties |-> [c \in Codes |-> NoDuty],
           itemStatus |-> [k \in Keys |-> "none"],
           disclosed |-> [k \in Years \X Disclosures |-> "none"], examples |-> {}]
  /\ edits = 0

Worth ==
  {0, NoValue} \cup UNION {{m.values[y] : y \in DOMAIN m.values} : m \in UNION Workbooks}
TypeOK ==
  /\ db.points \subseteq [year : Years, code : Codes, nth : 1..2, value : Worth,
                          status : {"draft", "needs_revision", "approved"}]
  /\ \A p, q \in db.points : Id(p) = Id(q) => p = q
  /\ db.bound \subseteq {Id(p) : p \in db.points} /\ db.linked \subseteq {Id(p) : p \in db.points}
  /\ \A k \in Keys : db.itemStatus[k] \in {"none", "complete", "not_applicable"}
  /\ edits \in 0..MaxEdits

-----------------------------------------------------------------------------
(* The import.                                                             *)

\* upsert_user, upsert_role_binding: an account of a person is active again, and the
\* role in the organization is the one of the import.
People(d) ==
  [a \in Accounts |-> IF a \in DOMAIN Staff THEN [active |-> TRUE, role |-> Staff[a]]
                      ELSE d.people[a]]
\* Rows that are made once, and whose fields are set back.
Tenant(frame) == [frame EXCEPT !["organization"] = "imported", !["root"] = "imported"]
Boundary(frame) == [frame EXCEPT !["boundary"] = "imported", !["membership"] = "imported"]
Standard(frame) == [frame EXCEPT !["standard"] = "imported"]

\* The metrics with a shared element, a requirement item and a mapping.
MetricsOf(w) == {m.code : m \in w}
Items(w, d) == d.items \cup MetricsOf(w)

ProjectsAfter(d) == [y \in Years |-> IF y = Current THEN "active" ELSE "published"]
Attached(d) == d.attached \cup {<<y, Datasheet>> : y \in Years}

\* The keys with a value, and the value.
Given(w) == {<<x[1], x[2].code>> : x \in {y \in Years \X w : y[1] \in DOMAIN y[2].values}}
ValueAt(w, k) == (CHOOSE m \in w : m.code = k[2]).values[k[1]]
Imported(w, k, n) ==
  [year |-> k[1], code |-> k[2], nth |-> n, value |-> ValueAt(w, k), status |-> "approved"]

\* Mutant: a point that is there keeps the status its workflow gave it.
StatusKept(w, d) ==
  {p \in d.points : Key(p) \notin Given(w) \/ Cardinality(PointsAt(d, Key(p))) > 1}
  \cup {Imported(w, k, 1) : k \in {x \in Given(w) : PointsAt(d, x) = {}}}
  \cup {[p EXCEPT !.value = ValueAt(w, Key(p))] :
          p \in {q \in d.points : Key(q) \in Given(w) /\ PointsAt(d, Key(q)) = {q}}}

\* upsert_data_point: of several points of one key none is changed.
PointsAfter(w, d) ==
  {p \in d.points : Key(p) \notin Given(w) \/ Cardinality(PointsAt(d, Key(p))) > 1}
  \cup {Imported(w, k, 1) : k \in {x \in Given(w) : PointsAt(d, x) = {}}}
  \cup {Imported(w, Key(p), p.nth) :
          p \in {q \in d.points : Key(q) \in Given(w) /\ PointsAt(d, Key(q)) = {q}}}

\* The point of a key the import goes on with: any, where there are several.
Chosen(w, points) ==
  {chosen \in SUBSET {Id(p) : p \in {q \in points : Key(q) \in Given(w)}} :
     \A k \in Given(w) : Cardinality({i \in chosen : <<i[1], i[2]>> = k}) = 1}

\* upsert_assignment, for the year that is being collected
Duties(w, d) ==
  [c \in Codes |-> IF <<Current, c>> \in Given(w)
                   THEN [status |-> "completed", collector |-> "collector"] ELSE d.duties[c]]

ItemStatus(w, d) ==
  [k \in Keys |-> IF k \in Given(w) THEN "complete"
                  ELSE IF k[2] \in MetricsOf(w) THEN "not_applicable" ELSE d.itemStatus[k]]

\* upsert_disclosure_status: every applicable item is complete, so none is partial.
Disclosed(w, d) ==
  [k \in Years \X Disclosures |->
     LET metrics == {m \in w : m.disclosure = k[2]}
     IN IF metrics = {} THEN d.disclosed[k]
        ELSE IF \E m \in metrics : k[1] \in DOMAIN m.values THEN "complete" ELSE "missing"]

\* ensure_data_point_evidence
Linked(d, chosen) == d.linked \cup {i \in chosen : i[1] = Current}

Imports(w, d) ==
  LET points == PointsAfter(w, d)
  IN {[people |-> People(d), frame |-> Standard(Boundary(Tenant(d.frame))),
       items |-> Items(w, d), projects |-> ProjectsAfter(d), attached |-> Attached(d),
       points |-> points, bound |-> d.bound \cup chosen, linked |-> Linked(d, chosen),
       duties |-> Duties(w, d), itemStatus |-> ItemStatus(w, d),
       disclosed |-> Disclosed(w, d), examples |-> d.examples] : chosen \in Chosen(w, points)}

-----------------------------------------------------------------------------
(* The framework examples: no transaction, and an element that is missing ends  *)
(* the script after the examples before it.                                     *)

Possible(d) == {n \in 0..Len(Examples) : \A i \in 1..n : Examples[i].code \in d.items}
Exampled(n, d) ==
  [d EXCEPT !.attached = @ \cup {<<Current, Examples[i].standard>> : i \in 1..n},
            !.examples = @ \cup {Examples[i] : i \in 1..n}]

-----------------------------------------------------------------------------
(* The mix of statuses in the year that is being collected.                *)

Assigned(d) == {c \in Codes : d.duties[c] # NoDuty}
\* ensure_user, before the transaction of the mix
Hired(d) ==
  [d EXCEPT !.people = [a \in Accounts |-> IF a \in Collectors
                          THEN [active |-> TRUE, role |-> "collector"] ELSE d.people[a]]]

\* fetch_assignment_rows, points and not ids
RowsOf(d, codes) == {p \in d.points : p.year = Current /\ p.code \in codes \cap Assigned(d)}

\* Of several points of a metric in progress the last row counts.
Taken(d) ==
  LET rows == RowsOf(d, DOMAIN InProgress)
  IN {taken \in SUBSET rows : \A c \in {p.code : p \in rows} :
        Cardinality({p \in taken : p.code = c}) = 1}

SetBack(p) ==
  [p EXCEPT !.status = InProgress[p.code].status,
            !.value = IF InProgress[p.code].clear THEN NoValue ELSE @]

\* A point that is deleted takes its bindings and links along.
Mixed(d, taken, who) ==
  LET gone == RowsOf(d, NotStarted)
      waiting == RowsOf(d, DOMAIN InProgress)
      points == {p \in d.points : p.year # Current}
                \cup {SetBack(p) : p \in taken} \cup (waiting \ taken)
                \cup {[p EXCEPT !.status = "approved"] :
                        p \in {q \in d.points : q.year = Current} \ (gone \cup waiting)}
      ids == {Id(p) : p \in points}
  IN [d EXCEPT
        !.points = points, !.bound = @ \cap ids,
        !.linked = (@ \cap ids) \ {Id(p) : p \in {q \in taken : InProgress[q.code].unlink}},
        !.duties =
          [c \in Codes |->
             CASE c \notin Assigned(d) -> NoDuty
               [] c \in Assigned(d) \cap NotStarted ->
                    [status |-> "assigned", collector |-> who[c]]
               [] c \in Assigned(d) \cap DOMAIN InProgress ->
                    IF c \in {p.code : p \in taken}
                    THEN [status |-> "in_progress", collector |-> who[c]] ELSE d.duties[c]
               [] OTHER -> [status |-> "completed", collector |-> "none"]]]

\* Who collects what is fixed in the script.
Shares == [NotStarted \cup DOMAIN InProgress -> Collectors]
Mixes(d) == {Mixed(Hired(d), taken, who) : taken \in Taken(d), who \in Shares}
Reviewed(d) == d.people[Critic].role = "reviewer"

-----------------------------------------------------------------------------
(* Runs of the scripts, and what users do between them.                    *)

RunImport(w) == db' \in Imports(w, db) /\ UNCHANGED edits
RunExamples == (\E n \in Possible(db) : db' = Exampled(n, db)) /\ UNCHANGED edits
\* Without the reviewer the mix ends before it writes; it may end after the accounts.
RunMix ==
  /\ db.projects[Current] # "none" /\ Reviewed(db)
  /\ \/ db' \in Mixes(db)
     \/ db' = Hired(db)
  /\ UNCHANGED edits

Edit(d) == edits < MaxEdits /\ edits' = edits + 1 /\ db' = d

ChangePerson(a, active, role) == Edit([db EXCEPT !.people[a] = [active |-> active, role |-> role]])
ChangeFrame(f) == db.frame[f] # "none" /\ Edit([db EXCEPT !.frame[f] = "changed"])
ChangeProject(y) == db.projects[y] # "none" /\ Edit([db EXCEPT !.projects[y] = "review"])
ReopenPoint(p) ==
  Edit([db EXCEPT !.points = (@ \ {p}) \cup {[p EXCEPT !.value = NoValue, !.status = "draft"]}])
SecondPoint(p) ==
  /\ p.nth = 1
  /\ Edit([db EXCEPT !.points = @ \cup {[p EXCEPT !.nth = 2, !.value = 0, !.status = "draft"]}])
UnlinkEvidence(i) == Edit([db EXCEPT !.linked = @ \ {i}])
Reassign(c, a) ==
  db.duties[c] # NoDuty /\ Edit([db EXCEPT !.duties[c].collector = a])

Next ==
  \/ \E w \in Workbooks : RunImport(w)
  \/ RunExamples \/ RunMix
  \/ \E a \in {"collector", Critic}, active \in BOOLEAN : ChangePerson(a, active, "reviewer")
  \/ \E f \in FrameRows : ChangeFrame(f)
  \/ \E y \in Years : ChangeProject(y)
  \/ \E c \in Codes : Reassign(c, Critic)
  \/ \E p \in db.points : ReopenPoint(p) \/ (Cardinality(PointsAt(db, Key(p))) = 1 /\ SecondPoint(p))
  \/ \E i \in db.linked : UnlinkEvidence(i)

Spec == Init /\ [][Next]_vars

-----------------------------------------------------------------------------
\* Whatever users and the mix did, an import ends with what the workbook says: each
\* value is in the one approved point of its key, bound to an item that is
\* complete, with a link to the workbook and a completed assignment in the year that
\* is being collected; rows of other metrics stand; and running it again changes
\* nothing.  Only a key with several points is left to its users.
ImportRestores ==
  \A w \in Workbooks : \A d \in Imports(w, db) :
    /\ d \in Imports(w, d)
    /\ \A k \in Given(w) : Cardinality(PointsAt(db, k)) < 2 =>
         \E p \in d.points :
           /\ PointsAt(d, k) = {p} /\ p.value = ValueAt(w, k) /\ p.status = "approved"
           /\ Id(p) \in d.bound /\ p.code \in d.items
           /\ d.itemStatus[k] = "complete" /\ d.projects[p.year] # "review"
           /\ p.year = Current => Id(p) \in d.linked /\ d.duties[p.code].status = "completed"
    /\ \A p \in db.points : p.code \notin MetricsOf(w) => p \in d.points
    /\ \A a \in DOMAIN Staff : d.people[a] = [active |-> TRUE, role |-> Staff[a]]
    /\ "changed" \notin {d.frame[f] : f \in FrameRows}

\* After the mix the assignments and the points of the year tell one story: nothing
\* was collected for the metrics not started, what was taken in progress is not
\* approved, and the rest is; a second run changes nothing.
MixTells ==
  Reviewed(db) => \A d \in Mixes(db) :
    /\ d \in Mixes(d)
    /\ \A c \in Assigned(d) :
         LET points == PointsAt(d, <<Current, c>>)
         IN /\ d.duties[c].status = "assigned" <=> c \in NotStarted
            /\ c \in NotStarted => points = {}
            /\ d.duties[c].status = "completed" => \A p \in points : p.status = "approved"
            /\ c \in DOMAIN InProgress /\ points # {} =>
                 d.duties[c].status = "in_progress" /\ \E p \in points : p.status # "approved"

\* Stopped anywhere, the examples are finished by another run.
ExamplesResume ==
  \A n \in Possible(db), k \in Possible(db) :
    k >= n => Exampled(k, Exampled(n, db)) = Exampled(k, db)

ScriptsRepeat == ImportRestores /\ MixTells /\ ExamplesResume
=============================================================================
