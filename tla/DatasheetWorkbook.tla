--------------------------- MODULE DatasheetWorkbook ---------------------------
(* The reader of an ESG datasheet (scripts/import_bp_esg_datasheet_xlsx.py,     *)
(* parse_workbook) next to someone who writes a sheet row by row.  A row has a  *)
(* label, an indent and, for each year, a number, a text or nothing; the path   *)
(* of a metric is found from the headings and indents above it.                 *)
EXTENDS Naturals, Sequences, FiniteSets, SequencesExt

CONSTANTS
  Rows,      \* [label, depth, unit, cells : year -> "none", "number" or "text"]
  Untitled,  \* no label
  MaxRows

VARIABLES sheet

vars == <<sheet>>

\* A row without a label is skipped, and no label is blank.
RowsOK ==
  /\ MaxRows \in Nat
  /\ \A r \in Rows : r.depth \in Nat /\ r.label # Untitled

TypeOK == sheet \in Seq(Rows) /\ Len(sheet) <= MaxRows

Values(r) == {y \in DOMAIN r.cells : r.cells[y] # "none"}
\* load_sheet_rows: neither a value nor a unit.
IsHeader(r) == Values(r) = {} /\ ~r.unit

-----------------------------------------------------------------------------
(* parse_workbook                                                          *)

\* The indent of the first row with data below row i, or 0.
NextDepth(i) ==
  LET below == {j \in i + 1 .. Len(sheet) : ~IsHeader(sheet[j])}
  IN IF below = {} THEN 0 ELSE sheet[CHOOSE j \in below : \A k \in below : j <= k].depth

\* Mutant: the labels of deeper rows stay.
WithLabelKept(parents, d, label) ==
  [x \in DOMAIN parents \cup {d} |-> IF x = d THEN label ELSE parents[x]]

\* The labels of deeper rows are forgotten.
WithLabel(parents, d, label) ==
  [x \in {y \in DOMAIN parents : y < d} \cup {d} |-> IF x = d THEN label ELSE parents[x]]

NoParents == [d \in {} |-> Untitled]
Blank == [group |-> Untitled, subgroup |-> Untitled, parents |-> NoParents,
          keys |-> {}, metrics |-> <<>>]

\* A heading that is not indented opens a subgroup when the group has begun and the
\* data below is indented, and a group otherwise.
ReadHeading(st, i) ==
  LET r == sheet[i]
      inner == st.group # Untitled /\ NextDepth(i) > 0 /\ r.label # st.group
      group == IF inner THEN st.group ELSE r.label
  IN IF r.depth = 0
     THEN [group |-> group, subgroup |-> IF inner THEN r.label ELSE Untitled,
           parents |-> NoParents, keys |-> st.keys \cup {group}, metrics |-> st.metrics]
     ELSE [group |-> st.group, subgroup |-> st.subgroup,
           parents |-> WithLabel(st.parents, r.depth, r.label),
           keys |-> st.keys, metrics |-> st.metrics]

ParentOf(parents, d) ==
  LET above == {x \in DOMAIN parents : x < d}
  IN IF above = {} THEN Untitled ELSE parents[CHOOSE x \in above : \A y \in above : y <= x]

\* A part of a path that may be missing.
Titled(label) == IF label = Untitled THEN <<>> ELSE <<label>>

\* One text among the years makes every value of the row a text.
Mode(r) == IF \E y \in Values(r) : r.cells[y] = "text" THEN "text" ELSE "number"

\* A row with data above every heading opens a group.
GroupOf(st, r) == IF st.group = Untitled THEN r.label ELSE st.group
InnerOf(st, r) == IF r.depth = 0 THEN Untitled ELSE st.subgroup

PathOf(st, r) ==
  LET group == GroupOf(st, r)
      inner == InnerOf(st, r)
      parent == ParentOf(st.parents, r.depth)
  IN IF r.depth = 0 THEN IF group = r.label THEN <<group>> ELSE <<group, r.label>>
     ELSE <<group>> \o Titled(inner)
          \o Titled(IF parent \in {group, inner} THEN Untitled ELSE parent) \o <<r.label>>

MetricOf(st, i) ==
  LET r == sheet[i]
  IN [row |-> i, path |-> PathOf(st, r), key |-> GroupOf(st, r), mode |-> Mode(r),
      values |-> [y \in Values(r) |-> Mode(r)]]

ReadData(st, i) ==
  LET r == sheet[i]
  IN [group |-> GroupOf(st, r), subgroup |-> InnerOf(st, r),
      parents |-> WithLabel(IF r.depth = 0 THEN NoParents ELSE st.parents, r.depth, r.label),
      keys |-> st.keys \cup (IF st.group = Untitled THEN {r.label} ELSE {}),
      metrics |-> IF Values(r) = {} THEN st.metrics ELSE Append(st.metrics, MetricOf(st, i))]

\* What the first n rows amount to.
Read[n \in Nat] ==
  IF n = 0 THEN Blank
  ELSE IF IsHeader(sheet[n]) THEN ReadHeading(Read[n - 1], n) ELSE ReadData(Read[n - 1], n)

Sheet == Read[Len(sheet)]

\* Metrics with one path are told apart by their rows.
CodeOf(m, metrics) ==
  IF \E n \in Range(metrics) : n.row # m.row /\ n.path = m.path
  THEN <<m.path, m.row>> ELSE <<m.path>>

-----------------------------------------------------------------------------
(* The writer.                                                             *)

Init == sheet = <<>>

WriteRow(r) ==
  /\ Len(sheet) < MaxRows
  /\ sheet' = Append(sheet, r)

Next == \E r \in Rows : WriteRow(r)

Spec == Init /\ [][Next]_vars

-----------------------------------------------------------------------------
\* Every row with a value is one metric with a code of its own, under a disclosure
\* that will exist, with the values of its years, numbers or texts but not both.
ReadsEveryValue ==
  LET read == Sheet
      metrics == Range(read.metrics)
  IN /\ {m.row : m \in metrics} = {i \in DOMAIN sheet : Values(sheet[i]) # {}}
     /\ \A m \in metrics :
          /\ m.key \in read.keys /\ m.path # <<>>
          /\ DOMAIN m.values = Values(sheet[m.row])
          /\ \A y \in DOMAIN m.values : sheet[m.row].cells[y] = "text" => m.values[y] = "text"
          /\ \A y, z \in DOMAIN m.values : m.values[y] = m.values[z]
          /\ \A n \in metrics : n # m => CodeOf(m, read.metrics) # CodeOf(n, read.metrics)

\* The path of an indented row names the nearest row above it that is indented less,
\* back to the last heading that is not indented, and no row between that is not above
\* it: a label that a deeper or an earlier branch left behind gets into no path.
PathsFollowIndents ==
  \A m \in Range(Sheet.metrics) :
    LET i == m.row
        d == sheet[i].depth
        tops == {j \in 1 .. i - 1 : sheet[j].depth = 0 /\ IsHeader(sheet[j])}
        top == IF tops = {} THEN 0 ELSE CHOOSE j \in tops : \A k \in tops : k <= j
        above == {j \in top + 1 .. i - 1 : sheet[j].depth < d}
        nearest == CHOOSE j \in above : \A k \in above : k <= j
        headings == {sheet[j].label : j \in {k \in 1 .. i : sheet[k].depth = 0}} \cup {m.key}
    IN /\ Last(m.path) = sheet[i].label
       /\ above # {} => sheet[nearest].label \in Range(m.path)
       /\ Range(m.path) \subseteq headings \cup {sheet[i].label}
            \cup (IF above = {} THEN {} ELSE {sheet[nearest].label})

DatasheetIsRead == ReadsEveryValue /\ PathsFollowIndents
=============================================================================
