------------------------- MODULE StandardDocuments -------------------------
(***************************************************************************)
(* How the import scripts read the GRI standards: the topic standards      *)
(* (docx), GRI 2 and GRI 3 (the text of a pdf) and the sector standards    *)
(* (docx with tables).  A writer puts a document together line by line and *)
(* keeps what it means in `truth`; the parsers read the lines.             *)
(*                                                                         *)
(* A line is what the regular expressions make of it, [is, v].  A text is  *)
(* the sequence of its fragments, one per line.                            *)
(***************************************************************************)
EXTENDS Naturals, Sequences, FiniteSets, SequencesExt

CONSTANTS
  Disclosures,  \* raw codes of the section's disclosures
  Raws,         \* raw codes of data points
  Foreign,      \* a raw code of another section
  Fragments,    \* texts a line may hold
  Parts,        \* fragment -> the fragments the splitters make of it, or <<>>
  Groups,       \* of rows in a sector standard; one of them is "additional"
  Cells,        \* the paragraphs of a table's row, each "plain", "bullet" or "mark"
  MaxLines      \* form -> lines of a document

VARIABLES
  form,   \* "topic", "general" (GRI 2 and GRI 3) or "sector"
  doc,    \* the lines
  truth   \* what the writer means by them, a sequence of sections

vars == <<form, doc, truth>>

Line(is, v) == [is |-> is, v |-> v]
Kinds == {"disclosure", "topic", "requirements", "guidance", "datapoint", "point", "page",
          "text", "shall", "letter", "roman", "noise", "heading", "reference", "tableTitle",
          "bullet", "table", "columns", "group", "entry", "more"}
Rows == {"columns", "group", "entry", "more"}

LeastOf(S) == CHOOSE i \in S : \A j \in S : i <= j
GreatestOf(S) == CHOOSE i \in S : \A j \in S : i >= j
\* The first line of a kind among lines from .. to-1, or `to`.
FirstOf(is, from, to) == LeastOf({i \in from..to - 1 : doc[i].is = is} \cup {to})
After(S, i) == LeastOf({j \in S : j > i} \cup {Len(doc) + 1})
Extended(s, fragments) == [s EXCEPT ![Len(s)].text = @ \o fragments]

-----------------------------------------------------------------------------
(* import_gri_docx.py: a topic standard.                                   *)

Headings == {i \in DOMAIN doc : doc[i].is = "disclosure" /\ doc[i].v # Foreign}

\* A heading counts when its own lines hold the requirements and one of the others;
\* the contents and references to a disclosure have the same form.
Actual ==
  {i \in Headings :
     LET kinds == {doc[j].is : j \in i + 1..After(Headings, i) - 1}
     IN "requirements" \in kinds /\ kinds \cap {"guidance", "datapoint"} # {}}

\* collect_datapoints: any other line is a part of the label above it.
Collected(lines) ==
  FoldLeft(LAMBDA s, l :
    IF s.ended \/ l.is \in {"disclosure", "page"} THEN [s EXCEPT !.ended = TRUE]
    ELSE IF l.is = "point"
         THEN [s EXCEPT !.points = Append(@, [raw |-> l.v, text |-> <<l.is>>])]
         ELSE IF s.points = <<>> THEN s
              ELSE [s EXCEPT !.points = Extended(@, <<l.is>>)],
    [ended |-> FALSE, points |-> <<>>], lines).points

\* normalize_unique_item_codes: a raw code that repeats is numbered.
Numbered(points) ==
  [i \in DOMAIN points |->
     LET same == {j \in DOMAIN points : points[j].raw = points[i].raw}
     IN [code |-> IF same = {i} THEN <<points[i].raw>>
                  ELSE <<points[i].raw, Cardinality({j \in same : j <= i})>>,
         text |-> points[i].text]]

\* The data points of the section that starts at a heading.
PointsAt(i) ==
  LET end == After(Actual, i)
      required == FirstOf("requirements", i + 1, end)
      marker == FirstOf("datapoint", required + 1, end)
  IN IF marker = end THEN <<>>
     ELSE Numbered(SelectSeq(Collected(SubSeq(doc, marker + 1, end - 1)),
                             LAMBDA p : p.raw # Foreign))

\* Of two sections with one code the later counts.
ParseTopic ==
  [d \in {doc[i].v : i \in Actual} |-> PointsAt(GreatestOf({i \in Actual : doc[i].v = d}))]

-----------------------------------------------------------------------------
(* import_gri_2_pdf.py and import_gri_3_pdf.py.                            *)

Starts ==
  {i \in Headings :
     \E j \in i + 1..After(Headings, i) - 1 : doc[j].is = "requirements"}

\* parse_disclosure_heading
TitleLines(i) ==
  LET stop == LeastOf({j \in i + 1..After(Starts, i) - 1 :
                         doc[j].is \in {"shall", "requirements", "guidance"}}
                      \cup {After(Starts, i)})
  IN SelectSeq(SubSeq(doc, i + 1, stop - 1), LAMBDA l : l.is # "noise")

\* Mutant: a line that wraps is taken for more of the letter's text.
ClausesOfLetters(lines) ==
  FoldLeft(LAMBDA s, l :
    CASE l.is = "noise" -> s
      [] l.is = "roman" /\ s # <<>> ->
           [s EXCEPT ![Len(s)].children = Append(@, [text |-> <<l.v>>])]
      [] l.is = "letter" -> Append(s, [text |-> <<l.v>>, children |-> <<>>])
      [] OTHER -> IF s = <<>> THEN s ELSE Extended(s, <<l.v>>),
    <<>>, lines)

\* parse_requirement_clauses: letters, the romans under them, and lines that go on.
Clauses(lines) ==
  FoldLeft(LAMBDA s, l :
    CASE l.is = "noise" -> s
      [] l.is = "roman" /\ s # <<>> ->
           [s EXCEPT ![Len(s)].children = Append(@, [text |-> <<l.v>>])]
      [] l.is = "letter" -> Append(s, [text |-> <<l.v>>, children |-> <<>>])
      [] OTHER -> IF s = <<>> THEN s
                  ELSE IF s[Len(s)].children = <<>> THEN Extended(s, <<l.v>>)
                  ELSE [s EXCEPT ![Len(s)].children = Extended(@, <<l.v>>)],
    <<>>, lines)

\* The code of an item: its clause, and the parts it was split into.
CodeOf(clause) == [clause |-> clause, part |-> <<>>]

\* clause_leaves (GRI 2): a child is read with the text of its parent.
LeafClauses(clauses) ==
  FlattenSeq([i \in DOMAIN clauses |->
    IF clauses[i].children = <<>> THEN <<[code |-> CodeOf(<<i>>), text |-> clauses[i].text]>>
    ELSE [k \in DOMAIN clauses[i].children |->
            [code |-> CodeOf(<<i, k>>),
             text |-> clauses[i].text \o clauses[i].children[k].text]]])

\* iter_datapoint_clauses (GRI 3): every clause by itself.
AllClauses(clauses) ==
  FlattenSeq([i \in DOMAIN clauses |->
    <<[code |-> CodeOf(<<i>>), text |-> clauses[i].text]>>
    \o [k \in DOMAIN clauses[i].children |->
          [code |-> CodeOf(<<i, k>>), text |-> clauses[i].children[k].text]]])

\* The seven splitters repeat the beginning of a text before each of its parts.
SplitOf(c) ==
  LET parts == Parts[Last(c.text)]
  IN [k \in DOMAIN parts |->
        [code |-> [c.code EXCEPT !.part = Append(@, k)], text |-> Append(Front(c.text), parts[k])]]

RECURSIVE Rounds(_)
\* The loop of expand_leaf_clause: rounds over all candidates until none splits.
Rounds(candidates) ==
  IF \A i \in DOMAIN candidates : SplitOf(candidates[i]) = <<>> THEN candidates
  ELSE Rounds(FlattenSeq([i \in DOMAIN candidates |->
         IF SplitOf(candidates[i]) = <<>> THEN <<candidates[i]>> ELSE SplitOf(candidates[i])]))

\* A text that was seen keeps its first code.
Deduped(cs) ==
  FoldLeft(LAMBDA s, c : IF \E i \in DOMAIN s : s[i].text = c.text THEN s ELSE Append(s, c),
           <<>>, cs)

ExpandLeafClause(c) == Deduped(Rounds(<<c>>))
Expanded(cs) == FlattenSeq([i \in DOMAIN cs |-> ExpandLeafClause(cs[i])])

\* GRI 3 keeps the first of two items with one code.
FirstOfCode(cs) ==
  FoldLeft(LAMBDA s, c : IF \E i \in DOMAIN s : s[i].code = c.code THEN s ELSE Append(s, c),
           <<>>, cs)

\* parse_guidance_sections of GRI 2: a table takes every line up to the next heading.
GuidanceTables(lines) ==
  FoldLeft(LAMBDA s, l :
    CASE l.is = "noise" \/ (l.is = "reference" /\ s.mode # "table") ->
           IF s.mode = "table" THEN s ELSE [s EXCEPT !.mode = "open"]
      [] l.is = "heading" -> [mode |-> "open", chunks |-> Append(s.chunks, <<l.v>>)]
      [] l.is = "tableTitle" -> [mode |-> "table", chunks |-> Append(s.chunks, <<l.v>>)]
      [] s.mode = "open" \/ (s.mode # "paragraph" /\ l.is = "disclosure") ->
           [mode |-> "paragraph", chunks |-> Append(s.chunks, <<l.v>>)]
      [] OTHER -> [s EXCEPT !.chunks[Len(s.chunks)] = Append(@, l.v)],
    [mode |-> "open", chunks |-> <<>>], lines).chunks

\* parse_guidance_sections of GRI 3: a bullet goes on over noise up to the next
\* bullet or heading.
GuidanceBullets(lines) ==
  FoldLeft(LAMBDA s, l :
    CASE l.is = "noise" -> IF s.mode = "bullets" THEN s ELSE [s EXCEPT !.mode = "open"]
      [] l.is = "heading" -> [mode |-> "open", chunks |-> Append(s.chunks, <<l.v>>)]
      [] l.is = "bullet" /\ s.mode # "bullets" ->
           [mode |-> "bullets", chunks |-> Append(s.chunks, <<l.v>>)]
      [] s.mode = "open" \/ (s.mode # "paragraph" /\ l.is = "disclosure") ->
           [mode |-> "paragraph", chunks |-> Append(s.chunks, <<l.v>>)]
      [] OTHER -> [s EXCEPT !.chunks[Len(s.chunks)] = Append(@, l.v)],
    [mode |-> "open", chunks |-> <<>>], lines).chunks

RequirementLines(i) ==
  LET end == After(Starts, i)
      required == FirstOf("requirements", i + 1, end)
  IN SubSeq(doc, required + 1, FirstOf("guidance", required + 1, end) - 1)
GuidanceLines(i) ==
  LET end == After(Starts, i)
      guidance == FirstOf("guidance", FirstOf("requirements", i + 1, end) + 1, end)
  IN SubSeq(doc, guidance + 1, end - 1)

ParseGri2(i) ==
  [code |-> doc[i].v, title |-> Len(TitleLines(i)),
   items |-> Expanded(LeafClauses(Clauses(RequirementLines(i)))),
   guidance |-> GuidanceTables(GuidanceLines(i))]
ParseGri3(i) ==
  [code |-> doc[i].v, title |-> Len(TitleLines(i)),
   items |-> FirstOfCode(Expanded(AllClauses(Clauses(RequirementLines(i))))),
   guidance |-> GuidanceBullets(GuidanceLines(i))]

\* parse_pdf reads the sections in order; that GRI 2 must have 30 of them and GRI 3
\* three is not modelled.
SectionAt(k) == CHOOSE i \in Starts : Cardinality({j \in Starts : j <= i}) = k
Gri2Sections == [k \in 1..Cardinality(Starts) |-> ParseGri2(SectionAt(k))]
Gri3Sections == [k \in 1..Cardinality(Starts) |-> ParseGri3(SectionAt(k))]

-----------------------------------------------------------------------------
(* import_gri_sectoral_docx.py: tables of topics.                          *)

\* parse_topic_entries: a row without a reference goes on with the entry above it.
Entries(rows) ==
  FoldLeft(LAMBDA s, l :
    CASE l.is = "columns" -> [s EXCEPT !.open = FALSE]
      [] l.is = "group" -> [s EXCEPT !.open = FALSE, !.group = l.v]
      [] l.is = "more" -> IF s.open THEN [s EXCEPT !.entries = Extended(@, l.v)] ELSE s
      [] OTHER -> IF s.group = "none" THEN s
                  ELSE [s EXCEPT !.open = TRUE,
                          !.entries = Append(@, [group |-> s.group, text |-> l.v])],
    [open |-> FALSE, group |-> "none", entries |-> <<>>], rows).entries

\* The rows of the table that begins at a line.
RowsAt(i) ==
  SubSeq(doc, i + 1, LeastOf({j \in i + 1..Len(doc) : doc[j].is \notin Rows}
                             \cup {Len(doc) + 1}) - 1)
IsReportingTable(i) == \E k \in DOMAIN RowsAt(i) : RowsAt(i)[k].is # "more"

\* A topic whose next block is a topic stands in the contents.
TopicLines ==
  {i \in DOMAIN doc : doc[i].is = "topic" /\ ~(i < Len(doc) /\ doc[i + 1].is = "topic")}
TopicAt(i) ==
  LET above == {j \in TopicLines : j < i} IN IF above = {} THEN 0 ELSE GreatestOf(above)

\* parse_docx: the tables of one topic are read one after the other.
ParseSector ==
  [t \in {doc[i].v : i \in TopicLines} |->
     FoldLeft(LAMBDA s, i :
       IF doc[i].is = "table" /\ TopicAt(i) # 0 /\ doc[TopicAt(i)].v = t /\ IsReportingTable(i)
       THEN s \o Entries(RowsAt(i)) ELSE s,
       <<>>, [i \in DOMAIN doc |-> i])]

\* A bullet begins an item, another paragraph goes on with it; what stands before the
\* first bullet is put before its text.
Recommendations(paragraphs) ==
  LET s == FoldLeft(LAMBDA r, p :
             IF p = "bullet"
             THEN [r EXCEPT !.items = Append(@, r.prefix \o <<p>>), !.prefix = <<>>]
             ELSE IF r.items # <<>> THEN [r EXCEPT !.items[Len(r.items)] = Append(@, p)]
             ELSE [r EXCEPT !.prefix = Append(@, p)],
             [items |-> <<>>, prefix |-> <<>>], paragraphs)
  IN IF s.prefix = <<>> THEN s.items ELSE Append(s.items, s.prefix)

\* What stands before the first bullet is the title, and the item if there is none.
Additional(paragraphs) ==
  LET s == FoldLeft(LAMBDA r, p :
             IF p = "bullet" THEN [r EXCEPT !.items = Append(@, <<p>>)]
             ELSE IF r.items # <<>> THEN [r EXCEPT !.items[Len(r.items)] = Append(@, p)]
             ELSE [r EXCEPT !.title = Append(@, p)],
             [items |-> <<>>, title |-> <<Head(paragraphs)>>], Tail(paragraphs))
  IN [s EXCEPT !.items = IF @ = <<>> THEN <<s.title>> ELSE @]

\* parse_entry: the recommendations follow the line that announces them.
ItemsOf(e) ==
  IF e.group = "additional" THEN Additional(e.text).items
  ELSE LET mark == {i \in DOMAIN e.text : e.text[i] = "mark"}
       IN IF mark = {} THEN <<>>
          ELSE Recommendations(SubSeq(e.text, LeastOf(mark) + 1, Len(e.text)))

-----------------------------------------------------------------------------
(* The writer.                                                             *)

Write(is, v) == Len(doc) < MaxLines[form] /\ doc' = Append(doc, Line(is, v)) /\ UNCHANGED form
Now == truth[Len(truth)]
Amend(s) == truth' = [truth EXCEPT ![Len(truth)] = s]
Marked(m) == truth # <<>> /\ m \in Now.marks
Complete(s) ==
  "requirements" \in s.marks
    /\ (form = "topic" => s.marks \cap {"guidance", "datapoint"} # {})
Ended == truth # <<>> => Complete(Now)

\* The contents list the disclosures; later a text may refer to one.
ListDisclosure(d) ==
  /\ form # "sector" /\ truth = <<>> /\ Write("disclosure", d) /\ UNCHANGED truth

\* A reference to a disclosure that stands by itself on a line of the guidance, or
\* after the data points.
ReferTo(d) ==
  /\ form # "sector" /\ Marked("guidance")
  /\ (form = "topic" /\ Marked("datapoint")) => Now.points # <<>>
  /\ Write("disclosure", d)
  /\ Amend(IF Marked("datapoint") THEN [Now EXCEPT !.marks = @ \cup {"closed"}]
           ELSE [Now EXCEPT !.chunks = Append(@, d)])

OpenSection(d) ==
  /\ form # "sector" /\ Ended /\ \A i \in DOMAIN truth : truth[i].code # d
  /\ Write("disclosure", d)
  /\ truth' = Append(truth, [code |-> d, marks |-> {}, title |-> 0, points |-> <<>>,
                             clauses |-> <<>>, chunks |-> <<>>])

\* The markers of a section come in this order, the second or the third may miss.
Mark(m) ==
  /\ form # "sector" /\ truth # <<>> /\ Now.marks \cap {m, "datapoint", "closed"} = {}
  /\ m # "requirements" => Marked("requirements")
  /\ form = "general" => m # "datapoint"
  /\ m = "requirements" \/ m = "guidance" \/ m = "datapoint"
  /\ Write(m, m)
  /\ Amend([Now EXCEPT !.marks = @ \cup {m}])

WritePoint(raw) ==
  /\ form = "topic" /\ Marked("datapoint") /\ ~Marked("closed") /\ Write("point", raw)
  /\ Amend([Now EXCEPT !.points = Append(@, [raw |-> raw, text |-> <<"point">>])])

\* A label that goes on, or any other text.
WriteText ==
  /\ form = "topic" /\ truth # <<>> /\ Write("text", "text")
  /\ Amend(IF Now.points = <<>> \/ Marked("closed") THEN Now
           ELSE [Now EXCEPT !.points = Extended(@, <<"text">>)])

EndPage ==
  /\ form = "topic" /\ Marked("datapoint") /\ Write("page", "page")
  /\ Amend([Now EXCEPT !.marks = @ \cup {"closed"}])

WriteTitle(is) ==
  /\ form = "general" /\ truth # <<>> /\ Now.marks \subseteq {"shall"}
  /\ is = "shall" => ~Marked("shall")
  /\ Write(is, is)
  /\ Amend(IF is = "shall" THEN [Now EXCEPT !.marks = {"shall"}]
           ELSE IF Marked("shall") THEN Now ELSE [Now EXCEPT !.title = @ + 1])

\* The head of a page may stand anywhere.
WriteNoise == form = "general" /\ truth # <<>> /\ Write("noise", "noise") /\ UNCHANGED truth

WriteLetter(f) ==
  /\ form = "general" /\ Marked("requirements") /\ ~Marked("guidance") /\ Write("letter", f)
  /\ Amend([Now EXCEPT !.clauses = Append(@, [text |-> <<f>>, children |-> <<>>])])

WriteRoman(f) ==
  /\ form = "general" /\ Marked("requirements") /\ ~Marked("guidance") /\ Now.clauses # <<>>
  /\ Write("roman", f)
  /\ Amend([Now EXCEPT !.clauses[Len(Now.clauses)].children = Append(@, [text |-> <<f>>])])

\* The text of the clause above goes on.
WriteMore(f) ==
  /\ form = "general" /\ Marked("requirements") /\ ~Marked("guidance") /\ Now.clauses # <<>>
  /\ Write("text", f)
  /\ LET n == Len(Now.clauses)
     IN Amend(IF Now.clauses[n].children = <<>>
              THEN [Now EXCEPT !.clauses = Extended(@, <<f>>)]
              ELSE [Now EXCEPT !.clauses[n].children = Extended(@, <<f>>)])

Guide(is) ==
  /\ form = "general" /\ Marked("guidance")
  /\ is \in {"heading", "text", "bullet", "tableTitle"}
  /\ Write(is, is)
  /\ Amend([Now EXCEPT !.chunks = Append(@, is)])

\* Topics of a sector standard, listed first; a table belongs to the topic above it.
ListTopic(d) == form = "sector" /\ truth = <<>> /\ Write("topic", d) /\ UNCHANGED truth

OpenTopic(d) ==
  /\ form = "sector" /\ \A i \in DOMAIN truth : truth[i].code # d
  /\ doc # <<>> => Last(doc).is # "topic" \/ truth = <<>>
  /\ Write("topic", d)
  /\ truth' = Append(truth, [code |-> d, entries |-> <<>>, group |-> "none"])

WriteTable ==
  /\ form = "sector" /\ truth # <<>> /\ Write("table", "table")
  /\ Amend([Now EXCEPT !.group = "none"])

WriteParagraph == form = "sector" /\ truth # <<>> /\ Write("text", "text") /\ UNCHANGED truth

InTable == form = "sector" /\ truth # <<>> /\ Last(doc).is \in Rows \cup {"table"}

WriteGroup(g) == InTable /\ Write("group", g) /\ Amend([Now EXCEPT !.group = g])
WriteColumns == InTable /\ Last(doc).is = "table" /\ Write("columns", "columns") /\ UNCHANGED truth

WriteEntry(cell) ==
  /\ InTable /\ Now.group # "none" /\ Write("entry", cell)
  /\ Amend([Now EXCEPT !.entries = Append(@, [group |-> Now.group, text |-> cell])])

\* A cell that a page break has split goes on in the next row.
WriteRest(cell) ==
  /\ InTable /\ Last(doc).is \in {"entry", "more"} /\ Write("more", cell)
  /\ Amend([Now EXCEPT !.entries = Extended(@, cell)])

Init == form \in DOMAIN MaxLines /\ doc = <<>> /\ truth = <<>>

Next ==
  \/ \E d \in Disclosures : ListDisclosure(d) \/ ReferTo(d) \/ OpenSection(d)
                            \/ ListTopic(d) \/ OpenTopic(d)
  \/ \E m \in {"requirements", "guidance", "datapoint"} : Mark(m)
  \/ \E raw \in Raws \cup {Foreign} : WritePoint(raw)
  \/ WriteText \/ EndPage \/ WriteNoise
  \/ \E is \in {"text", "shall"} : WriteTitle(is)
  \/ \E f \in Fragments : WriteLetter(f) \/ WriteRoman(f) \/ WriteMore(f)
  \/ \E is \in {"heading", "text", "bullet", "tableTitle"} : Guide(is)
  \/ WriteTable \/ WriteParagraph \/ WriteColumns
  \/ \E g \in Groups : WriteGroup(g)
  \/ \E cell \in Cells : WriteEntry(cell) \/ WriteRest(cell)

Spec == Init /\ [][Next]_vars

-----------------------------------------------------------------------------
TypeOK ==
  /\ form \in DOMAIN MaxLines /\ Len(doc) <= MaxLines[form]
  /\ \A i \in DOMAIN doc : doc[i].is \in Kinds
  /\ \A i \in DOMAIN truth : truth[i].code \in Disclosures

RECURSIVE LeavesOf(_)
\* What a text falls into, split as far as it goes.
LeavesOf(text) ==
  IF Parts[Last(text)] = <<>> THEN {text}
  ELSE UNION {LeavesOf(Append(Front(text), Parts[Last(text)][k])) : k \in DOMAIN Parts[Last(text)]}

Distinct(s) == \A i, k \in DOMAIN s : s[i].code = s[k].code => i = k
Covers(items, clauses) ==
  /\ Distinct(items)
  /\ {<<items[i].code.clause, items[i].text>> : i \in DOMAIN items}
     = UNION {{<<clauses[i].code.clause, t>> : t \in LeavesOf(clauses[i].text)} : i \in DOMAIN clauses}

Written == {i \in DOMAIN truth : Complete(truth[i])}

\* Every data point stands under its own disclosure, with all of its label, in the
\* order of the document and under a code of its own.
TopicIsRead ==
  /\ DOMAIN ParseTopic = {truth[i].code : i \in Written}
  /\ \A i \in Written :
       LET read == ParseTopic[truth[i].code]
           meant == SelectSeq(truth[i].points, LAMBDA p : p.raw # Foreign)
       IN /\ [k \in DOMAIN read |-> <<Head(read[k].code), read[k].text>>]
             = [k \in DOMAIN meant |-> <<meant[k].raw, meant[k].text>>]
          /\ Distinct(read)

\* Every part of every clause is one item of GRI 2 and of GRI 3, and no line of the
\* guidance is lost.
GeneralIsRead ==
  LET two == Gri2Sections three == Gri3Sections
  IN /\ Len(two) = Cardinality(Written) /\ Len(three) = Cardinality(Written)
     /\ \A i \in Written :
          /\ two[i].code = truth[i].code /\ two[i].title = truth[i].title
          /\ three[i].title = truth[i].title
          /\ Covers(two[i].items, LeafClauses(truth[i].clauses))
          /\ Covers(three[i].items, AllClauses(truth[i].clauses))
          /\ FlattenSeq(two[i].guidance) = truth[i].chunks
          /\ FlattenSeq(three[i].guidance) = truth[i].chunks

\* Every entry of a topic's tables is read, and every paragraph of its text that asks
\* for something is in one of its items.
SectorIsRead ==
  \A i \in DOMAIN truth :
    (i = Len(truth) => Last(doc).is # "topic") =>
    LET read == ParseSector[truth[i].code]
    IN /\ read = truth[i].entries
       /\ \A k \in DOMAIN read :
            LET items == ItemsOf(read[k]) text == read[k].text
                marks == {j \in DOMAIN text : text[j] = "mark"}
            IN FlattenSeq(items) =
                 IF read[k].group = "additional"
                 THEN SubSeq(text, IF Len(items) = 1 /\ items[1] = text THEN 1
                                   ELSE Len(Additional(text).title) + 1, Len(text))
                 ELSE IF marks = {} THEN <<>> ELSE SubSeq(text, LeastOf(marks) + 1, Len(text))

\* Whatever the layout, with contents, references, page heads and texts that wrap, a
\* document whose last section is complete is read as it was meant.
ReadsWhatIsWritten ==
  /\ form = "topic" => (Ended => TopicIsRead)
  /\ form = "general" => (Ended => GeneralIsRead)
  /\ form = "sector" => SectorIsRead
=============================================================================
