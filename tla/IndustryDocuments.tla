------------------------- MODULE IndustryDocuments -------------------------
(***************************************************************************)
(* How the import scripts read the ESRS workbooks (one sheet of blocks for *)
(* a topical standard, sheets of rows for ESRS 2) and the text of a SASB   *)
(* industry standard.  As in StandardDocuments a writer puts a document    *)
(* together and keeps its meaning in `truth`.                              *)
(***************************************************************************)
EXTENDS Naturals, Sequences, FiniteSets, SequencesExt

CONSTANTS
  Codes,        \* disclosures of a workbook, metrics of an industry standard
  SectionOf,    \* disclosure of ESRS 2 -> its section, the letters of its code
  Clauses,      \* clause references of a row
  Bullets,      \* sequences of data points in a cell
  Titles,       \* titles of topics
  Initials, SlugOf,  \* title -> the codes made of it
  Shapes,       \* [numbers, letters, crossed]: the series in a metric's title
  MaxLines      \* form -> lines of a document

VARIABLES form, doc, truth

vars == <<form, doc, truth>>

Line(is, v) == [is |-> is, v |-> v]
LeastOf(S) == CHOOSE i \in S : \A j \in S : i <= j
GreatestOf(S) == CHOOSE i \in S : \A j \in S : i >= j
Unique(s) == \A i, k \in DOMAIN s : s[i] = s[k] => i = k
\* The elements of a sequence without repetition, each at its first place.
Deduped(s) == FoldLeft(LAMBDA r, x : IF x \in ToSet(r) THEN r ELSE Append(r, x), <<>>, s)

-----------------------------------------------------------------------------
(* import_esrs_xlsx.py                                                     *)

Row(clause, points) == [clause |-> clause, points |-> points]
Sub(title) == [title |-> title, rows |-> <<>>]
Block(code) == [code |-> code, subs |-> <<Sub("Requirements")>>]
NoRead == [failed |-> FALSE, blocks |-> <<>>, at |-> 0, row |-> FALSE]

\* Mutant: a heading always begins a subsection.
SubAtEnd(block, title) == Len(block.subs) + 1

\* find_or_create_subsection
SubAt(block, title) ==
  LET found == {k \in DOMAIN block.subs : block.subs[k].title = title}
  IN IF found = {} THEN Len(block.subs) + 1 ELSE LeastOf(found)
WithSub(block, title) ==
  IF SubAt(block, title) > Len(block.subs)
  THEN [block EXCEPT !.subs = Append(@, Sub(title))] ELSE block

\* A line of the sheet: what is read, the subsection in use, and whether data points
\* without a reference belong to the row above.
ReadLine(s, l) ==
  LET n == Len(s.blocks) IN
  CASE s.failed -> s
    [] l.is = "block" ->
         [s EXCEPT !.blocks = Append(@, Block(l.v)), !.at = 1, !.row = FALSE]
    [] l.is = "subsection" /\ n > 0 ->
         [s EXCEPT !.blocks[n] = WithSub(@, l.v), !.at = SubAt(s.blocks[n], l.v), !.row = FALSE]
    [] l.is \in {"empty", "head"} -> [s EXCEPT !.row = FALSE]
    [] l.is = "row" /\ n > 0 ->
         IF l.v.code # s.blocks[n].code THEN [s EXCEPT !.failed = TRUE]
         ELSE [s EXCEPT !.row = TRUE,
                 !.blocks[n].subs[s.at].rows = Append(@, Row(l.v.clause, l.v.points))]
    [] l.is = "rest" /\ s.row ->
         LET r == Len(s.blocks[n].subs[s.at].rows)
         IN [s EXCEPT !.blocks[n].subs[s.at].rows[r].points = @ \o l.v]
    [] OTHER -> s

ParseEsrs == FoldLeft(ReadLine, NoRead, doc)

\* build_parsed_data_points: a clause with several rows numbers them; a data point
\* that repeats in a row is one item.
ItemsOf(block) ==
  LET rows == FlattenSeq([k \in DOMAIN block.subs |-> block.subs[k].rows])
      same(i) == {j \in DOMAIN rows : rows[j].clause = rows[i].clause}
  IN FlattenSeq([i \in DOMAIN rows |->
       LET points == Deduped(rows[i].points) IN
       [k \in DOMAIN points |->
          [code |-> <<rows[i].clause,
                      IF same(i) = {i} THEN 0 ELSE Cardinality({j \in same(i) : j <= i}), k>>,
           clause |-> rows[i].clause, label |-> points[k]]]])

-----------------------------------------------------------------------------
(* import_esrs2_xlsx.py: a block per sheet and disclosure, in the section  *)
(* of its code; every row has a reference.                                 *)

ReadRow2(s, l) ==
  IF s.failed \/ l.is \in {"head", "empty", "block"} THEN s
  ELSE IF l.is = "sheet" THEN [s EXCEPT !.at = Len(s.blocks)]
  ELSE IF l.is # "row" THEN [s EXCEPT !.failed = TRUE]
  ELSE LET here == {k \in s.at + 1..Len(s.blocks) : s.blocks[k].code = l.v.code}
           row == Row(l.v.clause, l.v.points)
       IN IF here # {} THEN [s EXCEPT !.blocks[LeastOf(here)].subs[1].rows = Append(@, row)]
          ELSE [s EXCEPT !.blocks = Append(@, [Block(l.v.code) EXCEPT !.subs[1].rows = <<row>>])]

ParseEsrs2 == FoldLeft(ReadRow2, NoRead, doc)

\* The sections in the order in which a disclosure of them comes first, and in each
\* the blocks in their order.
Sections(blocks) ==
  LET codes == Deduped([k \in DOMAIN blocks |-> SectionOf[blocks[k].code]])
  IN [k \in DOMAIN codes |->
        [section |-> codes[k],
         blocks |-> SelectSeq(blocks, LAMBDA b : SectionOf[b.code] = codes[k])]]

-----------------------------------------------------------------------------
(* import_sasb_pdf.py                                                      *)

\* find_topic_ranges: the line of a topic is followed by its summary; the contents
\* have lines of the same form.
FollowedBy(i) == LET after == {j \in i + 1..Len(doc) : doc[j].is # "blank"}
                 IN IF after = {} THEN "none" ELSE doc[LeastOf(after)].is
TopicStarts == {i \in DOMAIN doc : doc[i].is = "topic" /\ FollowedBy(i) = "summary"}
After(S, i) == LeastOf({j \in S : j > i} \cup {Len(doc) + 1})
InOrder(S) == [k \in 1..Cardinality(S) |-> CHOOSE i \in S : Cardinality({j \in S : j <= i}) = k]

\* topic_section_code: initials, a slug, or a slug with a number, not used before.
SectionCode(title, used) ==
  IF Initials[title] \notin used THEN Initials[title]
  ELSE IF SlugOf[title] \notin used THEN SlugOf[title]
  ELSE <<SlugOf[title], LeastOf({n \in 2..Cardinality(used) + 2 : <<SlugOf[title], n>> \notin used})>>
SectionCodes(titles) ==
  FoldLeft(LAMBDA s, t : Append(s, SectionCode(t, ToSet(s))), <<>>, titles)

\* parse_topic_metrics
MetricStarts(i) ==
  LET end == After(TopicStarts, i)
      mark == LeastOf({j \in i..end - 1 : doc[j].is = "metrics"} \cup {end})
  IN {j \in mark + 1..end - 1 : doc[j].is = "metric"}

\* consume_matrix_table: whatever is no table and no note is a line of the table.
IntoTable(s) == [s EXCEPT !.tables[Len(s.tables)] = @ + 1]

\* parse_metric_body: title up to the first clause, table or note; then clauses and
\* tables, a table taking every line up to the next table or the note; then the note.
MetricBody(lines) ==
  FoldLeft(LAMBDA s, l :
    CASE l.is \in {"noise", "blank"} -> s
      [] s.mode = "note" -> [s EXCEPT !.note = Append(@, l)]
      [] l.is = "note" -> [s EXCEPT !.mode = "note"]
      [] l.is = "table" -> [s EXCEPT !.mode = "table", !.tables = Append(@, 0)]
      [] s.mode = "table" -> IntoTable(s)
      [] l.is = "clause" -> [s EXCEPT !.mode = "clauses", !.clauses = Append(@, l)]
      [] s.mode = "title" -> [s EXCEPT !.title = @ + 1]
      [] OTHER -> [s EXCEPT !.clauses = Append(@, l)],
    [mode |-> "title", title |-> 0, clauses |-> <<>>, tables |-> <<>>, note |-> <<>>], lines)

\* parse_numbered_clauses: the parent of a clause is what the stack holds when every
\* clause of its depth or more is taken off; other lines go on with the last clause.
Numbered(lines) ==
  FoldLeft(LAMBDA s, l :
    IF l.is = "clause"
    THEN LET stack == SubSeq(s.stack, 1, IF Len(s.stack) >= l.v.depth THEN l.v.depth - 1
                                          ELSE Len(s.stack))
         IN [s EXCEPT !.tree = Append(@, [parent |-> IF stack = <<>> THEN 0 ELSE Last(stack),
                                          verb |-> l.v.verb, lines |-> 1]),
                      !.stack = Append(stack, Len(s.tree) + 1)]
    ELSE IF s.tree = <<>> THEN [s EXCEPT !.preface = Append(@, l.v)]
    ELSE [s EXCEPT !.tree[Len(s.tree)].lines = @ + 1],
    [preface |-> <<>>, tree |-> <<>>, stack |-> <<>>], lines)

\* build_title_datapoint_texts: one text for each member of the numbered series, or of
\* the lettered one, or of their product where one is "for" the other.
TitleTexts(shape) ==
  LET N == shape.numbers L == shape.letters
  IN IF shape.crossed /\ N > 1 /\ L > 1
     THEN [k \in 1..N * L |-> <<1 + ((k - 1) \div L), 1 + ((k - 1) % L)>>]
     ELSE IF N > 1 THEN [k \in 1..N |-> <<k, 0>>]
     ELSE IF L > 1 THEN [k \in 1..L |-> <<0, k>>]
     ELSE <<<<0, 0>>>>

\* extract_note_instruction: of the lines before the first clause and that clause, the
\* first with a verb of either list decides.
NoteTexts(note) ==
  LET verbs == note.preface \o (IF note.tree = <<>> THEN <<>> ELSE <<note.tree[1].verb>>)
      deciding == {i \in DOMAIN verbs : verbs[i] \in {"report", "calculate"}}
  IN IF deciding # {} /\ verbs[LeastOf(deciding)] = "report" THEN 1 ELSE 0

\* build_metric_datapoints
DataPoints(shape, notes) ==
  LET texts == TitleTexts(shape)
  IN IF Len(texts) = 1 /\ notes = 0 THEN <<[code |-> "metric", k |-> 0, text |-> texts[1]]>>
     ELSE [k \in DOMAIN texts |-> [code |-> "title", k |-> k, text |-> texts[k]]]
          \o [k \in 1..notes |-> [code |-> "note", k |-> k, text |-> <<0, 0>>]]

Metric(i, end) ==
  LET body == MetricBody(SubSeq(doc, i + 1, end - 1))
      note == Numbered(body.note)
  IN [code |-> doc[i].v.code, title |-> body.title, tree |-> Numbered(body.clauses).tree,
      tables |-> body.tables, note |-> note,
      points |-> DataPoints(doc[i].v.shape, NoteTexts(note))]

\* parse_sasb_pdf: the topics and their metrics.
ParseTopics ==
  LET starts == InOrder(TopicStarts)
      codes == SectionCodes([k \in DOMAIN starts |-> doc[starts[k]].v])
  IN [k \in DOMAIN starts |->
        LET metrics == MetricStarts(starts[k])
            order == InOrder(metrics)
        IN [section |-> codes[k],
            metrics |-> [m \in DOMAIN order |->
              Metric(order[m], LeastOf({j \in metrics : j > order[m]}
                                       \cup {After(TopicStarts, starts[k])}))]]]

\* parse_activity_metrics: the lines between the table of activity metrics and the first
\* topic.  A note takes the lines up to a blank one; a row takes what goes on after it,
\* and the line that stood before it.
ActivityLines ==
  LET start == {i \in DOMAIN doc : doc[i].is = "activity"}
  IN IF start = {} \/ TopicStarts = {} THEN <<>>
     ELSE SubSeq(doc, LeastOf(start) + 1, LeastOf(TopicStarts) - 1)
Activities(lines) ==
  FoldLeft(LAMBDA s, l :
    CASE l.is \in {"blank", "noise"} -> [s EXCEPT !.mode = "none"]
      [] l.is = "activityNote" ->
           [s EXCEPT !.mode = "note", !.notes = @ \cup {<<l.v, 1>>}, !.noted = l.v]
      [] l.is = "activityRow" ->
           [s EXCEPT !.mode = "row", !.pending = 0,
                     !.rows = Append(@, [code |-> l.v, title |-> s.pending])]
      [] s.mode = "note" ->
           [s EXCEPT !.notes = {IF n[1] = s.noted THEN <<n[1], n[2] + 1>> ELSE n : n \in @}]
      [] s.mode = "row" -> [s EXCEPT !.rows[Len(s.rows)].title = @ + 1]
      [] OTHER -> [s EXCEPT !.pending = @ + 1],
    [mode |-> "none", pending |-> 0, noted |-> "none", rows |-> <<>>, notes |-> {}], lines)

-----------------------------------------------------------------------------
(* The writer of a workbook.                                               *)

Put(lines) ==
  Len(doc) + Len(lines) <= MaxLines[form] /\ doc' = doc \o lines /\ UNCHANGED form
Write(is, v) == Put(<<Line(is, v)>>)
Sheet == form \in {"esrs", "esrs2"}
BlockNow == Last(SelectSeq(doc, LAMBDA l : l.is = "block")).v
HasBlock == \E i \in DOMAIN doc : doc[i].is = "block"
SubNow ==
  LET i == GreatestOf({j \in DOMAIN doc : doc[j].is \in {"block", "subsection"}})
  IN IF doc[i].is = "block" THEN "Requirements" ELSE doc[i].v
SheetsSince(i) == {j \in i..Len(doc) : doc[j].is = "sheet"}

OpenBlock(c) ==
  /\ form = "esrs" /\ \A i \in DOMAIN doc : doc[i].is = "block" => doc[i].v # c
  /\ Write("block", c) /\ UNCHANGED truth

OpenSubsection(t) == form = "esrs" /\ HasBlock /\ Write("subsection", t) /\ UNCHANGED truth

\* A disclosure of ESRS 2 stands in one sheet.
WriteRow(c, clause, points) ==
  /\ Sheet
  /\ form = "esrs" => HasBlock
  /\ form = "esrs2" => \A i \in DOMAIN doc : doc[i].is = "row" /\ doc[i].v.code = c =>
                         SheetsSince(i) = {}
  /\ Write("row", [code |-> c, clause |-> clause, points |-> points])
  /\ truth' = IF form = "esrs" /\ c # BlockNow THEN [truth EXCEPT !.refused = TRUE]
              ELSE [truth EXCEPT !.rows = Append(@,
                      [code |-> c, sub |-> IF form = "esrs" THEN SubNow ELSE "Requirements",
                       clause |-> clause, points |-> points])]

\* The data points of a row may go on in rows that have nothing else.
WriteRest(points) ==
  /\ Sheet /\ doc # <<>> /\ Last(doc).is \in {"row", "rest"} /\ Write("rest", points)
  /\ truth' = IF form = "esrs2" THEN [truth EXCEPT !.refused = TRUE]
              ELSE IF truth.refused THEN truth
              ELSE [truth EXCEPT !.rows[Len(truth.rows)].points = @ \o points]

WriteEmpty(is) ==
  /\ Sheet /\ is \in {"empty", "head"} /\ Write(is, is) /\ UNCHANGED truth
NewSheet == form = "esrs2" /\ doc # <<>> /\ Write("sheet", "sheet") /\ UNCHANGED truth

(* The writer of an industry standard.                                     *)

Opened == truth.topics # <<>>
TopicNow == Last(truth.topics)
MetricNow == Last(TopicNow.metrics)
InMetric == form = "sasb" /\ Opened /\ TopicNow.metrics # <<>>
Amend(metric) ==
  truth' = [truth EXCEPT !.topics[Len(truth.topics)].metrics[Len(TopicNow.metrics)] = metric]

ListTopic(t) == form = "sasb" /\ doc = <<>> /\ Write("topic", t) /\ UNCHANGED truth

InActivity == form = "sasb" /\ ~Opened /\ \E i \in DOMAIN doc : doc[i].is = "activity"
OpenActivity ==
  /\ form = "sasb" /\ ~Opened /\ ~InActivity
  /\ Write("activity", "activity") /\ UNCHANGED truth

\* A title may start on the line before the row and go on after it.
WriteActivity(c, before) ==
  /\ InActivity /\ Last(doc).is \in {"activity", "blank"}
  /\ \A i \in DOMAIN truth.activity : truth.activity[i].code # c
  /\ Put(IF before THEN <<Line("text", "plain"), Line("activityRow", c)>>
         ELSE <<Line("activityRow", c)>>)
  /\ truth' = [truth EXCEPT !.activity = Append(@, [code |-> c, title |-> IF before THEN 1 ELSE 0,
                                                    note |-> 0])]

NoteActivity(c) ==
  /\ InActivity /\ Write("activityNote", c)
  /\ \E i \in DOMAIN truth.activity :
       /\ truth.activity[i].code = c /\ truth.activity[i].note = 0
       /\ truth' = [truth EXCEPT !.activity[i].note = 1]

\* The line goes on with what stands above it.
GoOnActivity ==
  /\ InActivity /\ Write("text", "plain")
  /\ LET i == GreatestOf({j \in DOMAIN doc : doc[j].is \in {"activityRow", "activityNote"}} \cup {1})
     IN /\ doc[i].is \in {"activityRow", "activityNote"}
        /\ \A j \in i + 1..Len(doc) : doc[j].is = "text"
        /\ truth' = [truth EXCEPT !.activity =
             [k \in DOMAIN @ |-> IF @[k].code # doc[i].v THEN @[k]
                                 ELSE IF doc[i].is = "activityRow" THEN [@[k] EXCEPT !.title = @ + 1]
                                 ELSE [@[k] EXCEPT !.note = @ + 1]]]

WriteBlank(is) ==
  /\ form = "sasb" /\ doc # <<>> /\ Last(doc).is # is
  /\ is \in {"blank", "noise"} /\ Write(is, is) /\ UNCHANGED truth

OpenTopic(t) ==
  /\ form = "sasb"
  /\ Put(<<Line("topic", t), Line("summary", "summary"), Line("metrics", "metrics")>>)
  /\ truth' = [truth EXCEPT !.topics = Append(@, [title |-> t, metrics |-> <<>>])]

WriteMetric(c, shape) ==
  /\ form = "sasb" /\ Opened /\ Write("metric", [code |-> c, shape |-> shape])
  /\ truth' = [truth EXCEPT !.topics[Len(truth.topics)].metrics =
       Append(@, [code |-> c, shape |-> shape, mode |-> "title", title |-> 0,
                  clauses |-> <<>>, tables |-> <<>>, note |-> <<>>, noted |-> <<>>])]

WriteClause(depth, verb) ==
  LET s == IF MetricNow.mode = "note" THEN MetricNow.noted ELSE MetricNow.clauses
  IN /\ InMetric /\ MetricNow.mode # "table"
     /\ depth <= (IF s = <<>> THEN 1 ELSE Last(s).depth + 1)
     /\ Write("clause", [depth |-> depth, verb |-> verb])
     /\ LET c == [depth |-> depth, verb |-> verb, lines |-> 1]
        IN Amend(IF MetricNow.mode = "note" THEN [MetricNow EXCEPT !.noted = Append(@, c)]
                 ELSE [MetricNow EXCEPT !.mode = "clauses", !.clauses = Append(@, c)])

WriteTable ==
  /\ InMetric /\ MetricNow.mode # "note" /\ Write("table", "table")
  /\ Amend([MetricNow EXCEPT !.mode = "table", !.tables = Append(@, 0)])

WriteNote ==
  /\ InMetric /\ MetricNow.mode # "note" /\ Write("note", "note")
  /\ Amend([MetricNow EXCEPT !.mode = "note"])

WriteText(verb) ==
  /\ InMetric /\ Write("text", verb)
  /\ LET n == MetricNow IN
     Amend(CASE n.mode = "title" -> [n EXCEPT !.title = @ + 1]
             [] n.mode = "clauses" -> [n EXCEPT !.clauses[Len(n.clauses)].lines = @ + 1]
             [] n.mode = "table" -> [n EXCEPT !.tables[Len(n.tables)] = @ + 1]
             [] n.mode = "note" /\ n.noted = <<>> -> [n EXCEPT !.note = Append(@, verb)]
             [] OTHER -> [n EXCEPT !.noted[Len(n.noted)].lines = @ + 1])

Init ==
  /\ form \in DOMAIN MaxLines /\ doc = <<>>
  /\ truth = [refused |-> FALSE, rows |-> <<>>, topics |-> <<>>, activity |-> <<>>]

Next ==
  \/ \E c \in Codes : OpenBlock(c) \/ NoteActivity(c)
       \/ \E q \in Clauses, points \in Bullets : WriteRow(c, q, points)
       \/ \E before \in BOOLEAN : WriteActivity(c, before)
       \/ \E shape \in Shapes : WriteMetric(c, shape)
  \/ \E t \in Titles : OpenSubsection(t) \/ ListTopic(t) \/ OpenTopic(t)
  \/ \E points \in Bullets : WriteRest(points)
  \/ \E is \in {"empty", "head"} : WriteEmpty(is)
  \/ NewSheet \/ OpenActivity \/ GoOnActivity \/ WriteTable \/ WriteNote
  \/ \E is \in {"blank", "noise"} : WriteBlank(is)
  \/ \E depth \in 1..2, verb \in {"report", "plain"} : WriteClause(depth, verb)
  \/ \E verb \in {"report", "calculate", "plain"} : WriteText(verb)

Spec == Init /\ [][Next]_vars

-----------------------------------------------------------------------------
TypeOK ==
  /\ form \in DOMAIN MaxLines /\ Len(doc) <= MaxLines[form]
  /\ \A i \in DOMAIN truth.rows : truth.rows[i].code \in Codes
  /\ \A i \in DOMAIN truth.topics : truth.topics[i].title \in Titles

\* The items of a disclosure are the data points of its rows, one for each, under codes
\* that differ.
Lists(items, rows) ==
  /\ \A i, k \in DOMAIN items : items[i].code = items[k].code => i = k
  /\ \A q \in Clauses, label \in UNION {ToSet(b) : b \in Bullets} :
       Cardinality({i \in DOMAIN items : items[i].clause = q /\ items[i].label = label})
       = Cardinality({i \in DOMAIN rows : rows[i].clause = q /\ label \in ToSet(rows[i].points)})
RowsOf(c) == SelectSeq(truth.rows, LAMBDA r : r.code = c)

EsrsIsRead ==
  LET read == ParseEsrs
  IN /\ read.failed = truth.refused
     /\ ~read.failed => \A k \in DOMAIN read.blocks :
          LET b == read.blocks[k] IN
          /\ Lists(ItemsOf(b), RowsOf(b.code))
          /\ Unique([j \in DOMAIN b.subs |-> b.subs[j].title])
          /\ UNION {{<<sub.title, r.clause>> : r \in ToSet(sub.rows)} : sub \in ToSet(b.subs)}
             = {<<r.sub, r.clause>> : r \in ToSet(RowsOf(b.code))}

Esrs2IsRead ==
  LET read == ParseEsrs2
      sections == Sections(read.blocks)
  IN /\ read.failed = truth.refused
     /\ ~read.failed =>
          /\ {read.blocks[k].code : k \in DOMAIN read.blocks} = {r.code : r \in ToSet(truth.rows)}
          /\ \A k \in DOMAIN read.blocks :
               Lists(ItemsOf(read.blocks[k]), RowsOf(read.blocks[k].code))
          /\ Len(FlattenSeq([k \in DOMAIN sections |-> sections[k].blocks])) = Len(read.blocks)

\* The clauses as a tree: under the last clause above that is less deep.
TreeOf(clauses) ==
  [i \in DOMAIN clauses |->
     [parent |-> GreatestOf({j \in 1..i - 1 : clauses[j].depth < clauses[i].depth} \cup {0}),
      verb |-> clauses[i].verb, lines |-> clauses[i].lines]]

MetricIsRead(read, meant) ==
  /\ read.code = meant.code /\ read.title = meant.title /\ read.tables = meant.tables
  /\ read.tree = TreeOf(meant.clauses)
  /\ read.note.preface = meant.note /\ read.note.tree = TreeOf(meant.noted)
  /\ {p.text : p \in {x \in ToSet(read.points) : x.code # "note"}} =
       IF meant.shape.crossed THEN (1..meant.shape.numbers) \X (1..meant.shape.letters)
       ELSE IF meant.shape.numbers > 1 THEN (1..meant.shape.numbers) \X {0}
       ELSE IF meant.shape.letters > 1 THEN {0} \X (1..meant.shape.letters) ELSE {<<0, 0>>}
  /\ Unique(read.points)

SasbIsRead ==
  /\ Len(ParseTopics) = Len(truth.topics)
  /\ Unique([k \in DOMAIN ParseTopics |-> ParseTopics[k].section])
  /\ \A k \in DOMAIN truth.topics :
       LET read == ParseTopics[k].metrics meant == truth.topics[k].metrics
       IN Len(read) = Len(meant) /\ \A m \in DOMAIN meant : MetricIsRead(read[m], meant[m])
  /\ Opened =>
       LET read == Activities(ActivityLines) meant == truth.activity
       IN /\ read.rows = [k \in DOMAIN meant |-> [code |-> meant[k].code, title |-> meant[k].title]]
          /\ read.notes = {<<r.code, r.note>> : r \in {x \in ToSet(meant) : x.note > 0}}

\* A workbook and an industry standard are read as they were meant, whatever their
\* layout; a workbook with a row in the wrong place is refused as a whole.
ReadsWhatIsWritten ==
  /\ form = "esrs" => EsrsIsRead
  /\ form = "esrs2" => Esrs2IsRead
  /\ form = "sasb" => SasbIsRead
=============================================================================
