----------------------------- MODULE Extractor -----------------------------
(***************************************************************************)
(* Reading a MASTER sheet (extract in app/extractor.py), row by row.       *)
(*                                                                         *)
(* A row has a label in column B and Width cells from column C on; column  *)
(* c of the model is the c-th of those.  A cell is blank, a number, or a   *)
(* text; NumberIn tells which texts float() reads.  A key label stands for *)
(* the field it sets; "Liquidity" is both a key label and a metric label.  *)
(* A blank field is "" in the code and NULL here, and a number put in a    *)
(* field is its str().  The sheet that has been read so far is kept to     *)
(* state the properties; so are the positions of issues and provenance.    *)
(***************************************************************************)
EXTENDS Integers, Sequences, FiniteSetsExt

CONSTANTS NULL, Number,
          Whole,        \* the numbers without a fraction
          Text,
          NumberIn,     \* [Text -> Number \cup {NULL}]
          KeyLabel, MetricLabel,
          Label,        \* the labels that rows of the instance have
          Width, MaxRows

Header == "[Scope Credit Metrics]"
Lists == {"Rating methodologies applied", "Industry risk", "Industry risk score", "Industry weight"}
Known == KeyLabel \cup MetricLabel \cup Lists \cup {Header}
Cell == Number \cup Text \cup {NULL}
Row == [label : Label \cup {NULL}, cells : [1..Width -> Cell]]

ASSUME ExtractorAssumption ==
  /\ Width \in Nat \ {0} /\ MaxRows \in Nat /\ Whole \subseteq Number
  /\ NULL \notin Number /\ NULL \notin Text /\ NULL \notin Label
  /\ Number \cap Text = {}
  /\ KeyLabel \cap (Lists \cup {Header, NULL}) = {} /\ MetricLabel \cap {Header, NULL} = {}
  /\ NULL \notin Lists \cup {Header}
  /\ NumberIn \in [Text -> Number \cup {NULL}]

VARIABLES
  sheet,       \* the rows read so far
  phase,       \* "keys", "metrics" (in_metrics), then "done"
  years,       \* the years of the latest header
  fields,      \* [key label -> cell]: the rating and company fields
  lists,       \* [list label -> sequence of cells]
  metrics,     \* [year -> [metric label -> number]]: data.credit_metrics
  segments,    \* data.industry_segments
  unknown,     \* data.unknown_labels
  issues,      \* quality issues, each with the position it names
  provenance   \* provenance records, each with its field and its position

data == <<fields, lists, metrics, segments>>
vars == <<sheet, phase, years, data, unknown, issues, provenance>>

\* _to_float
ToFloat(v) == IF v \in Text THEN NumberIn[v] ELSE v

\* The cells of a row that are in S, in their order.
Kept(cells, S) ==
  LET K[c \in 0..Width] == IF c = 0 THEN <<>>
                          ELSE IF cells[c] \in S THEN Append(K[c - 1], cells[c]) ELSE K[c - 1]
  IN  K[Width]

Filled(cells) == Kept(cells, Number \cup Text)

RowNumber == Len(sheet) + 1

Init == /\ sheet = <<>> /\ phase = "keys" /\ years = <<>>
        /\ fields = [l \in KeyLabel |-> NULL]
        /\ lists = [l \in Lists |-> <<>>]
        /\ metrics = [y \in {} |-> NULL]
        /\ segments = <<>> /\ unknown = {} /\ issues = {} /\ provenance = {}

\* Every row with a label is looked up in KNOWN_LABELS, and reported the
\* first time it is not there.  New are the other issues of the row.
Report(r, new) ==
  LET drift == IF r.label \in Known \cup unknown THEN {}
               ELSE {[type |-> "schema_drift", row |-> RowNumber, col |-> 0]}
  IN  /\ unknown' = unknown \cup ({r.label} \ Known)
      /\ issues' = issues \cup drift \cup new

\* A row without a label is skipped.
SkipRow(r) ==
  /\ r.label = NULL
  /\ UNCHANGED <<phase, years, data, unknown, issues, provenance>>

\* Mutant: a second header does not replace the years.
HeaderRow_KeepsYears(r) ==
  /\ r.label = Header
  /\ phase' = "metrics"
  /\ years' = IF years = <<>> THEN Kept(r.cells, Whole) ELSE years
  /\ Report(r, {})
  /\ UNCHANGED <<data, provenance>>

\* The header of the time series: its whole numbers are the years.
HeaderRow(r) ==
  /\ r.label = Header
  /\ phase' = "metrics"
  /\ years' = Kept(r.cells, Whole)
  /\ Report(r, {})
  /\ UNCHANGED <<data, provenance>>

NoMetrics == [l \in MetricLabel |-> NULL]

MetricsOf(y) == IF y \in DOMAIN metrics THEN metrics[y] ELSE NoMetrics

\* Mutant: a text is taken for a blank cell.
Unreadable_Quiet(r) == {}

\* The cells of r under a year that hold something, but no number.
Unreadable(r) == {c \in DOMAIN years : r.cells[c] # NULL /\ ToFloat(r.cells[c]) = NULL}

\* Mutant: columns counted from 0 and from 1 are mixed up.
SeriesProvenance_Shifted(r, taken) ==
  {[field |-> <<r.label, years[c]>>, row |-> RowNumber, col |-> (c % Width) + 1] : c \in taken}

SeriesProvenance(r, taken) ==
  {[field |-> <<r.label, years[c]>>, row |-> RowNumber, col |-> c] : c \in taken}

\* A row below the header.  The i-th year takes the i-th cell; of two columns
\* with the same year the later one wins.
MetricRow(r) ==
  LET taken == IF r.label \in MetricLabel THEN DOMAIN years ELSE {}
      last(y) == Max({c \in taken : years[c] = y})
      given == {years[c] : c \in taken}
  IN  /\ phase = "metrics" /\ r.label \notin {NULL, Header}
      /\ metrics' = [y \in DOMAIN metrics \cup given |->
                       IF y \in given THEN [MetricsOf(y) EXCEPT ![r.label] = ToFloat(r.cells[last(y)])]
                       ELSE metrics[y]]
      /\ Report(r, {[type |-> "invalid_type", row |-> RowNumber, col |-> c] : c \in taken \cap Unreadable(r)})
      /\ provenance' = provenance \cup SeriesProvenance(r, taken)
      /\ UNCHANGED <<phase, years, fields, lists, segments>>

\* The key-value section ends at the header.
InKeys == phase = "keys"

\* A label with one value: the first cell, blank or not.
KeyRow(r) ==
  /\ InKeys /\ r.label \in KeyLabel
  /\ fields' = [fields EXCEPT ![r.label] = r.cells[1]]
  /\ provenance' = provenance \cup {[field |-> <<r.label, NULL>>, row |-> RowNumber, col |-> 1]}
  /\ Report(r, {})
  /\ UNCHANGED <<phase, years, lists, metrics, segments>>

\* The i-th value of a list is said to come from the i-th cell; scores and
\* weights have no provenance.
ListProvenance(r) ==
  IF r.label \in {"Rating methodologies applied", "Industry risk"}
  THEN {[field |-> <<r.label, i>>, row |-> RowNumber, col |-> i] : i \in DOMAIN Filled(r.cells)}
  ELSE {}

\* The values of a list: the cells that are not blank, the numbers among
\* them for the weights.
Values(r) == IF r.label = "Industry weight" THEN Kept(r.cells, Number)
             ELSE Filled(r.cells)

\* A label with several values.
ListRow(r) ==
  /\ InKeys /\ r.label \in Lists
  /\ lists' = [lists EXCEPT ![r.label] = Values(r)]
  /\ provenance' = provenance \cup ListProvenance(r)
  /\ Report(r, {})
  /\ UNCHANGED <<phase, years, fields, metrics, segments>>

\* A row above the header that no case matches.
OtherRow(r) ==
  /\ InKeys /\ r.label \notin KeyLabel \cup Lists \cup {Header, NULL}
  /\ Report(r, {})
  /\ UNCHANGED <<phase, years, data, provenance>>

ReadRow(r) ==
  /\ phase # "done" /\ Len(sheet) < MaxRows
  /\ sheet' = Append(sheet, r)
  /\ SkipRow(r) \/ HeaderRow(r) \/ MetricRow(r) \/ KeyRow(r) \/ ListRow(r) \/ OtherRow(r)

Shortest(ss) == Min({Len(s) : s \in ss})

Segment(i) == [risk |-> lists["Industry risk"][i], score |-> lists["Industry risk score"][i],
               weight |-> lists["Industry weight"][i]]

\* The segments pair the i-th risk, score and weight.
Assemble ==
  /\ phase # "done"
  /\ phase' = "done"
  /\ segments' = [i \in 1..Shortest({lists[l] : l \in Lists \ {"Rating methodologies applied"}}) |-> Segment(i)]
  /\ UNCHANGED <<sheet, years, fields, lists, metrics, unknown, issues, provenance>>

Next == Assemble \/ \E r \in Row : ReadRow(r)

Spec == Init /\ [][Next]_vars

-----------------------------------------------------------------------------
(* The sheet *)

Rows(l) == {i \in DOMAIN sheet : sheet[i].label = l}

\* The rows of the key-value section.
KeyRows == {i \in DOMAIN sheet : \A h \in Rows(Header) : i < h}

\* The header a metric row stands under.
HeaderOf(i) == Max({h \in Rows(Header) : h < i})

MetricRows == {i \in DOMAIN sheet \ KeyRows : sheet[i].label \in MetricLabel}

\* How many columns up to d have nothing of S.
Gaps(cells, S, d) == Cardinality({c \in 1..d : cells[c] \notin S})

\* The column whose cell counts as the c-th of S: the gaps before it close.
TakenAs(cells, S, c) == {d \in 1..Width : cells[d] \in S /\ d - Gaps(cells, S, d) = c}

\* The year that column c of metric row i is read for.
YearOf(i, c) == LET h == sheet[HeaderOf(i)].cells
                IN  IF TakenAs(h, Whole, c) = {} THEN NULL
                    ELSE h[CHOOSE d \in TakenAs(h, Whole, c) : TRUE]

\* The last row of list l, and the column of its i-th value.
KeyRowsOf(l) == KeyRows \cap Rows(l)
LastRow(l) == sheet[Max(KeyRowsOf(l))].cells
Taken(l) == IF l = "Industry weight" THEN Number ELSE Number \cup Text
ColumnOf(l, i) == IF KeyRowsOf(l) = {} THEN {} ELSE TakenAs(LastRow(l), Taken(l), i)

-----------------------------------------------------------------------------
(* Properties *)

\* A field holds the first cell of the last row with its label above the
\* header, whatever rows with that label stand below it.
FieldsAreReadAboveTheHeader ==
  \A l \in KeyLabel : fields[l] = IF KeyRowsOf(l) = {} THEN NULL ELSE LastRow(l)[1]

\* The value of metric l in year y according to the layout: in the last row
\* of l that has a column read for y, the cell of the last such column.
Layout(y, l) ==
  LET rs == {i \in MetricRows : sheet[i].label = l /\ \E c \in 1..Width : YearOf(i, c) = y}
      c == Max({d \in 1..Width : YearOf(Max(rs), d) = y})
  IN  IF rs = {} THEN NULL ELSE ToFloat(sheet[Max(rs)].cells[c])

\* "col C+ of that row holds the years, subsequent rows hold metric values": a
\* metric's value is the one under its year, with repeated headers, labels and
\* years, where the header has no gap; behind a gap it is read as many columns
\* left of its year as the header has gaps before it.
SeriesFollowTheHeader == \A y \in Whole, l \in MetricLabel : MetricsOf(y)[l] = Layout(y, l)

\* The cells read for a year that hold something, but no number, and only
\* these are reported as lost.  What a list drops, a text among the weights,
\* and what stands in a column that no year is read from, is not.
Dropped(i, c) == /\ YearOf(i, c) # NULL
                 /\ sheet[i].cells[c] # NULL /\ ToFloat(sheet[i].cells[c]) = NULL
DroppedCells == {p \in MetricRows \X (1..Width) : Dropped(p[1], p[2])}
SeriesLossIsReported ==
  DroppedCells = {<<p.row, p.col>> : p \in {q \in issues : q.type = "invalid_type"}}

\* A label that is not known is reported once, at its first row.
DriftIsReportedOnce ==
  {p \in issues : p.type = "schema_drift"} =
    {[type |-> "schema_drift", row |-> Min(Rows(l)), col |-> 0] :
        l \in {sheet[i].label : i \in DOMAIN sheet} \ (Known \cup {NULL})}

\* The issues of a sheet are those of its time series, cell by cell, and of
\* its unknown labels, label by label.
IssuesAreExact == SeriesLossIsReported /\ DriftIsReportedOnce

SegmentLists == Lists \ {"Rating methodologies applied"}

\* There are as many segments as every list has values, and the i-th takes
\* the i-th cell that each list keeps: one column, if the lists have the same
\* gaps before it, and other columns than the template's if they do not, as
\* behind a text among the weights.
SegmentsPairTheKeptCells ==
  /\ \A i \in DOMAIN segments :
       \E c \in ColumnOf("Industry risk", i), d \in ColumnOf("Industry risk score", i),
          e \in ColumnOf("Industry weight", i) :
         segments[i] = [risk |-> LastRow("Industry risk")[c], score |-> LastRow("Industry risk score")[d],
                        weight |-> LastRow("Industry weight")[e]]
  /\ phase = "done" =>
       DOMAIN segments = {i \in 1..Width : \A l \in SegmentLists : ColumnOf(l, i) # {}}

\* Every value is read from where the sheet puts it, gaps closed.
LayoutIsRead == FieldsAreReadAboveTheHeader /\ SeriesFollowTheHeader /\ SegmentsPairTheKeptCells

\* The cells that the provenance of field f in year y names.
Sources(f, y) == {sheet[p.row].cells[p.col] : p \in {q \in provenance : q.field = <<f, y>>}}

\* The lists whose values have provenance.
Traced == {"Rating methodologies applied", "Industry risk"}

\* "Cell-level lineage": provenance leads to a cell that holds the value, for
\* the fields and the metrics.  The record of the i-th methodology or risk
\* names its row and column i; the value stands in the column that is taken
\* as i, which is another one behind a gap.  Scores and weights have none.
ValuesTraceToCells ==
  /\ \A l \in KeyLabel : fields[l] # NULL => fields[l] \in Sources(l, NULL)
  /\ \A y \in DOMAIN metrics, l \in MetricLabel :
       metrics[y][l] # NULL => metrics[y][l] \in {ToFloat(v) : v \in Sources(l, y)}
  /\ \A l \in Traced : \A i \in DOMAIN lists[l] :
       /\ \E d \in ColumnOf(l, i) : lists[l][i] = LastRow(l)[d]
       /\ [field |-> <<l, i>>, row |-> Max(KeyRowsOf(l)), col |-> i] \in provenance
=============================================================================
