-------------------------- MODULE ExtractorProofs --------------------------
(***************************************************************************)
(* Proofs about Extractor, for sheets of any width and length.  What the   *)
(* cells of a row amount to is shown by induction over its columns; it     *)
(* rests on the fact that a set of natural numbers has a least element.    *)
(***************************************************************************)
EXTENDS Extractor, SetLemmas

-----------------------------------------------------------------------------
(* The cells of a row *)

LEMMA WidthType == Width \in Nat \ {0} /\ MaxRows \in Nat
BY ExtractorAssumption

\* K[c] are the cells up to column c that are in S.
ByColumn(K, cells, S) ==
  /\ K[0] = <<>>
  /\ \A c \in 1..Width : K[c] = IF cells[c] \in S THEN Append(K[c - 1], cells[c]) ELSE K[c - 1]

LEMMA KeptByColumn ==
  ASSUME NEW cells, NEW S
  PROVE  \E K : Kept(cells, S) = K[Width] /\ ByColumn(K, cells, S)
<1> DEFINE Step(K, c) == IF c = 0 THEN <<>>
                         ELSE IF cells[c] \in S THEN Append(K[c - 1], cells[c]) ELSE K[c - 1]
           Columns == {n \in Nat : \E K : K = [c \in 0..n |-> Step(K, c)]}
<1>1. 0 \in Columns
  <2> DEFINE K == [c \in 0..0 |-> <<>>]
  <2>1. K = [c \in 0..0 |-> Step(K, c)]
    OBVIOUS
  <2> QED BY <2>1
<1>2. ASSUME NEW n \in Nat, n \in Columns PROVE n + 1 \in Columns
  <2>1. PICK K : K = [c \in 0..n |-> Step(K, c)]
    BY <1>2
  <2> DEFINE L == [c \in 0..(n + 1) |-> IF c <= n THEN K[c] ELSE Step(K, c)]
  <2>2. ASSUME NEW c \in 0..(n + 1) PROVE L[c] = Step(L, c)
    <3>1. c # 0 => c - 1 \in 0..n /\ L[c - 1] = K[c - 1]
      OBVIOUS
    <3>2. Step(L, c) = Step(K, c)
      BY <3>1
    <3> HIDE DEF Step
    <3>3. c <= n => K[c] = Step(K, c)
      BY <2>1
    <3> QED BY <3>2, <3>3
  <2>3. L = [c \in 0..(n + 1) |-> Step(L, c)]
    <3>1. L = [c \in 0..(n + 1) |-> L[c]]
      OBVIOUS
    <3> HIDE DEF L, Step
    <3> QED BY <2>2, <3>1
  <2> HIDE DEF L, Step
  <2> QED BY <2>3
<1>3. Width \in Columns
  <2> HIDE DEF Columns
  <2> QED BY <1>1, <1>2, Successors, WidthType
<1>4. PICK K : K = [c \in 0..Width |-> Step(K, c)]
  BY <1>3
<1> DEFINE C == CHOOSE F : F = [c \in 0..Width |-> Step(F, c)]
<1>5. C = [c \in 0..Width |-> Step(C, c)]
  BY <1>4
<1>6. Kept(cells, S) = C[Width]
  BY DEF Kept
<1> HIDE DEF C
<1>7. \A c \in 0..Width : C[c] = Step(C, c)
  BY <1>5
<1> QED BY <1>7, <1>6, WidthType DEF ByColumn

\* The cells kept are of the set, and as many as the row has at most.
LEMMA KeptType ==
  ASSUME NEW cells, NEW S
  PROVE  Kept(cells, S) \in Seq(S) /\ Len(Kept(cells, S)) <= Width
<1>1. PICK K : Kept(cells, S) = K[Width] /\ ByColumn(K, cells, S)
  BY KeptByColumn
<1> DEFINE Right == {n \in Nat : n <= Width => K[n] \in Seq(S) /\ Len(K[n]) <= n}
<1>2. 0 \in Right
  <2>1. K[0] \in Seq(S) /\ Len(K[0]) = 0
    <3>1. K[0] = <<>>
      BY <1>1 DEF ByColumn
    <3> QED BY <3>1
  <2>2. 1..0 = {}
    OBVIOUS
  <2> QED BY <2>1, <2>2
<1>3. ASSUME NEW n \in Nat, n \in Right PROVE n + 1 \in Right
  <2> SUFFICES ASSUME n + 1 <= Width PROVE K[n + 1] \in Seq(S) /\ Len(K[n + 1]) <= n + 1
    OBVIOUS
  <2>1. K[n] \in Seq(S) /\ Len(K[n]) <= n
    BY <1>3, WidthType
  <2>2. K[n + 1] = IF cells[n + 1] \in S THEN Append(K[n], cells[n + 1]) ELSE K[n]
    <3>1. n + 1 \in 1..Width /\ (n + 1) - 1 = n
      BY WidthType
    <3> QED BY <3>1, <1>1 DEF ByColumn
  <2> QED BY <2>1, <2>2
<1> HIDE DEF Right
<1>4. Width \in Right
  BY <1>2, <1>3, Successors, WidthType
<1> QED BY <1>1, <1>4, WidthType DEF Right

LEMMA GapsByColumn ==
  ASSUME NEW cells, NEW S
  PROVE  /\ Gaps(cells, S, 0) = 0
         /\ \A n \in Nat :
              /\ Gaps(cells, S, n) \in Nat
              /\ Gaps(cells, S, n + 1) = Gaps(cells, S, n) + (IF cells[n + 1] \in S THEN 0 ELSE 1)
<1> DEFINE G(n) == {c \in 1..n : cells[c] \notin S}
<1>1. G(0) = {}
  OBVIOUS
<1>2. ASSUME NEW n \in Nat
      PROVE  /\ IsFiniteSet(G(n)) /\ n + 1 \notin G(n)
             /\ G(n + 1) = IF cells[n + 1] \in S THEN G(n) ELSE G(n) \cup {n + 1}
  <2>1. IsFiniteSet(1..n) /\ G(n) \subseteq 1..n
    BY FS_Interval
  <2>2. \A c : c \in 1..(n + 1) <=> c \in 1..n \/ c = n + 1
    OBVIOUS
  <2>3. n + 1 \notin 1..n
    OBVIOUS
  <2> QED BY <2>1, <2>2, <2>3, FS_Subset
<1> HIDE DEF G
<1>3. \A n : Gaps(cells, S, n) = Cardinality(G(n))
  BY DEF Gaps, G
<1>4. ASSUME NEW n \in Nat
      PROVE  /\ Gaps(cells, S, n) \in Nat
             /\ Gaps(cells, S, n + 1) = Gaps(cells, S, n) + (IF cells[n + 1] \in S THEN 0 ELSE 1)
  <2>1. Cardinality(G(n)) \in Nat /\ Cardinality(G(n) \cup {n + 1}) = Cardinality(G(n)) + 1
    BY <1>2, FS_CardinalityType, FS_AddElement
  <2>2. Gaps(cells, S, n) = Cardinality(G(n)) /\ Gaps(cells, S, n + 1) = Cardinality(G(n + 1))
    BY <1>3
  <2>3. CASE cells[n + 1] \in S
    <3>1. G(n + 1) = G(n)
      BY <1>2, <2>3
    <3> QED BY <2>1, <2>2, <2>3, <3>1
  <2>4. CASE cells[n + 1] \notin S
    <3>1. G(n + 1) = G(n) \cup {n + 1}
      BY <1>2, <2>4
    <3> QED BY <2>1, <2>2, <2>4, <3>1
  <2> QED BY <2>3, <2>4
<1> QED BY <1>1, <1>3, <1>4, FS_EmptySet

\* The c-th cell kept is that of the column that is taken as the c-th.
LEMMA KeptOfTaken ==
  ASSUME NEW cells, NEW S
  PROVE  \A c \in 1..Width :
           /\ c \in 1..Len(Kept(cells, S)) <=> TakenAs(cells, S, c) # {}
           /\ \A d \in TakenAs(cells, S, c) : d \in 1..Width /\ Kept(cells, S)[c] = cells[d]
<1>1. PICK K : Kept(cells, S) = K[Width] /\ ByColumn(K, cells, S)
  BY KeptByColumn
<1>2. PICK G : \A n \in Nat : G[n] = Gaps(cells, S, n)
  <2> DEFINE F == [n \in Nat |-> Gaps(cells, S, n)]
  <2>1. \A n \in Nat : F[n] = Gaps(cells, S, n)
    OBVIOUS
  <2> QED BY <2>1
<1>3. G[0] = 0 /\ \A n \in Nat : G[n] \in Nat /\ G[n + 1] = G[n] + (IF cells[n + 1] \in S THEN 0 ELSE 1)
  <2>1. \A n \in Nat : n + 1 \in Nat
    OBVIOUS
  <2> QED BY <1>2, <2>1, GapsByColumn
<1> DEFINE Known1(n) == K[n] \in Seq(S) /\ Len(K[n]) = n - G[n]
           Known2(n) == \A d \in 1..n : cells[d] \in S =>
                          d - G[d] \in 1..Len(K[n]) /\ K[n][d - G[d]] = cells[d]
           Known3(n) == \A c \in 1..Len(K[n]) : \E d \in 1..n : cells[d] \in S /\ d - G[d] = c
           Right == {n \in Nat : n <= Width => Known1(n) /\ Known2(n) /\ Known3(n)}
<1>4. 0 \in Right
  <2>1. K[0] = <<>>
    BY <1>1 DEF ByColumn
  <2>2. K[0] \in Seq(S) /\ Len(K[0]) = 0 /\ 1..0 = {}
    BY <2>1
  <2> QED BY <1>3, <2>2
<1>5. ASSUME NEW n \in Nat, n \in Right PROVE n + 1 \in Right
  <2> SUFFICES ASSUME n + 1 <= Width PROVE Known1(n + 1) /\ Known2(n + 1) /\ Known3(n + 1)
    OBVIOUS
  <2>1. Known1(n) /\ Known2(n) /\ Known3(n)
    BY <1>5, WidthType
  <2>2. K[n + 1] = IF cells[n + 1] \in S THEN Append(K[n], cells[n + 1]) ELSE K[n]
    <3>1. n + 1 \in 1..Width /\ (n + 1) - 1 = n
      BY WidthType
    <3> QED BY <3>1, <1>1 DEF ByColumn
  <2>3. G[n] \in Nat /\ G[n + 1] = G[n] + (IF cells[n + 1] \in S THEN 0 ELSE 1)
    BY <1>3
  <2>4. \A d : d \in 1..(n + 1) <=> d \in 1..n \/ d = n + 1
    OBVIOUS
  <2>5. CASE cells[n + 1] \in S
    <3>1. K[n + 1] = Append(K[n], cells[n + 1]) /\ (n + 1) - G[n + 1] = Len(K[n]) + 1
      BY <2>1, <2>2, <2>3, <2>5
    <3>2. /\ K[n + 1] \in Seq(S) /\ Len(K[n + 1]) = Len(K[n]) + 1 /\ Len(K[n]) \in Nat
          /\ K[n + 1][Len(K[n]) + 1] = cells[n + 1]
          /\ \A c \in 1..Len(K[n]) : K[n + 1][c] = K[n][c] /\ c \in 1..(Len(K[n]) + 1)
      BY <2>1, <2>5, <3>1
    <3>3. Known1(n + 1)
      BY <3>1, <3>2
    <3>4. Known2(n + 1)
      <4> SUFFICES ASSUME NEW d \in 1..(n + 1), cells[d] \in S
                   PROVE  d - G[d] \in 1..Len(K[n + 1]) /\ K[n + 1][d - G[d]] = cells[d]
        OBVIOUS
      <4>1. CASE d \in 1..n
        <5>1. d - G[d] \in 1..Len(K[n]) /\ K[n][d - G[d]] = cells[d]
          BY <2>1, <4>1
        <5> DEFINE c == d - G[d]
        <5> HIDE DEF c
        <5>2. c \in 1..Len(K[n]) /\ K[n][c] = cells[d]
          BY <5>1 DEF c
        <5>3. c \in 1..Len(K[n + 1]) /\ K[n + 1][c] = cells[d]
          BY <5>2, <3>2
        <5> QED BY <5>3 DEF c
      <4>2. CASE d = n + 1
        BY <3>1, <3>2, <4>2
      <4> QED BY <4>1, <4>2, <2>4
    <3>5. Known3(n + 1)
      <4> SUFFICES ASSUME NEW c \in 1..Len(K[n + 1])
                   PROVE  \E d \in 1..(n + 1) : cells[d] \in S /\ d - G[d] = c
        OBVIOUS
      <4>1. c \in 1..Len(K[n]) \/ c = Len(K[n]) + 1
        BY <3>2
      <4> QED BY <4>1, <2>1, <2>4, <2>5, <3>1
    <3> QED BY <3>3, <3>4, <3>5
  <2>6. CASE cells[n + 1] \notin S
    <3>1. K[n + 1] = K[n] /\ G[n + 1] = G[n] + 1
      BY <2>2, <2>3, <2>6
    <3>2. Known1(n + 1)
      BY <2>1, <2>3, <3>1
    <3> QED BY <2>1, <2>4, <2>6, <3>1, <3>2
  <2> QED BY <2>5, <2>6
<1> HIDE DEF Right
<1>6. Width \in Right
  BY <1>4, <1>5, Successors, WidthType
<1>7. Known1(Width) /\ Known2(Width) /\ Known3(Width)
  BY <1>6, WidthType DEF Right
<1>8. Len(K[Width]) <= Width
  BY <1>3, <1>7, WidthType
<1>9. \A c, d : d \in TakenAs(cells, S, c) <=> d \in 1..Width /\ cells[d] \in S /\ d - G[d] = c
  BY <1>2 DEF TakenAs
<1> HIDE DEF Known1
<1>10. ASSUME NEW c \in 1..Width
       PROVE  /\ c \in 1..Len(K[Width]) => TakenAs(cells, S, c) # {}
              /\ \A d \in TakenAs(cells, S, c) : c \in 1..Len(K[Width]) /\ K[Width][c] = cells[d]
  BY <1>7, <1>9
<1> QED BY <1>1, <1>9, <1>10

-----------------------------------------------------------------------------
(* The inductive invariant *)

Types ==
  /\ sheet \in Seq(Row) /\ phase \in {"keys", "metrics", "done"}
  /\ years \in Seq(Whole) /\ Len(years) <= Width
  /\ fields \in [KeyLabel -> Cell]
  /\ DOMAIN lists = Lists
  /\ DOMAIN metrics \subseteq Whole
  /\ \A y \in DOMAIN metrics : metrics[y] \in [MetricLabel -> Number \cup {NULL}]

\* i is the last, or the first, of the rows R.
LastOf(R, i) == i \in R /\ \A j \in R : j <= i
FirstOf(R, i) == i \in R /\ \A j \in R : i <= j

\* The phase tells whether there has been a header, and the years are those
\* of the last one.
YearsInv ==
  /\ phase = "keys" => Rows(Header) = {}
  /\ phase = "metrics" => Rows(Header) # {}
  /\ \A h \in DOMAIN sheet : LastOf(Rows(Header), h) => years = Kept(sheet[h].cells, Whole)

Came(field, at, i) == [field |-> field, row |-> i, col |-> at] \in provenance

\* A field is the first cell of the last row with its label, and provenance
\* says so.
FieldsInv ==
  \A l \in KeyLabel :
    /\ KeyRowsOf(l) = {} => fields[l] = NULL
    /\ \A i \in DOMAIN sheet : LastOf(KeyRowsOf(l), i) => fields[l] = sheet[i].cells[1] /\ Came(<<l, NULL>>, 1, i)

\* So is a list of its values.
ListsInv ==
  \A l \in Lists :
    /\ KeyRowsOf(l) = {} => lists[l] = <<>>
    /\ \A i \in DOMAIN sheet : LastOf(KeyRowsOf(l), i) =>
              /\ lists[l] = Values(sheet[i])
              /\ l \in Traced => \A c \in DOMAIN Filled(sheet[i].cells) : Came(<<l, c>>, c, i)

\* Every value of the series has a cell in provenance.
TraceInv ==
  \A y \in DOMAIN metrics, l \in MetricLabel :
    metrics[y][l] # NULL =>
      \E i \in DOMAIN sheet, c \in 1..Width :
        Came(<<l, y>>, c, i) /\ metrics[y][l] = ToFloat(sheet[i].cells[c])

\* The rows of metric l that have a cell under year y, and the last such cell.
RowsUnder(y, l) == {i \in MetricRows : sheet[i].label = l /\ \E c \in 1..Width : YearOf(i, c) = y}
CellUnder(y, i) == sheet[i].cells[Max({d \in 1..Width : YearOf(i, d) = y})]

LayoutInv ==
  \A y \in Whole, l \in MetricLabel :
    /\ RowsUnder(y, l) = {} => MetricsOf(y)[l] = NULL
    /\ \A i \in DOMAIN sheet : LastOf(RowsUnder(y, l), i) => MetricsOf(y)[l] = ToFloat(CellUnder(y, i))

\* The labels that are not known have been reported at their first rows.
DriftAt(i) == [type |-> "schema_drift", row |-> i, col |-> 0]
DriftInv ==
  /\ unknown = {sheet[i].label : i \in DOMAIN sheet} \ (Known \cup {NULL})
  /\ \A p \in issues : p.type = "schema_drift" =>
       \E l \in unknown : \E i \in DOMAIN sheet : FirstOf(Rows(l), i) /\ p = DriftAt(i)
  /\ \A l \in unknown : \A i \in DOMAIN sheet : FirstOf(Rows(l), i) => DriftAt(i) \in issues

\* Segments are put together when the sheet has been read.
SegmentsInv ==
  IF phase # "done" THEN segments = <<>>
  ELSE segments = [i \in 1..Shortest({lists[l] : l \in Lists \ {"Rating methodologies applied"}}) |-> Segment(i)]

IInv == /\ Types /\ YearsInv /\ FieldsInv /\ ListsInv /\ TraceInv
        /\ LayoutInv /\ SeriesLossIsReported /\ DriftInv /\ SegmentsInv

-----------------------------------------------------------------------------
(* A sheet that grows by a row *)

\* r becomes the next row of the sheet.
Grows(r) == r \in Row /\ sheet' = Append(sheet, r)

LEMMA Rows1 ==
  ASSUME Types, NEW r, Grows(r)
  PROVE  /\ RowNumber \in Nat /\ RowNumber \notin DOMAIN sheet
         /\ \A i \in DOMAIN sheet : i \in Nat /\ 1 <= i /\ i < RowNumber
         /\ DOMAIN sheet' = DOMAIN sheet \cup {RowNumber}
         /\ \A i \in DOMAIN sheet : sheet'[i] = sheet[i]
         /\ sheet'[RowNumber] = r
         /\ sheet' \in Seq(Row)
BY DEF Types, Grows, RowNumber

LEMMA RowsWith ==
  ASSUME Types, NEW r, Grows(r), NEW l
  PROVE  /\ Rows(l)' = Rows(l) \cup (IF r.label = l THEN {RowNumber} ELSE {})
         /\ Rows(l) \subseteq DOMAIN sheet
BY Rows1 DEF Rows

LEMMA KeyRowsNext ==
  ASSUME Types, NEW r, Grows(r)
  PROVE  KeyRows' = KeyRows \cup (IF Rows(Header) = {} /\ r.label # Header THEN {RowNumber} ELSE {})
<1>1. Rows(Header)' = Rows(Header) \cup (IF r.label = Header THEN {RowNumber} ELSE {})
  BY RowsWith
<1>2. \A i \in DOMAIN sheet' : i \in KeyRows' <=> \A h \in Rows(Header)' : i < h
  BY DEF KeyRows
<1>3. \A h \in Rows(Header) : h \in Nat /\ h < RowNumber
  BY Rows1 DEF Rows
<1>4. ASSUME NEW i \in DOMAIN sheet PROVE i \in KeyRows' <=> i \in KeyRows
  BY <1>1, <1>2, <1>4, Rows1 DEF KeyRows
<1>5. RowNumber \in KeyRows' <=> Rows(Header)' = {}
  BY <1>1, <1>2, <1>3, Rows1
<1> QED BY <1>1, <1>4, <1>5, Rows1 DEF KeyRows

\* The key-value section grows above the first header only.
LEMMA KeySection ==
  ASSUME Types, YearsInv, NEW r, Grows(r), phase # "done", NEW l, l # Header
  PROVE  KeyRowsOf(l)' = KeyRowsOf(l) \cup (IF InKeys /\ r.label = l THEN {RowNumber} ELSE {})
<1>1. InKeys <=> Rows(Header) = {}
  BY DEF InKeys, YearsInv, Types
<1>2. /\ KeyRows' = KeyRows \cup (IF Rows(Header) = {} /\ r.label # Header THEN {RowNumber} ELSE {})
      /\ Rows(l)' = Rows(l) \cup (IF r.label = l THEN {RowNumber} ELSE {})
  BY KeyRowsNext, RowsWith
<1>3. RowNumber \notin KeyRows /\ RowNumber \notin Rows(l)
  BY Rows1 DEF KeyRows, Rows
<1> QED BY <1>1, <1>2, <1>3 DEF KeyRowsOf

\* A new last row.
LEMMA LastRowNext ==
  ASSUME Types, NEW r, Grows(r), NEW R, R \subseteq DOMAIN sheet, NEW i
  PROVE  LastOf(R \cup {RowNumber}, i) <=> i = RowNumber
BY Rows1 DEF LastOf

\* What a row does to the variables, whichever case it is.
LEMMA Effects ==
  ASSUME Types, YearsInv, NEW r \in Row, ReadRow(r)
  PROVE  /\ Grows(r) /\ phase # "done" /\ phase' # "done"
         /\ provenance \subseteq provenance' /\ segments' = segments
         /\ r.label \in KeyLabel /\ InKeys => KeyRow(r)
         /\ r.label \in Lists /\ InKeys => ListRow(r)
         /\ r.label \in MetricLabel /\ ~InKeys => MetricRow(r)
         /\ KeyRow(r) \/ fields' = fields
         /\ ListRow(r) \/ lists' = lists
         /\ MetricRow(r) \/ metrics' = metrics
         /\ r.label # Header => phase' = phase /\ years' = years
         /\ r.label = Header => HeaderRow(r)
<1>1. Grows(r) /\ phase # "done"
  BY DEF ReadRow, Grows
<1>2. InKeys \/ phase = "metrics"
  BY <1>1 DEF InKeys, Types
<1>3. CASE SkipRow(r)
  BY <1>1, <1>3, ExtractorAssumption DEF SkipRow, data
<1>4. CASE HeaderRow(r)
  BY <1>1, <1>4, ExtractorAssumption DEF HeaderRow, data, Lists, Header
<1>5. CASE MetricRow(r)
  BY <1>1, <1>5, ExtractorAssumption DEF MetricRow, InKeys
<1>6. CASE KeyRow(r)
  BY <1>1, <1>6, ExtractorAssumption DEF KeyRow, InKeys
<1>7. CASE ListRow(r)
  BY <1>1, <1>7, ExtractorAssumption DEF ListRow, InKeys, Lists, Header
<1>8. CASE OtherRow(r)
  BY <1>1, <1>8, <1>2, ExtractorAssumption DEF OtherRow, InKeys, data
<1> QED BY <1>3, <1>4, <1>5, <1>6, <1>7, <1>8 DEF ReadRow

\* The header a metric row stands under is there.
LEMMA HeaderAbove ==
  ASSUME Types, NEW i \in MetricRows
  PROVE  HeaderOf(i) \in Rows(Header) /\ HeaderOf(i) < i /\ HeaderOf(i) \in DOMAIN sheet
<1> DEFINE H == {h \in Rows(Header) : h < i}
<1>1. H \subseteq 1..Len(sheet) /\ Len(sheet) \in Nat /\ DOMAIN sheet = 1..Len(sheet)
  BY DEF Rows, Types
<1>2. H # {}
  <2>1. PICK h \in Rows(Header) : ~ (i < h)
    BY DEF MetricRows, KeyRows
  <2>2. i \in Nat /\ h \in Nat
    BY <1>1 DEF MetricRows, Rows
  <2>3. sheet[h].label = Header /\ sheet[i].label # Header
    BY ExtractorAssumption DEF MetricRows, Rows
  <2> QED BY <2>1, <2>2, <2>3
<1> HIDE DEF H
<1>3. Max(H) \in H
  BY <1>1, <1>2, Greatest
<1> QED BY <1>3 DEF HeaderOf, H, Rows

\* The rows of the series stay what they are.
LEMMA SeriesNext ==
  ASSUME Types, NEW r, Grows(r)
  PROVE  /\ MetricRows' = MetricRows \cup (IF Rows(Header) # {} /\ r.label \in MetricLabel
                                           THEN {RowNumber} ELSE {})
         /\ MetricRows \subseteq DOMAIN sheet
         /\ \A i \in MetricRows : \A c : YearOf(i, c)' = YearOf(i, c)
<1>1. Rows(Header)' = Rows(Header) \cup (IF r.label = Header THEN {RowNumber} ELSE {})
  BY RowsWith
<1>2. MetricRows' = MetricRows \cup (IF Rows(Header) # {} /\ r.label \in MetricLabel
                                           THEN {RowNumber} ELSE {})
  <2>1. RowNumber \notin KeyRows
    BY Rows1 DEF KeyRows
  <2>2. r.label \in MetricLabel => r.label # Header
    BY ExtractorAssumption
  <2> QED BY <2>1, <2>2, KeyRowsNext, Rows1 DEF MetricRows
<1>3. ASSUME NEW i \in MetricRows, NEW c PROVE YearOf(i, c)' = YearOf(i, c)
  <2>1. i \in DOMAIN sheet /\ i < RowNumber
    BY Rows1 DEF MetricRows
  <2>2. {h \in Rows(Header)' : h < i} = {h \in Rows(Header) : h < i}
    BY <1>1, <2>1, Rows1
  <2>3. HeaderOf(i)' = HeaderOf(i)
    BY <2>2 DEF HeaderOf
  <2>4. sheet'[HeaderOf(i)] = sheet[HeaderOf(i)]
    BY HeaderAbove, Rows1
  <2> QED BY <2>3, <2>4 DEF YearOf
<1> QED BY <1>2, <1>3 DEF MetricRows

\* There is a last row of any rows.
LEMMA HasLast ==
  ASSUME Types, NEW R, R \subseteq DOMAIN sheet, R # {}
  PROVE  LastOf(R, Max(R))
<1>1. DOMAIN sheet = 1..Len(sheet) /\ Len(sheet) \in Nat
  BY DEF Types
<1> QED BY <1>1, Greatest DEF LastOf

LEMMA LastIsMax ==
  ASSUME Types, NEW R, R \subseteq DOMAIN sheet, NEW i, LastOf(R, i)
  PROVE  Max(R) = i
<1>1. R \subseteq Int
  BY DEF Types
<1> QED BY <1>1, MaxIs DEF LastOf

-----------------------------------------------------------------------------
(* The steps *)

\* A metric row takes, for each year of the header, a cell under it.
Given(r, y) == r.label \in MetricLabel /\ \E c \in DOMAIN years : years[c] = y
LastCell(y) == Max({c \in DOMAIN years : years[c] = y})

LEMMA YearsType ==
  ASSUME Types
  PROVE  DOMAIN years \subseteq 1..Width /\ \A c \in DOMAIN years : years[c] \in Whole
BY WidthType DEF Types

LEMMA LastCellType ==
  ASSUME Types, NEW r, NEW y, Given(r, y)
  PROVE  LastCell(y) \in DOMAIN years /\ years[LastCell(y)] = y /\ y \in Whole
<1> DEFINE C == {c \in DOMAIN years : years[c] = y}
<1>1. C \subseteq 1..Width /\ C # {}
  BY YearsType DEF Given
<1> HIDE DEF C
<1>2. Max(C) \in C
  BY <1>1, Greatest, WidthType
<1> QED BY <1>2, YearsType DEF LastCell, C

LEMMA NumberRead ==
  ASSUME NEW v \in Cell
  PROVE  ToFloat(v) \in Number \cup {NULL}
BY ExtractorAssumption DEF Cell, ToFloat

LEMMA SeriesStep ==
  ASSUME Types, NEW r \in Row, MetricRow(r)
  PROVE  /\ DOMAIN metrics' \subseteq Whole
         /\ \A y \in DOMAIN metrics' : metrics'[y] \in [MetricLabel -> Number \cup {NULL}]
         /\ \A y : y \in DOMAIN metrics' <=> y \in DOMAIN metrics \/ Given(r, y)
         /\ \A y : \A l \in MetricLabel :
              MetricsOf(y)'[l] = IF Given(r, y) /\ l = r.label THEN ToFloat(r.cells[LastCell(y)])
                                 ELSE MetricsOf(y)[l]
<1> DEFINE taken == IF r.label \in MetricLabel THEN DOMAIN years ELSE {}
           given == {years[c] : c \in taken}
           last(y) == Max({c \in taken : years[c] = y})
<1>1. \A y : y \in given <=> Given(r, y)
  BY DEF Given
<1>2. \A y : Given(r, y) => last(y) = LastCell(y)
  BY DEF Given, LastCell
<1>3. metrics' = [y \in DOMAIN metrics \cup given |->
                    IF y \in given THEN [MetricsOf(y) EXCEPT ![r.label] = ToFloat(r.cells[last(y)])]
                    ELSE metrics[y]]
  BY DEF MetricRow
<1> HIDE DEF given, last
<1>4. \A y : Given(r, y) => r.label \in MetricLabel /\ y \in Whole /\ LastCell(y) \in 1..Width
  BY LastCellType, YearsType DEF Given
<1>5. \A y : MetricsOf(y) \in [MetricLabel -> Number \cup {NULL}]
  BY DEF MetricsOf, NoMetrics, Types
<1>6. \A y : Given(r, y) => ToFloat(r.cells[LastCell(y)]) \in Number \cup {NULL}
  BY <1>4, NumberRead DEF Row
<1>7. \A y : y \in DOMAIN metrics' <=> y \in DOMAIN metrics \/ Given(r, y)
  BY <1>1, <1>3
<1>8. DOMAIN metrics' \subseteq Whole
  BY <1>7, <1>4 DEF Types
<1>9. ASSUME NEW y PROVE y \in DOMAIN metrics' =>
                           metrics'[y] = IF Given(r, y)
                                         THEN [MetricsOf(y) EXCEPT ![r.label] = ToFloat(r.cells[LastCell(y)])]
                                         ELSE metrics[y]
  BY <1>1, <1>2, <1>3
<1>10. ASSUME NEW y \in DOMAIN metrics' PROVE metrics'[y] \in [MetricLabel -> Number \cup {NULL}]
  BY <1>4, <1>5, <1>6, <1>7, <1>9 DEF Types
<1>11. ASSUME NEW y, NEW l \in MetricLabel
       PROVE  MetricsOf(y)'[l] = IF Given(r, y) /\ l = r.label THEN ToFloat(r.cells[LastCell(y)])
                                 ELSE MetricsOf(y)[l]
  <2>1. CASE Given(r, y)
    <3>1. MetricsOf(y)' = [MetricsOf(y) EXCEPT ![r.label] = ToFloat(r.cells[LastCell(y)])]
      BY <2>1, <1>7, <1>9 DEF MetricsOf
    <3> QED BY <2>1, <3>1, <1>5
  <2>2. CASE ~Given(r, y)
    BY <2>2, <1>7, <1>9 DEF MetricsOf
  <2> QED BY <2>1, <2>2
<1> QED BY <1>7, <1>8, <1>10, <1>11

LEMMA TypesNext ==
  ASSUME Types, YearsInv, NEW r \in Row, ReadRow(r)
  PROVE  Types'
<1>1. sheet' \in Seq(Row)
  BY Effects, Rows1
<1>2. phase' \in {"keys", "metrics", "done"} /\ years' \in Seq(Whole) /\ Len(years') <= Width
  <2>1. CASE r.label = Header
    BY <2>1, Effects, KeptType DEF HeaderRow
  <2>2. CASE r.label # Header
    BY <2>2, Effects DEF Types
  <2> QED BY <2>1, <2>2
<1>3. fields' \in [KeyLabel -> Cell]
  <2>1. CASE KeyRow(r)
    <3>1. r.cells[1] \in Cell
      BY WidthType DEF Row
    <3> QED BY <2>1, <3>1 DEF KeyRow, Types
  <2> QED BY <2>1, Effects DEF Types
<1>4. DOMAIN lists' = Lists
  BY Effects DEF ListRow, Types
<1>5. /\ DOMAIN metrics' \subseteq Whole
      /\ \A y \in DOMAIN metrics' : metrics'[y] \in [MetricLabel -> Number \cup {NULL}]
  <2>1. CASE MetricRow(r)
    BY <2>1, SeriesStep
  <2> QED BY <2>1, Effects DEF Types
<1> QED BY <1>1, <1>2, <1>3, <1>4, <1>5 DEF Types

LEMMA YearsNext ==
  ASSUME Types, YearsInv, NEW r \in Row, ReadRow(r)
  PROVE  YearsInv'
<1>1. Grows(r) /\ phase # "done"
  BY Effects
<1>2. CASE r.label = Header
  <2>1. phase' = "metrics" /\ years' = Kept(r.cells, Whole)
    BY <1>2, Effects DEF HeaderRow
  <2>2. Rows(Header)' = Rows(Header) \cup {RowNumber} /\ Rows(Header) \subseteq DOMAIN sheet
    BY <1>1, <1>2, RowsWith
  <2>3. ASSUME NEW h, LastOf(Rows(Header), h)' PROVE years' = Kept(sheet'[h].cells, Whole)
    <3>1. LastOf(Rows(Header)', h)
      BY <2>3 DEF LastOf
    <3>2. h = RowNumber
      BY <3>1, <2>2, <1>1, LastRowNext
    <3> QED BY <2>1, <3>2, <1>1, Rows1
  <2> QED BY <2>1, <2>2, <2>3 DEF YearsInv
<1>3. CASE r.label # Header
  <2>1. phase' = phase /\ years' = years
    BY <1>3, Effects
  <2>2. Rows(Header)' = Rows(Header) /\ Rows(Header) \subseteq DOMAIN sheet
    BY <1>1, <1>3, RowsWith
  <2>3. ASSUME NEW h, LastOf(Rows(Header), h)' PROVE years' = Kept(sheet'[h].cells, Whole)
    <3>1. LastOf(Rows(Header), h) /\ h \in DOMAIN sheet
      BY <2>3, <2>2 DEF LastOf
    <3> QED BY <2>1, <3>1, <1>1, Rows1 DEF YearsInv
  <2> QED BY <2>1, <2>2, <2>3 DEF YearsInv
<1> QED BY <1>2, <1>3

\* Where the rows of a label do not grow, the last of them stays what it is.
LEMMA SameLast ==
  ASSUME Types, NEW r, Grows(r), NEW l, KeyRowsOf(l)' = KeyRowsOf(l),
         NEW i, LastOf(KeyRowsOf(l), i)'
  PROVE  LastOf(KeyRowsOf(l), i) /\ i \in DOMAIN sheet /\ sheet'[i] = sheet[i]
<1>1. LastOf(KeyRowsOf(l), i)
  BY DEF LastOf
<1>2. i \in DOMAIN sheet
  BY <1>1 DEF LastOf, KeyRowsOf, Rows
<1> QED BY <1>1, <1>2, Rows1

LEMMA NewLast ==
  ASSUME Types, NEW r, Grows(r), NEW l, KeyRowsOf(l)' = KeyRowsOf(l) \cup {RowNumber},
         NEW i, LastOf(KeyRowsOf(l), i)'
  PROVE  i = RowNumber /\ sheet'[i] = r
<1>1. LastOf(KeyRowsOf(l) \cup {RowNumber}, i) /\ KeyRowsOf(l) \subseteq DOMAIN sheet
  BY DEF LastOf, KeyRowsOf, Rows
<1> QED BY <1>1, LastRowNext, Rows1

LEMMA FieldsNext ==
  ASSUME Types, YearsInv, FieldsInv, NEW r \in Row, ReadRow(r)
  PROVE  FieldsInv'
<1> USE Effects
<1> SUFFICES ASSUME NEW l \in KeyLabel
             PROVE  /\ KeyRowsOf(l)' = {} => fields'[l] = NULL
                    /\ \A i \in DOMAIN sheet' : LastOf(KeyRowsOf(l), i)' =>
                         fields'[l] = sheet'[i].cells[1] /\ Came(<<l, NULL>>, 1, i)'
  BY DEF FieldsInv
<1>1. l # Header /\ Grows(r) /\ phase # "done" /\ provenance \subseteq provenance'
  BY ExtractorAssumption
<1>2. KeyRowsOf(l)' = KeyRowsOf(l) \cup (IF InKeys /\ r.label = l THEN {RowNumber} ELSE {})
  BY <1>1, KeySection
<1>3. CASE InKeys /\ r.label = l
  <2>1. KeyRow(r)
    BY <1>3
  <2>2. fields'[l] = r.cells[1] /\ [field |-> <<l, NULL>>, row |-> RowNumber, col |-> 1] \in provenance'
    BY <2>1, <1>3 DEF KeyRow, Types
  <2>3. KeyRowsOf(l)' = KeyRowsOf(l) \cup {RowNumber}
    BY <1>2, <1>3
  <2>4. ASSUME NEW i, LastOf(KeyRowsOf(l), i)' PROVE i = RowNumber /\ sheet'[i] = r
    BY <1>1, <2>3, <2>4, NewLast
  <2> QED BY <2>2, <2>3, <2>4 DEF Came
<1>4. CASE ~(InKeys /\ r.label = l)
  <2>1. KeyRowsOf(l)' = KeyRowsOf(l)
    BY <1>2, <1>4
  <2>2. fields'[l] = fields[l]
    BY <1>4 DEF KeyRow, Types
  <2>3. ASSUME NEW i, LastOf(KeyRowsOf(l), i)'
        PROVE  LastOf(KeyRowsOf(l), i) /\ i \in DOMAIN sheet /\ sheet'[i] = sheet[i]
    BY <1>1, <2>1, <2>3, SameLast
  <2> QED BY <1>1, <2>1, <2>2, <2>3 DEF FieldsInv, Came
<1> QED BY <1>3, <1>4

LEMMA ListsNext ==
  ASSUME Types, YearsInv, ListsInv, NEW r \in Row, ReadRow(r)
  PROVE  ListsInv'
<1> USE Effects
<1> DEFINE Traces(l, i, row) == l \in Traced => \A c \in DOMAIN Filled(row.cells) : Came(<<l, c>>, c, i)
<1> SUFFICES ASSUME NEW l \in Lists
             PROVE  /\ KeyRowsOf(l)' = {} => lists'[l] = <<>>
                    /\ \A i \in DOMAIN sheet' : LastOf(KeyRowsOf(l), i)' =>
                         lists'[l] = Values(sheet'[i]) /\ Traces(l, i, sheet[i])'
  BY DEF ListsInv
<1>1. l # Header /\ Grows(r) /\ phase # "done" /\ provenance \subseteq provenance'
  BY DEF Lists, Header
<1>2. KeyRowsOf(l)' = KeyRowsOf(l) \cup (IF InKeys /\ r.label = l THEN {RowNumber} ELSE {})
  BY <1>1, KeySection
<1>3. CASE InKeys /\ r.label = l
  <2>1. ListRow(r)
    BY <1>3
  <2>2. lists'[l] = Values(r)
    BY <2>1, <1>3 DEF ListRow, Types
  <2>3. KeyRowsOf(l)' = KeyRowsOf(l) \cup {RowNumber}
    BY <1>2, <1>3
  <2>4. ASSUME NEW i, LastOf(KeyRowsOf(l), i)' PROVE i = RowNumber /\ sheet'[i] = r
    BY <1>1, <2>3, <2>4, NewLast
  <2>5. ASSUME l \in Traced, NEW c \in DOMAIN Filled(r.cells)
        PROVE  [field |-> <<l, c>>, row |-> RowNumber, col |-> c] \in provenance'
    BY <2>1, <2>5, <1>3 DEF ListRow, ListProvenance, Traced
  <2> QED BY <2>2, <2>3, <2>4, <2>5 DEF Came
<1>4. CASE ~(InKeys /\ r.label = l)
  <2>1. KeyRowsOf(l)' = KeyRowsOf(l)
    BY <1>2, <1>4
  <2>2. lists'[l] = lists[l]
    BY <1>4 DEF ListRow, Types
  <2>3. ASSUME NEW i, LastOf(KeyRowsOf(l), i)'
        PROVE  LastOf(KeyRowsOf(l), i) /\ i \in DOMAIN sheet /\ sheet'[i] = sheet[i]
    BY <1>1, <2>1, <2>3, SameLast
  <2> QED BY <1>1, <2>1, <2>2, <2>3 DEF ListsInv, Came
<1> QED BY <1>3, <1>4

LEMMA TraceNext ==
  ASSUME Types, YearsInv, TraceInv, NEW r \in Row, ReadRow(r)
  PROVE  TraceInv'
<1> USE Effects
<1> SUFFICES ASSUME NEW y \in DOMAIN metrics', NEW l \in MetricLabel, metrics'[y][l] # NULL
             PROVE  \E i \in DOMAIN sheet', c \in 1..Width :
                      Came(<<l, y>>, c, i)' /\ metrics'[y][l] = ToFloat(sheet'[i].cells[c])
  BY DEF TraceInv
<1>1. Grows(r) /\ provenance \subseteq provenance'
  OBVIOUS
<1>2. ASSUME y \in DOMAIN metrics, metrics'[y][l] = metrics[y][l]
      PROVE  \E i \in DOMAIN sheet', c \in 1..Width :
               Came(<<l, y>>, c, i)' /\ metrics'[y][l] = ToFloat(sheet'[i].cells[c])
  <2>1. PICK i \in DOMAIN sheet, c \in 1..Width :
          Came(<<l, y>>, c, i) /\ metrics[y][l] = ToFloat(sheet[i].cells[c])
    BY <1>2 DEF TraceInv
  <2>2. i \in DOMAIN sheet' /\ sheet'[i] = sheet[i] /\ Came(<<l, y>>, c, i)'
    BY <1>1, <2>1, Rows1 DEF Came
  <2> QED BY <1>2, <2>1, <2>2
<1>3. CASE ~MetricRow(r)
  BY <1>2, <1>3
<1>4. CASE MetricRow(r)
  <2>1. MetricsOf(y)'[l] = metrics'[y][l]
    BY DEF MetricsOf
  <2>2. CASE Given(r, y) /\ l = r.label
    <3>1. metrics'[y][l] = ToFloat(r.cells[LastCell(y)])
      BY <1>4, <2>1, <2>2, SeriesStep
    <3>2. LastCell(y) \in DOMAIN years /\ years[LastCell(y)] = y /\ LastCell(y) \in 1..Width
      BY <2>2, LastCellType, YearsType
    <3>3. [field |-> <<l, y>>, row |-> RowNumber, col |-> LastCell(y)] \in provenance'
      BY <1>4, <2>2, <3>2 DEF MetricRow, SeriesProvenance, Given
    <3>4. RowNumber \in DOMAIN sheet' /\ sheet'[RowNumber] = r
      BY <1>1, Rows1
    <3> QED BY <3>1, <3>2, <3>3, <3>4 DEF Came
  <2>3. CASE ~(Given(r, y) /\ l = r.label)
    <3>1. MetricsOf(y)[l] = metrics'[y][l]
      BY <1>4, <2>1, <2>3, SeriesStep
    <3>2. y \in DOMAIN metrics /\ metrics'[y][l] = metrics[y][l]
      BY <3>1 DEF MetricsOf, NoMetrics
    <3> QED BY <3>2, <1>2
  <2> QED BY <2>2, <2>3
<1> QED BY <1>3, <1>4

\* The c-th column of a metric row is read for the c-th year of its header.
LEMMA YearUnder ==
  ASSUME Types, YearsInv, NEW r, Grows(r), Rows(Header) # {},
         r.label \in MetricLabel, NEW c \in 1..Width, NEW i, i = RowNumber
  PROVE  YearOf(i, c)' = IF c \in DOMAIN years THEN years[c] ELSE NULL
<1>1. PICK h : h = Max(Rows(Header)) /\ LastOf(Rows(Header), h)
  BY HasLast DEF Rows
<1>2. h \in DOMAIN sheet /\ sheet'[h] = sheet[h] /\ sheet[h] \in Row
  BY <1>1, Rows1 DEF LastOf, Rows, Types
<1>3. HeaderOf(i)' = h
  <2>1. Rows(Header)' = Rows(Header)
    BY RowsWith, ExtractorAssumption
  <2>2. {g \in Rows(Header)' : g < i} = Rows(Header)
    BY <2>1, Rows1 DEF Rows
  <2> QED BY <2>2, <1>1 DEF HeaderOf
<1> DEFINE cells == sheet[h].cells
           T == TakenAs(cells, Whole, c)
<1>4. years = Kept(cells, Whole)
  BY <1>1, <1>2 DEF YearsInv, LastOf
<1>5. YearOf(i, c)' = IF T = {} THEN NULL ELSE cells[CHOOSE d \in T : TRUE]
  <2>1. sheet'[HeaderOf(i)'].cells = cells
    BY <1>2, <1>3
  <2> QED BY <2>1 DEF YearOf, TakenAs
<1>6. DOMAIN years = 1..Len(years)
  BY DEF Types
<1> HIDE DEF cells
<1>7. (c \in 1..Len(years) <=> T # {}) /\ \A d \in T : years[c] = cells[d]
  BY <1>4, KeptOfTaken
<1> HIDE DEF T
<1>8. T # {} => (CHOOSE d \in T : TRUE) \in T
  OBVIOUS
<1> QED BY <1>5, <1>6, <1>7, <1>8

\* The rows below the header that have a cell under year y.
LEMMA RowsUnderNext ==
  ASSUME Types, YearsInv, NEW r \in Row, ReadRow(r), NEW y \in Whole, NEW l \in MetricLabel
  PROVE  /\ RowsUnder(y, l)' = RowsUnder(y, l) \cup
               (IF ~InKeys /\ Given(r, y) /\ l = r.label THEN {RowNumber} ELSE {})
         /\ \A i \in RowsUnder(y, l) : CellUnder(y, i)' = CellUnder(y, i)
         /\ ~InKeys /\ Given(r, y) => \A i : i = RowNumber => CellUnder(y, i)' = r.cells[LastCell(y)]
<1>1. Grows(r) /\ phase # "done" /\ (InKeys <=> Rows(Header) = {})
  BY Effects DEF InKeys, YearsInv, Types
<1>2. RowsUnder(y, l) \subseteq MetricRows /\ MetricRows \subseteq DOMAIN sheet
  BY DEF RowsUnder, MetricRows
<1>3. \A i \in MetricRows : i \in MetricRows' /\ sheet'[i] = sheet[i] /\ \A c : YearOf(i, c)' = YearOf(i, c)
  BY <1>1, <1>2, SeriesNext, Rows1
<1>4. ASSUME NEW i \in RowsUnder(y, l) PROVE CellUnder(y, i)' = CellUnder(y, i)
  <2>1. {d \in 1..Width : YearOf(i, d)' = y} = {d \in 1..Width : YearOf(i, d) = y}
    BY <1>2, <1>3
  <2> QED BY <2>1, <1>2, <1>3 DEF CellUnder
<1>5. ASSUME ~InKeys, r.label \in MetricLabel, NEW i, i = RowNumber
      PROVE  /\ {d \in 1..Width : YearOf(i, d)' = y} = {d \in DOMAIN years : years[d] = y}
             /\ i \in MetricRows' /\ sheet'[i] = r
  <2>1. ASSUME NEW d \in 1..Width PROVE YearOf(i, d)' = y <=> d \in DOMAIN years /\ years[d] = y
    <3>1. YearOf(i, d)' = IF d \in DOMAIN years THEN years[d] ELSE NULL
      BY <1>1, <1>5, YearUnder
    <3> QED BY <3>1, ExtractorAssumption
  <2>2. i \in MetricRows' /\ sheet'[i] = r
    BY <1>1, <1>5, SeriesNext, Rows1
  <2> QED BY <2>1, <2>2, YearsType
<1>6. ASSUME NEW i, i = RowNumber
      PROVE  i \in RowsUnder(y, l)' <=> ~InKeys /\ Given(r, y) /\ l = r.label
  <2>1. CASE ~InKeys /\ r.label \in MetricLabel
    <3>1. i \in MetricRows' /\ sheet'[i] = r
      BY <1>5, <1>6, <2>1
    <3>2. (\E d \in 1..Width : YearOf(i, d)' = y) <=> \E d \in DOMAIN years : years[d] = y
      BY <1>5, <1>6, <2>1, YearsType
    <3>3. i \in RowsUnder(y, l)' <=> i \in MetricRows' /\ sheet'[i].label = l /\ \E d \in 1..Width : YearOf(i, d)' = y
      BY DEF RowsUnder
    <3> QED BY <2>1, <3>1, <3>2, <3>3 DEF Given
  <2>2. CASE ~(~InKeys /\ r.label \in MetricLabel)
    <3>1. i \notin MetricRows'
      BY <1>1, <1>2, <1>6, <2>2, SeriesNext, Rows1
    <3> QED BY <2>2, <3>1 DEF RowsUnder, Given
  <2> QED BY <2>1, <2>2
<1>7. \A i \in DOMAIN sheet : i \in RowsUnder(y, l)' <=> i \in RowsUnder(y, l)
  <2> SUFFICES ASSUME NEW i \in DOMAIN sheet PROVE i \in RowsUnder(y, l)' <=> i \in RowsUnder(y, l)
    OBVIOUS
  <2>1. i \in MetricRows' <=> i \in MetricRows
    BY <1>1, SeriesNext, Rows1
  <2>2. i \in RowsUnder(y, l)' <=> i \in MetricRows' /\ sheet'[i].label = l /\ \E d \in 1..Width : YearOf(i, d)' = y
    BY DEF RowsUnder
  <2> QED BY <2>1, <2>2, <1>3 DEF RowsUnder
<1>8. RowsUnder(y, l)' \subseteq DOMAIN sheet \cup {RowNumber}
  BY <1>1, Rows1 DEF RowsUnder, MetricRows
<1>9. RowsUnder(y, l)' = RowsUnder(y, l) \cup
               (IF ~InKeys /\ Given(r, y) /\ l = r.label THEN {RowNumber} ELSE {})
  BY <1>1, <1>2, <1>6, <1>7, <1>8, Rows1
<1>10. ASSUME ~InKeys, Given(r, y), NEW i, i = RowNumber PROVE CellUnder(y, i)' = r.cells[LastCell(y)]
  <2>1. r.label \in MetricLabel
    BY <1>10 DEF Given
  <2> QED BY <1>5, <1>10, <2>1 DEF CellUnder, LastCell
<1> QED BY <1>4, <1>9, <1>10

LEMMA LayoutNext ==
  ASSUME Types, YearsInv, LayoutInv, NEW r \in Row, ReadRow(r)
  PROVE  LayoutInv'
<1> SUFFICES ASSUME NEW y \in Whole, NEW l \in MetricLabel
             PROVE  /\ RowsUnder(y, l)' = {} => MetricsOf(y)'[l] = NULL
                    /\ \A i \in DOMAIN sheet' : LastOf(RowsUnder(y, l), i)' =>
                         MetricsOf(y)'[l] = ToFloat(CellUnder(y, i)')
  BY DEF LayoutInv, ToFloat
<1>1. Grows(r)
  BY Effects
<1>2. /\ RowsUnder(y, l)' = RowsUnder(y, l) \cup
             (IF ~InKeys /\ Given(r, y) /\ l = r.label THEN {RowNumber} ELSE {})
      /\ \A i \in RowsUnder(y, l) : CellUnder(y, i)' = CellUnder(y, i)
      /\ ~InKeys /\ Given(r, y) => \A i : i = RowNumber => CellUnder(y, i)' = r.cells[LastCell(y)]
  BY RowsUnderNext
<1>3. RowsUnder(y, l) \subseteq DOMAIN sheet
  BY DEF RowsUnder, MetricRows
<1>4. ASSUME NEW i PROVE LastOf(RowsUnder(y, l), i)' <=> LastOf(RowsUnder(y, l)', i)
  BY DEF LastOf
<1>5. CASE ~InKeys /\ Given(r, y) /\ l = r.label
  <2>1. MetricRow(r)
    BY <1>5, Effects DEF Given
  <2>2. MetricsOf(y)'[l] = ToFloat(r.cells[LastCell(y)])
    BY <1>5, <2>1, SeriesStep
  <2>3. ASSUME NEW i, LastOf(RowsUnder(y, l)', i) PROVE CellUnder(y, i)' = r.cells[LastCell(y)]
    <3>1. i = RowNumber
      BY <1>1, <1>2, <1>3, <1>5, <2>3, LastRowNext
    <3> QED BY <1>2, <1>5, <3>1
  <2> QED BY <1>2, <1>4, <1>5, <2>2, <2>3
<1>6. CASE ~(~InKeys /\ Given(r, y) /\ l = r.label)
  <2>1. MetricsOf(y)'[l] = MetricsOf(y)[l]
    <3>1. CASE MetricRow(r)
      BY <1>6, <3>1, SeriesStep DEF MetricRow, InKeys
    <3>2. CASE ~MetricRow(r)
      BY <3>2, Effects DEF MetricsOf
    <3> QED BY <3>1, <3>2
  <2>2. RowsUnder(y, l)' = RowsUnder(y, l)
    BY <1>2, <1>6
  <2>3. ASSUME NEW i \in DOMAIN sheet', LastOf(RowsUnder(y, l), i)'
        PROVE  MetricsOf(y)[l] = ToFloat(CellUnder(y, i)')
    <3>1. LastOf(RowsUnder(y, l), i) /\ i \in DOMAIN sheet /\ CellUnder(y, i)' = CellUnder(y, i)
      BY <1>2, <1>3, <1>4, <2>2, <2>3 DEF LastOf
    <3> QED BY <1>1, <3>1 DEF LayoutInv
  <2> QED BY <1>1, <2>1, <2>2, <2>3 DEF LayoutInv
<1> QED BY <1>5, <1>6

\* The issues of a row, besides that of its label.
LEMMA IssuesStep ==
  ASSUME Types, YearsInv, NEW r \in Row, ReadRow(r)
  PROVE  /\ unknown' = unknown \cup ({r.label} \ (Known \cup {NULL}))
         /\ {q \in issues' : q.type = "schema_drift"} =
              {q \in issues : q.type = "schema_drift"} \cup
              (IF r.label \in Known \cup unknown \cup {NULL} THEN {} ELSE {DriftAt(RowNumber)})
         /\ {q \in issues' : q.type = "invalid_type"} =
              {q \in issues : q.type = "invalid_type"} \cup
              {[type |-> "invalid_type", row |-> RowNumber, col |-> c] :
                 c \in IF ~InKeys /\ r.label \in MetricLabel THEN Unreadable(r) ELSE {}}
<1> DEFINE At(c) == [type |-> "invalid_type", row |-> RowNumber, col |-> c]
           Lost == IF ~InKeys /\ r.label \in MetricLabel THEN Unreadable(r) ELSE {}
<1>1. CASE r.label = NULL
  <2>1. SkipRow(r)
    BY <1>1, ExtractorAssumption
       DEF ReadRow, HeaderRow, MetricRow, KeyRow, ListRow, OtherRow, Lists, Header
  <2>2. r.label \notin MetricLabel
    BY <1>1, ExtractorAssumption
  <2> QED BY <1>1, <2>1, <2>2 DEF SkipRow
<1>2. CASE r.label # NULL
  <2>1. Report(r, {At(c) : c \in Lost})
    <3>1. Unreadable(r) \subseteq DOMAIN years
      BY DEF Unreadable
    <3>2. r.label \in MetricLabel => r.label # Header
      BY ExtractorAssumption
    <3>3. CASE ~InKeys /\ r.label \in MetricLabel
      <4>1. MetricRow(r)
        BY <3>3, Effects
      <4>2. DOMAIN years \cap Unreadable(r) = Lost
        BY <3>1, <3>3
      <4> QED BY <3>3, <4>1, <4>2 DEF MetricRow
    <3>4. CASE ~(~InKeys /\ r.label \in MetricLabel)
      <4>1. Lost = {}
        BY <3>4
      <4>2. CASE MetricRow(r)
        <5>1. r.label \notin MetricLabel
          BY <3>4, <4>2 DEF MetricRow, InKeys
        <5> QED BY <4>1, <4>2, <5>1 DEF MetricRow
      <4> QED BY <4>1, <4>2, <1>2 DEF ReadRow, SkipRow, HeaderRow, KeyRow, ListRow, OtherRow
    <3> QED BY <3>3, <3>4
  <2> DEFINE drift == IF r.label \in Known \cup unknown THEN {} ELSE {DriftAt(RowNumber)}
             lost == {At(c) : c \in Lost}
  <2>2. unknown' = unknown \cup ({r.label} \ Known) /\ issues' = issues \cup drift \cup lost
    BY <2>1 DEF Report, DriftAt
  <2>3. (\A q \in drift : q.type = "schema_drift") /\ (\A q \in lost : q.type = "invalid_type")
    BY DEF DriftAt
  <2>4. drift = IF r.label \in Known \cup unknown \cup {NULL} THEN {} ELSE {DriftAt(RowNumber)}
    BY <1>2
  <2> HIDE DEF drift, lost, At, Lost
  <2>5. /\ {q \in issues' : q.type = "schema_drift"} = {q \in issues : q.type = "schema_drift"} \cup drift
        /\ {q \in issues' : q.type = "invalid_type"} = {q \in issues : q.type = "invalid_type"} \cup lost
    BY <2>2, <2>3
  <2> QED BY <1>2, <2>2, <2>4, <2>5 DEF lost, At, Lost
<1> QED BY <1>1, <1>2

LEMMA LossNext ==
  ASSUME Types, YearsInv, SeriesLossIsReported, NEW r \in Row, ReadRow(r)
  PROVE  SeriesLossIsReported'
<1> DEFINE Lost == IF ~InKeys /\ r.label \in MetricLabel THEN Unreadable(r) ELSE {}
           At(c) == [type |-> "invalid_type", row |-> RowNumber, col |-> c]
           Drops(i, c) == i \in MetricRows /\ c \in 1..Width /\ Dropped(i, c)
<1> SUFFICES DroppedCells' = {<<p.row, p.col>> : p \in {q \in issues' : q.type = "invalid_type"}}
  BY DEF SeriesLossIsReported
<1>1. /\ Grows(r) /\ (InKeys <=> Rows(Header) = {})
      /\ MetricRows' = MetricRows \cup (IF ~InKeys /\ r.label \in MetricLabel THEN {RowNumber} ELSE {})
  BY Effects, SeriesNext DEF InKeys, YearsInv, Types
<1>2. ASSUME NEW i \in MetricRows, NEW c PROVE Dropped(i, c)' <=> Dropped(i, c)
  <2>1. sheet'[i] = sheet[i] /\ YearOf(i, c)' = YearOf(i, c)
    BY <1>1, SeriesNext, Rows1
  <2> QED BY <2>1 DEF Dropped, ToFloat
<1>3. ASSUME ~InKeys, r.label \in MetricLabel, NEW i, i = RowNumber, NEW c \in 1..Width
      PROVE  Dropped(i, c)' <=> c \in Unreadable(r)
  <2>1. YearOf(i, c)' = IF c \in DOMAIN years THEN years[c] ELSE NULL
    BY <1>1, <1>3, YearUnder
  <2>2. YearOf(i, c)' # NULL <=> c \in DOMAIN years
    BY <2>1, YearsType, ExtractorAssumption
  <2>3. sheet'[i] = r
    BY <1>1, <1>3, Rows1
  <2> QED BY <2>2, <2>3 DEF Dropped, Unreadable, ToFloat
<1>4. Lost \subseteq 1..Width
  BY YearsType DEF Unreadable
<1>5. ASSUME NEW i, NEW c
      PROVE  (i \in MetricRows' /\ c \in 1..Width /\ Dropped(i, c)') <=>
               Drops(i, c) \/ (i = RowNumber /\ c \in Lost)
  <2>1. RowNumber \notin MetricRows
    BY <1>1, Rows1 DEF MetricRows
  <2>2. CASE i = RowNumber
    BY <2>1, <2>2, <1>1, <1>3, <1>4
  <2>3. CASE i # RowNumber
    BY <2>3, <1>1, <1>2
  <2> QED BY <2>2, <2>3
<1>6. DroppedCells = {p \in MetricRows \X (1..Width) : Drops(p[1], p[2])}
  BY DEF DroppedCells
<1>7. DroppedCells' = {p \in MetricRows' \X (1..Width) :
                         p[1] \in MetricRows' /\ p[2] \in 1..Width /\ Dropped(p[1], p[2])'}
  BY DEF DroppedCells
<1> HIDE DEF Lost, Drops
<1>8. DroppedCells' = DroppedCells \cup {<<RowNumber, c>> : c \in Lost}
  <2>1. ASSUME NEW i, NEW c PROVE <<i, c>> \in DroppedCells <=> Drops(i, c)
    BY <1>6 DEF Drops
  <2>2. ASSUME NEW i, NEW c PROVE <<i, c>> \in DroppedCells' <=> Drops(i, c) \/ (i = RowNumber /\ c \in Lost)
    BY <1>5, <1>7
  <2>3. \A p \in DroppedCells \cup DroppedCells' : \E i, c : p = <<i, c>>
    BY <1>6, <1>7
  <2>4. ASSUME NEW p \in DroppedCells' PROVE p \in DroppedCells \cup {<<RowNumber, c>> : c \in Lost}
    BY <2>1, <2>2, <2>3
  <2>5. ASSUME NEW p \in DroppedCells PROVE p \in DroppedCells'
    BY <2>1, <2>2, <2>3
  <2>6. ASSUME NEW c \in Lost PROVE <<RowNumber, c>> \in DroppedCells'
    BY <2>2
  <2> QED BY <2>4, <2>5, <2>6
<1>9. {q \in issues' : q.type = "invalid_type"} = {q \in issues : q.type = "invalid_type"} \cup {At(c) : c \in Lost}
  BY IssuesStep DEF Lost
<1>10. DroppedCells = {<<p.row, p.col>> : p \in {q \in issues : q.type = "invalid_type"}}
  BY <1>1 DEF SeriesLossIsReported
<1>11. {<<p.row, p.col>> : p \in {At(c) : c \in Lost}} = {<<RowNumber, c>> : c \in Lost}
  <2>1. \A c : At(c).row = RowNumber /\ At(c).col = c
    OBVIOUS
  <2> HIDE DEF At
  <2> QED BY <2>1
<1> HIDE DEF At
<1> QED BY <1>8, <1>9, <1>10, <1>11

LEMMA DriftNext ==
  ASSUME Types, YearsInv, DriftInv, NEW r \in Row, ReadRow(r)
  PROVE  DriftInv'
<1> DEFINE n == RowNumber
<1>1. Grows(r)
  BY Effects
<1>2. /\ DOMAIN sheet' = DOMAIN sheet \cup {n} /\ n \notin DOMAIN sheet /\ n \in Nat
      /\ \A i \in DOMAIN sheet : sheet'[i] = sheet[i] /\ i \in Nat /\ i < n
      /\ sheet'[n] = r
  BY <1>1, Rows1
<1>3. /\ unknown' = unknown \cup ({r.label} \ (Known \cup {NULL}))
      /\ {q \in issues' : q.type = "schema_drift"} =
              {q \in issues : q.type = "schema_drift"} \cup
              (IF r.label \in Known \cup unknown \cup {NULL} THEN {} ELSE {DriftAt(n)})
  BY IssuesStep
<1> HIDE DEF n
<1>4. unknown' = {sheet'[i].label : i \in DOMAIN sheet'} \ (Known \cup {NULL})
  BY <1>2, <1>3 DEF DriftInv
<1>5. ASSUME NEW l, NEW i
      PROVE  FirstOf(Rows(l), i)' <=> FirstOf(Rows(l), i) \/ (i = n /\ r.label = l /\ Rows(l) = {})
  <2>1. Rows(l)' = Rows(l) \cup (IF r.label = l THEN {n} ELSE {}) /\ Rows(l) \subseteq DOMAIN sheet
    BY <1>1, RowsWith DEF n
  <2>2. FirstOf(Rows(l), i)' <=> FirstOf(Rows(l)', i)
    BY DEF FirstOf
  <2> QED BY <2>1, <2>2, <1>2 DEF FirstOf
<1>6. \A l : Rows(l) = {} <=> l \notin {sheet[i].label : i \in DOMAIN sheet}
  BY DEF Rows
<1>7. ASSUME NEW p \in issues', p.type = "schema_drift"
      PROVE  \E l \in unknown' : \E i \in DOMAIN sheet' : FirstOf(Rows(l), i)' /\ p = DriftAt(i)
  <2>1. CASE p \in issues
    BY <2>1, <1>2, <1>3, <1>5, <1>7 DEF DriftInv
  <2>2. CASE p \notin issues
    <3>1. r.label \notin Known \cup unknown \cup {NULL} /\ p = DriftAt(n)
      BY <2>2, <1>3, <1>7
    <3>2. r.label \in unknown' /\ Rows(r.label) = {}
      BY <3>1, <1>3, <1>6 DEF DriftInv
    <3>3. PICK l, i : l = r.label /\ i = n
      OBVIOUS
    <3>4. FirstOf(Rows(l), i)'
      BY <3>2, <3>3, <1>5
    <3> QED BY <3>1, <3>2, <3>3, <3>4, <1>2
  <2> QED BY <2>1, <2>2
<1>8. ASSUME NEW l \in unknown', NEW i \in DOMAIN sheet', FirstOf(Rows(l), i)' PROVE DriftAt(i) \in issues'
  <2>1. DriftAt(i).type = "schema_drift"
    BY DEF DriftAt
  <2>2. CASE FirstOf(Rows(l), i)
    <3>1. l \in unknown /\ i \in DOMAIN sheet
      BY <2>2, <1>3, <1>6, <1>8 DEF DriftInv, FirstOf, Rows
    <3>2. DriftAt(i) \in issues
      BY <3>1, <2>2 DEF DriftInv
    <3> QED BY <3>2, <2>1, <1>3
  <2>3. CASE i = n /\ r.label = l /\ Rows(l) = {}
    <3>1. l \notin unknown
      BY <2>3, <1>6 DEF DriftInv
    <3>2. l \notin Known \cup {NULL}
      BY <1>3, <1>8, <3>1
    <3> QED BY <3>1, <3>2, <2>3, <1>3
  <2> QED BY <2>2, <2>3, <1>5, <1>8
<1>9. ASSUME NEW i PROVE DriftAt(i)' = DriftAt(i)
  BY DEF DriftAt
<1> QED BY <1>4, <1>7, <1>8, <1>9 DEF DriftInv

LEMMA RowNext ==
  ASSUME IInv, NEW r \in Row, ReadRow(r)
  PROVE  IInv'
<1>1. SegmentsInv'
  BY Effects DEF IInv, SegmentsInv
<1> QED BY <1>1, TypesNext, YearsNext, FieldsNext, ListsNext, TraceNext, LayoutNext, LossNext, DriftNext DEF IInv

\* Where nothing is read, all but the segments stays true.
LEMMA SameSheet ==
  ASSUME IInv, UNCHANGED <<sheet, years, fields, lists, metrics, unknown, issues, provenance>>,
         phase' \in {phase, "done"}
  PROVE  /\ Types' /\ YearsInv' /\ FieldsInv' /\ ListsInv' /\ TraceInv'
         /\ LayoutInv' /\ SeriesLossIsReported' /\ DriftInv'
<1>1. Types' /\ YearsInv'
  BY DEF IInv, Types, YearsInv, LastOf, Rows
<1>2. FieldsInv' /\ ListsInv'
  BY DEF IInv, FieldsInv, ListsInv, LastOf, KeyRowsOf, KeyRows, Rows, Came
<1>3. TraceInv'
  <2>1. \A f, c, i : Came(f, c, i)' <=> Came(f, c, i)
    BY DEF Came
  <2> QED BY <2>1 DEF IInv, TraceInv, ToFloat
<1>4. DriftInv'
  <2>1. \A l : Rows(l)' = Rows(l)
    BY DEF Rows
  <2>2. \A l, i : FirstOf(Rows(l), i)' <=> FirstOf(Rows(l), i)
    BY <2>1 DEF FirstOf
  <2>3. \A i : DriftAt(i)' = DriftAt(i)
    BY DEF DriftAt
  <2> QED BY <2>2, <2>3 DEF IInv, DriftInv
<1>5. \A l : Rows(l)' = Rows(l)
  BY DEF Rows
<1>6. MetricRows' = MetricRows
  BY <1>5 DEF MetricRows, KeyRows
<1>7. \A i, c : YearOf(i, c)' = YearOf(i, c)
  <2>1. \A i : HeaderOf(i)' = HeaderOf(i)
    BY <1>5 DEF HeaderOf
  <2>2. ASSUME NEW i, NEW c PROVE YearOf(i, c)' = YearOf(i, c)
    <3>1. sheet'[HeaderOf(i)'].cells = sheet[HeaderOf(i)].cells
      BY <2>1
    <3> QED BY <3>1 DEF YearOf, TakenAs
  <2> QED BY <2>2
<1>9. SeriesLossIsReported'
  <2>1. \A i, c : Dropped(i, c)' <=> Dropped(i, c)
    BY <1>7 DEF Dropped
  <2>2. DroppedCells' = DroppedCells
    BY <1>6, <2>1 DEF DroppedCells
  <2> QED BY <2>2 DEF IInv, SeriesLossIsReported
<1>10. LayoutInv'
  <2>1. ASSUME NEW y, NEW l PROVE RowsUnder(y, l)' = RowsUnder(y, l)
    BY <1>6, <1>7 DEF RowsUnder
  <2>2. ASSUME NEW y, NEW l, NEW i PROVE LastOf(RowsUnder(y, l), i)' <=> LastOf(RowsUnder(y, l), i)
    BY <2>1 DEF LastOf
  <2>3. ASSUME NEW y, NEW i PROVE CellUnder(y, i)' = CellUnder(y, i)
    BY <1>7 DEF CellUnder
  <2>4. ASSUME NEW y PROVE MetricsOf(y)' = MetricsOf(y)
    BY DEF MetricsOf
  <2> QED BY <2>1, <2>2, <2>3, <2>4 DEF IInv, LayoutInv, ToFloat
<1> QED BY <1>1, <1>2, <1>3, <1>4, <1>9, <1>10

LEMMA AssembleNext ==
  ASSUME IInv, Assemble
  PROVE  IInv'
<1>1. SegmentsInv'
  BY DEF SegmentsInv, Assemble, Segment
<1> QED BY <1>1, SameSheet DEF IInv, Assemble

LEMMA StutterNext ==
  ASSUME IInv, UNCHANGED vars
  PROVE  IInv'
<1>1. UNCHANGED <<sheet, phase, years, fields, lists, metrics, segments, unknown, issues, provenance>>
  BY DEF vars, data
<1>2. SegmentsInv'
  BY <1>1 DEF IInv, SegmentsInv, Segment
<1> QED BY <1>1, <1>2, SameSheet DEF IInv

LEMMA InitInv == Init => IInv
<1> SUFFICES ASSUME Init PROVE IInv
  OBVIOUS
<1>1. sheet = <<>> /\ DOMAIN sheet = {}
  BY DEF Init
<1>2. Types /\ YearsInv
  BY <1>1, WidthType DEF Init, Types, YearsInv, LastOf, Rows, Cell
<1>3. FieldsInv /\ ListsInv
  BY <1>1 DEF Init, FieldsInv, ListsInv
<1>4. TraceInv /\ DriftInv
  BY <1>1 DEF Init, TraceInv, DriftInv
<1>5. LayoutInv
  BY <1>1 DEF Init, LayoutInv, MetricsOf, NoMetrics
<1>6. SeriesLossIsReported
  <2>1. MetricRows = {}
    BY <1>1 DEF MetricRows
  <2> QED BY <2>1 DEF Init, SeriesLossIsReported, DroppedCells
<1>7. SegmentsInv
  BY DEF Init, SegmentsInv
<1> QED BY <1>2, <1>3, <1>4, <1>5, <1>6, <1>7 DEF IInv

\* The invariant holds of every sheet that has been read in part or whole.
THEOREM Inductive == Spec => []IInv
<1>1. IInv /\ [Next]_vars => IInv'
  <2> SUFFICES ASSUME IInv, [Next]_vars PROVE IInv'
    OBVIOUS
  <2>1. CASE Assemble
    BY <2>1, AssembleNext
  <2>2. ASSUME NEW r \in Row, ReadRow(r) PROVE IInv'
    BY <2>2, RowNext
  <2>3. CASE UNCHANGED vars
    BY <2>3, StutterNext
  <2> QED BY <2>1, <2>2, <2>3 DEF Next
<1> QED BY <1>1, InitInv, PTL DEF Spec

-----------------------------------------------------------------------------
(* The properties *)

LEMMA FieldsAreRead == IInv => FieldsAreReadAboveTheHeader
<1> SUFFICES ASSUME IInv, NEW l \in KeyLabel, KeyRowsOf(l) # {}
             PROVE  fields[l] = LastRow(l)[1]
  BY DEF FieldsAreReadAboveTheHeader, IInv, FieldsInv
<1>1. KeyRowsOf(l) \subseteq DOMAIN sheet
  BY DEF KeyRowsOf, Rows
<1>2. LastOf(KeyRowsOf(l), Max(KeyRowsOf(l)))
  BY <1>1, HasLast DEF IInv
<1> QED BY <1>1, <1>2 DEF IInv, FieldsInv, LastOf, LastRow

LEMMA SeriesAreRead == IInv => SeriesFollowTheHeader
<1> SUFFICES ASSUME IInv, NEW y \in Whole, NEW l \in MetricLabel
             PROVE  MetricsOf(y)[l] = Layout(y, l)
  BY DEF SeriesFollowTheHeader
<1>1. Layout(y, l) = IF RowsUnder(y, l) = {} THEN NULL ELSE ToFloat(CellUnder(y, Max(RowsUnder(y, l))))
  BY DEF Layout, RowsUnder, CellUnder
<1>2. RowsUnder(y, l) \subseteq DOMAIN sheet
  BY DEF RowsUnder, MetricRows
<1>3. RowsUnder(y, l) # {} => LastOf(RowsUnder(y, l), Max(RowsUnder(y, l)))
  BY <1>2, HasLast DEF IInv
<1> QED BY <1>1, <1>2, <1>3 DEF IInv, LayoutInv, LastOf

\* A list has its values where its last row has them.
LEMMA ListColumns ==
  ASSUME IInv, NEW l \in Lists
  PROVE  /\ lists[l] \in Seq(Taken(l)) /\ Len(lists[l]) <= Width
         /\ \A i \in 1..Width :
              /\ i \in 1..Len(lists[l]) <=> ColumnOf(l, i) # {}
              /\ \A d \in ColumnOf(l, i) : lists[l][i] = LastRow(l)[d]
         /\ KeyRowsOf(l) # {} =>
              \E m \in DOMAIN sheet : /\ m = Max(KeyRowsOf(l)) /\ LastOf(KeyRowsOf(l), m)
                                      /\ sheet[m].label = l /\ lists[l] = Values(sheet[m])
<1>1. KeyRowsOf(l) \subseteq DOMAIN sheet
  BY DEF KeyRowsOf, Rows
<1>2. CASE KeyRowsOf(l) = {}
  <2>1. lists[l] = <<>> /\ Len(lists[l]) = 0
    BY <1>2 DEF IInv, ListsInv
  <2>2. \A i : ColumnOf(l, i) = {}
    BY <1>2 DEF ColumnOf
  <2> QED BY <1>2, <2>1, <2>2, WidthType
<1>3. CASE KeyRowsOf(l) # {}
  <2> DEFINE m == Max(KeyRowsOf(l))
  <2>1. LastOf(KeyRowsOf(l), m) /\ m \in DOMAIN sheet /\ m \in KeyRows \cap Rows(l)
    BY <1>1, <1>3, HasLast DEF IInv, LastOf, KeyRowsOf
  <2>2. LastRow(l) = sheet[m].cells
    BY DEF LastRow
  <2> HIDE DEF m
  <2>3. lists[l] = Values(sheet[m]) /\ sheet[m].label = l
    BY <2>1 DEF IInv, ListsInv, Rows
  <2>4. Values(sheet[m]) = Kept(sheet[m].cells, Taken(l))
    BY <2>3 DEF Values, Filled, Taken
  <2> DEFINE K == Kept(sheet[m].cells, Taken(l))
             T(i) == TakenAs(sheet[m].cells, Taken(l), i)
  <2>5. K \in Seq(Taken(l)) /\ Len(K) <= Width
    BY KeptType
  <2>6. \A i \in 1..Width : /\ i \in 1..Len(K) <=> T(i) # {}
                            /\ \A d \in T(i) : K[i] = sheet[m].cells[d]
    BY KeptOfTaken
  <2>7. \A i : ColumnOf(l, i) = T(i)
    BY <1>3, <2>2 DEF ColumnOf
  <2>8. lists[l] = K
    BY <2>3, <2>4
  <2> HIDE DEF K, T
  <2>9. \A i \in 1..Width : /\ i \in 1..Len(lists[l]) <=> ColumnOf(l, i) # {}
                            /\ \A d \in ColumnOf(l, i) : lists[l][i] = LastRow(l)[d]
    BY <2>2, <2>6, <2>7, <2>8
  <2>10. m = Max(KeyRowsOf(l))
    BY DEF m
  <2> QED BY <2>1, <2>3, <2>5, <2>8, <2>9, <2>10
<1> QED BY <1>2, <1>3

LEMMA SegmentsArePaired == IInv => SegmentsPairTheKeptCells
<1> DEFINE Risk == "Industry risk"
           Score == "Industry risk score"
           Weight == "Industry weight"
           Lens == {Len(lists[l]) : l \in SegmentLists}
<1> SUFFICES ASSUME IInv PROVE SegmentsPairTheKeptCells
  OBVIOUS
<1>1. phase # "done" => DOMAIN segments = {}
  BY DEF IInv, SegmentsInv
<1>2. phase = "done" => segments = [j \in 1..Shortest({lists[l] : l \in SegmentLists}) |-> Segment(j)]
  BY DEF IInv, SegmentsInv, SegmentLists
<1>3. Shortest({lists[l] : l \in SegmentLists}) = Min(Lens)
  <2>1. {Len(s) : s \in {lists[l] : l \in SegmentLists}} = Lens
    OBVIOUS
  <2> QED BY <2>1 DEF Shortest
<1>4. SegmentLists = {Risk, Score, Weight}
  BY DEF Lists, SegmentLists
<1>5. ASSUME NEW l \in SegmentLists
      PROVE  /\ Len(lists[l]) \in Nat /\ Len(lists[l]) <= Width
             /\ \A i \in 1..Width : /\ i \in 1..Len(lists[l]) <=> ColumnOf(l, i) # {}
                                   /\ \A d \in ColumnOf(l, i) : lists[l][i] = LastRow(l)[d]
  <2>1. l \in Lists
    BY DEF SegmentLists
  <2>2. lists[l] \in Seq(Taken(l))
    BY <2>1, ListColumns
  <2>3. Len(lists[l]) \in Nat
    BY <2>2
  <2> QED BY <2>1, <2>3, ListColumns
<1>6. Lens \subseteq Nat /\ Lens # {}
  BY <1>4, <1>5
<1>7. PICK n \in Lens : \A x \in Lens : n <= x
  <2> HIDE DEF Lens
  <2> QED BY <1>6, Least
<1>8. Min(Lens) = n /\ n \in Nat
  <2> HIDE DEF Lens
  <2>1. Lens \subseteq Int
    BY <1>6
  <2> QED BY <1>6, <1>7, <2>1, MinIs
<1>9. n <= Width /\ \A i \in 1..Width : i \in 1..n <=> \A l \in SegmentLists : i \in 1..Len(lists[l])
  <2>1. PICK k \in SegmentLists : n = Len(lists[k])
    BY <1>7
  <2>2. \A l \in SegmentLists : n <= Len(lists[l]) /\ Len(lists[l]) \in Nat
    BY <1>5, <1>7
  <2>3. n <= Width
    BY <1>5, <2>1
  <2> QED BY <1>8, <2>1, <2>2, <2>3
<1>10. 1..n = {i \in 1..Width : \A l \in SegmentLists : ColumnOf(l, i) # {}}
  <2>1. \A i \in 1..n : i \in 1..Width
    BY <1>8, <1>9, WidthType
  <2>2. \A i \in 1..Width : i \in 1..n <=> \A l \in SegmentLists : ColumnOf(l, i) # {}
    BY <1>5, <1>9
  <2> QED BY <2>1, <2>2
<1>11. phase = "done" => DOMAIN segments = 1..n
  BY <1>2, <1>3, <1>8
<1> HIDE DEF Lens
<1>12. phase = "done" => DOMAIN segments = {i \in 1..Width : \A l \in SegmentLists : ColumnOf(l, i) # {}}
  BY <1>10, <1>11
<1>13. ASSUME NEW i \in DOMAIN segments
       PROVE  \E c \in ColumnOf(Risk, i), d \in ColumnOf(Score, i), e \in ColumnOf(Weight, i) :
                segments[i] = [risk |-> LastRow(Risk)[c], score |-> LastRow(Score)[d],
                               weight |-> LastRow(Weight)[e]]
  <2>1. segments[i] = Segment(i) /\ i \in 1..n
    BY <1>1, <1>2, <1>11
  <2>2. \A l \in SegmentLists : ColumnOf(l, i) # {} /\ \A d \in ColumnOf(l, i) : lists[l][i] = LastRow(l)[d]
    BY <1>5, <1>10, <2>1
  <2>3. PICK c \in ColumnOf(Risk, i), d \in ColumnOf(Score, i), e \in ColumnOf(Weight, i) : TRUE
    BY <1>4, <2>2
  <2>4. /\ lists[Risk][i] = LastRow(Risk)[c] /\ lists[Score][i] = LastRow(Score)[d]
        /\ lists[Weight][i] = LastRow(Weight)[e]
    BY <1>4, <2>2, <2>3
  <2> QED BY <2>1, <2>3, <2>4 DEF Segment
<1> QED BY <1>12, <1>13 DEF SegmentsPairTheKeptCells

LEMMA ValuesTrace == IInv => ValuesTraceToCells
<1> SUFFICES ASSUME IInv PROVE ValuesTraceToCells
  OBVIOUS
<1>1. ASSUME NEW f, NEW at, NEW c, NEW i, Came(<<f, at>>, c, i) PROVE sheet[i].cells[c] \in Sources(f, at)
  <2>1. [field |-> <<f, at>>, row |-> i, col |-> c] \in {q \in provenance : q.field = <<f, at>>}
    BY <1>1 DEF Came
  <2> QED BY <2>1 DEF Sources
<1>2. ASSUME NEW l \in KeyLabel, fields[l] # NULL PROVE fields[l] \in Sources(l, NULL)
  <2>1. KeyRowsOf(l) # {} /\ KeyRowsOf(l) \subseteq DOMAIN sheet
    BY <1>2 DEF IInv, FieldsInv, KeyRowsOf, Rows
  <2>2. PICK i \in DOMAIN sheet : LastOf(KeyRowsOf(l), i)
    BY <2>1, HasLast DEF IInv, LastOf
  <2>3. fields[l] = sheet[i].cells[1] /\ Came(<<l, NULL>>, 1, i)
    BY <2>2 DEF IInv, FieldsInv
  <2> QED BY <2>3, <1>1
<1>3. ASSUME NEW y \in DOMAIN metrics, NEW l \in MetricLabel, metrics[y][l] # NULL
      PROVE  metrics[y][l] \in {ToFloat(v) : v \in Sources(l, y)}
  <2>1. PICK i \in DOMAIN sheet, c \in 1..Width :
          Came(<<l, y>>, c, i) /\ metrics[y][l] = ToFloat(sheet[i].cells[c])
    BY <1>3 DEF IInv, TraceInv
  <2> QED BY <2>1, <1>1
<1>4. ASSUME NEW l \in Traced, NEW i \in DOMAIN lists[l]
      PROVE  /\ \E d \in ColumnOf(l, i) : lists[l][i] = LastRow(l)[d]
             /\ [field |-> <<l, i>>, row |-> Max(KeyRowsOf(l)), col |-> i] \in provenance
  <2>1. l \in Lists /\ l # "Industry weight"
    BY DEF Traced, Lists
  <2>2. i \in 1..Len(lists[l]) /\ i \in 1..Width
    <3>1. lists[l] \in Seq(Taken(l)) /\ Len(lists[l]) <= Width
      BY <2>1, ListColumns
    <3> QED BY <1>4, <3>1, WidthType
  <2>3. ColumnOf(l, i) # {} /\ \A d \in ColumnOf(l, i) : lists[l][i] = LastRow(l)[d]
    BY <2>1, <2>2, ListColumns
  <2>4. PICK m \in DOMAIN sheet : /\ m = Max(KeyRowsOf(l)) /\ LastOf(KeyRowsOf(l), m)
                                  /\ sheet[m].label = l /\ lists[l] = Values(sheet[m])
    BY <2>1, <2>3, ListColumns DEF ColumnOf
  <2>5. lists[l] = Filled(sheet[m].cells)
    BY <2>1, <2>4 DEF Values
  <2>6. Came(<<l, i>>, i, m)
    BY <1>4, <2>1, <2>4, <2>5 DEF IInv, ListsInv
  <2> QED BY <2>3, <2>4, <2>6 DEF Came
<1> QED BY <1>2, <1>3, <1>4 DEF ValuesTraceToCells

\* Every drift is reported once, at the first row of its label.
LEMMA DriftsAreFirsts == IInv => DriftIsReportedOnce
<1> SUFFICES ASSUME IInv PROVE DriftIsReportedOnce
  OBVIOUS
<1>1. ASSUME NEW l \in unknown
      PROVE  \E i \in DOMAIN sheet : FirstOf(Rows(l), i) /\ Min(Rows(l)) = i
  <2>1. Rows(l) # {} /\ Rows(l) \subseteq Nat /\ Rows(l) \subseteq DOMAIN sheet /\ Rows(l) \subseteq Int
    BY DEF IInv, DriftInv, Rows, Types
  <2>2. PICK i \in Rows(l) : \A j \in Rows(l) : i <= j
    BY <2>1, Least
  <2>3. Min(Rows(l)) = i
    BY <2>1, <2>2, MinIs
  <2> QED BY <2>1, <2>2, <2>3 DEF FirstOf
<1>2. ASSUME NEW l, NEW i \in DOMAIN sheet, FirstOf(Rows(l), i) PROVE Min(Rows(l)) = i
  <2>1. Rows(l) \subseteq Int /\ i \in Rows(l) /\ \A j \in Rows(l) : i <= j
    BY <1>2 DEF IInv, Rows, Types, FirstOf
  <2> QED BY <2>1, MinIs
<1>3. ASSUME NEW p \in issues, p.type = "schema_drift" PROVE \E l \in unknown : p = DriftAt(Min(Rows(l)))
  BY <1>2, <1>3 DEF IInv, DriftInv
<1>4. ASSUME NEW l \in unknown PROVE DriftAt(Min(Rows(l))) \in issues /\ DriftAt(Min(Rows(l))).type = "schema_drift"
  BY <1>1 DEF IInv, DriftInv, DriftAt
<1>5. {p \in issues : p.type = "schema_drift"} = {DriftAt(Min(Rows(l))) : l \in unknown}
  BY <1>3, <1>4
<1>6. unknown = {sheet[i].label : i \in DOMAIN sheet} \ (Known \cup {NULL})
  BY DEF IInv, DriftInv
<1> QED BY <1>5, <1>6 DEF DriftIsReportedOnce, DriftAt

\* On every sheet, of any width and length, gaps included: the fields come from
\* above the header; the value of a year comes from its column moved left by
\* the gaps of the header, its own where there is none; and the i-th segment
\* pairs the i-th cells kept of the three lists.
THEOREM LayoutOfSheets == Spec => []LayoutIsRead
<1>1. IInv => LayoutIsRead
  BY FieldsAreRead, SeriesAreRead, SegmentsArePaired DEF LayoutIsRead
<1> QED BY <1>1, Inductive, PTL

\* The issues are exactly the cells read for a year that hold no number, and
\* the labels that no template has, each once; so whatever else is dropped, a
\* text among the weights for one, has none.
THEOREM Losses == Spec => []IssuesAreExact
<1>1. IInv => IssuesAreExact
  BY DriftsAreFirsts DEF IssuesAreExact, IInv
<1> QED BY <1>1, Inductive, PTL

\* Every field and every value of a series has a provenance record of a cell
\* that holds it; the record of the i-th methodology or risk names column i,
\* whichever column the value stands in.
THEOREM Lineage == Spec => []ValuesTraceToCells
<1> QED BY ValuesTrace, Inductive, PTL
=============================================================================
