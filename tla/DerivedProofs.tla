--------------------------- MODULE DerivedProofs ---------------------------
(***************************************************************************)
(* Proofs about what is computed from extracted workbooks: the signals     *)
(* that are filed with an upload and the marks of its snapshot, for any    *)
(* set of workbooks; the migrations of a rating, its anchors and           *)
(* adjustments; and the figures of a sector, for samples of any size.      *)
(***************************************************************************)
EXTENDS MCDerived, SetLemmas
-----------------------------------------------------------------------------
(* Issues *)

\* A sequence of issues of these types only.
OfTypes(s, T) == IsSequence(s) /\ \A e \in ToSet(s) : e.type \in T

LEMMA NoIssues == \A T : OfTypes(<<>>, T) /\ ToSet(<<>>) = {}
<1>1. ToSet(<<>>) = {}
  BY DEF ToSet
<1> QED BY <1>1 DEF OfTypes, IsSequence

LEMMA TypesTogether ==
  ASSUME NEW s, NEW t, NEW S, NEW T, OfTypes(s, S), OfTypes(t, T)
  PROVE  OfTypes(s \o t, S \cup T) /\ ToSet(s \o t) = ToSet(s) \cup ToSet(t)
<1>1. IsSequence(s \o t) /\ ToSet(s \o t) = ToSet(s) \cup ToSet(t)
  BY Concatenation DEF OfTypes
<1> QED BY <1>1 DEF OfTypes

\* What is listed for a finite set has an issue for each element.
LEMMA SetListed ==
  ASSUME NEW S, IsFiniteSet(S)
  PROVE  IsSequence(SetToSeq(S)) /\ ToSet(SetToSeq(S)) = S
BY SetAsSequence DEF IsSequence

LEMMA IssuesListed ==
  ASSUME NEW F, IsFiniteSet(F), NEW type, NEW severity
  PROVE  /\ OfTypes(Issues(F, type, severity), {type})
         /\ ToSet(Issues(F, type, severity)) = {Issue(f, type, severity) : f \in F}
<1> DEFINE S == {Issue(f, type, severity) : f \in F}
           g == [f \in F |-> Issue(f, type, severity)]
<1>1. g \in Surjection(F, S)
  BY DEF Surjection
<1>2. IsFiniteSet(S)
  BY <1>1, FS_Surjection
<1>3. IsSequence(SetToSeq(S)) /\ ToSet(SetToSeq(S)) = S
  BY <1>2, SetListed
<1>4. \A e \in S : e.type = type
  BY DEF Issue
<1> QED BY <1>3, <1>4 DEF Issues, OfTypes

\* The issue about a year.
YearIssue(y, type) == [field |-> "credit_metrics", year |-> y, type |-> type, severity |-> "warning"]

LEMMA YearsListed ==
  ASSUME NEW Y, IsFiniteSet(Y), NEW type
  PROVE  /\ OfTypes(YearIssues(Y, type), {type})
         /\ ToSet(YearIssues(Y, type)) = {YearIssue(y, type) : y \in Y}
<1> DEFINE S == {YearIssue(y, type) : y \in Y}
           g == [y \in Y |-> YearIssue(y, type)]
<1>1. g \in Surjection(Y, S)
  BY DEF Surjection
<1>2. IsFiniteSet(S)
  BY <1>1, FS_Surjection
<1>3. IsSequence(SetToSeq(S)) /\ ToSet(SetToSeq(S)) = S
  BY <1>2, SetListed
<1>4. \A e \in S : e.type = type
  BY DEF YearIssue
<1>5. YearIssues(Y, type) = SetToSeq(S)
  BY DEF YearIssues, YearIssue
<1> QED BY <1>3, <1>4, <1>5 DEF OfTypes

\* A sequence computed entry by entry.
LEMMA Entries ==
  ASSUME NEW n \in Nat, NEW s, DOMAIN s = 1..n, s = [i \in DOMAIN s |-> s[i]]
  PROVE  IsSequence(s) /\ Len(s) = n
<1>1. s \in [1..n -> ToSet(s)]
  BY DEF ToSet
<1> QED BY <1>1 DEF IsSequence

-----------------------------------------------------------------------------
(* What a load finds *)

\* The types of issue that are about the workbook alone and no year of it.
Plainly == {"extraction", "missing", "invalid_value", "out_of_range", "rule",
            "expect_not_null", "expect_in_set", "methodology_change"}

LEMMA Wider ==
  ASSUME NEW s, NEW T, OfTypes(s, T), T \subseteq Plainly
  PROVE  OfTypes(s, Plainly)
BY DEF OfTypes

LEMMA PlainlyTogether ==
  ASSUME NEW s, NEW t, OfTypes(s, Plainly), OfTypes(t, Plainly)
  PROVE  OfTypes(s \o t, Plainly)
<1>1. OfTypes(s \o t, Plainly \cup Plainly)
  BY TypesTogether
<1> QED BY <1>1

LEMMA PlainIssues ==
  ASSUME NEW F, IsFiniteSet(F), NEW type \in Plainly, NEW severity
  PROVE  OfTypes(Issues(F, type, severity), Plainly)
<1>1. OfTypes(Issues(F, type, severity), {type})
  BY IssuesListed
<1> QED BY <1>1, Wider

LEMMA FieldsFinite ==
  ASSUME NEW d
  PROVE  /\ IsFiniteSet(Blank(d, Required)) /\ IsFiniteSet(Odd(d, Notation))
         /\ IsFiniteSet(Odd(d, Notation \cup StaticOnly))
<1>1. IsFiniteSet(Required \cup Notation \cup StaticOnly)
  BY SignalsAssumption
<1>2. /\ Blank(d, Required) \subseteq Required \cup Notation \cup StaticOnly
      /\ Odd(d, Notation) \subseteq Required \cup Notation \cup StaticOnly
      /\ Odd(d, Notation \cup StaticOnly) \subseteq Required \cup Notation \cup StaticOnly
  BY DEF Blank, Odd
<1> QED BY <1>1, <1>2, FS_Subset

LEMMA StaticPlain ==
  ASSUME NEW d, WellFormed(d), NEW tips
  PROVE  OfTypes(Static(d, tips), Plainly)
<1> DEFINE A == [i \in 1..d.warnings |-> Issue("sheet", "extraction", "warning")]
           off == d.segments # <<>> /\ Exceeds(Abs(TotalWeight(d.segments) - 1000), 10, "total" \in tips)
           W == IF off THEN {"industry_weight"} ELSE {}
           R == IF d.segments = <<>> THEN {"industry_risks"} ELSE {}
           M == {f \in {"methodologies"} : d.methodologies = {}}
                  \cup {f \in {"credit_metrics"} : DOMAIN d.metrics = {}}
<1>1. OfTypes(A, Plainly)
  <2>1. d.warnings \in Nat
    BY DEF WellFormed
  <2>2. IsSequence(A)
    BY <2>1, Entries
  <2>3. ASSUME NEW e \in ToSet(A) PROVE e.type \in Plainly
    <3>1. e = Issue("sheet", "extraction", "warning")
      BY DEF ToSet
    <3> QED BY <3>1 DEF Issue, Plainly
  <2> QED BY <2>2, <2>3 DEF OfTypes
<1>2. IsFiniteSet(W) /\ IsFiniteSet(R) /\ IsFiniteSet(M)
  <2>1. IsFiniteSet({"industry_weight"} \cup {"industry_risks"})
    BY FS_AddElement, FS_Singleton
  <2>2. IsFiniteSet({"methodologies"} \cup {"credit_metrics"})
    BY FS_AddElement, FS_Singleton
  <2>3. /\ W \subseteq {"industry_weight"} \cup {"industry_risks"}
        /\ R \subseteq {"industry_weight"} \cup {"industry_risks"}
        /\ M \subseteq {"methodologies"} \cup {"credit_metrics"}
    OBVIOUS
  <2> QED BY <2>1, <2>2, <2>3, FS_Subset
<1> HIDE DEF A, W, R, M
<1>3. /\ OfTypes(Issues(Blank(d, Required), "missing", "error"), Plainly)
      /\ OfTypes(Issues(Odd(d, Notation \cup StaticOnly), "invalid_value", "warning"), Plainly)
  BY FieldsFinite, PlainIssues DEF Plainly
<1>4. /\ OfTypes(Issues(W, "out_of_range", "error"), Plainly)
      /\ OfTypes(Issues(R, "missing", "error"), Plainly)
      /\ OfTypes(Issues(M, "missing", "warning"), Plainly)
  BY <1>2, PlainIssues DEF Plainly
<1>5. Static(d, tips) = A \o Issues(Blank(d, Required), "missing", "error")
                          \o Issues(Odd(d, Notation \cup StaticOnly), "invalid_value", "warning")
                          \o Issues(W, "out_of_range", "error") \o Issues(R, "missing", "error")
                          \o Issues(M, "missing", "warning")
  BY DEF Static, A, W, R, M
<1> QED BY <1>1, <1>3, <1>4, <1>5, PlainlyTogether

LEMMA DbIssuesPlain ==
  ASSUME NEW d, NEW S, S \subseteq Rule
  PROVE  OfTypes(DbIssues(d, S), Plainly)
<1> DEFINE hit == SetToSeq({r \in S : Applies(r, d)})
<1>1. IsFiniteSet({r \in S : Applies(r, d)})
  BY SignalsAssumption, FS_Subset
<1>2. IsSequence(hit)
  BY <1>1, SetListed
<1>3. Len(hit) \in Nat /\ DOMAIN hit = 1..Len(hit)
  BY <1>2 DEF IsSequence
<1>4. DbIssues(d, S) = [i \in DOMAIN hit |-> Issue(hit[i].field, "rule", hit[i].severity)]
  BY DEF DbIssues
<1> HIDE DEF hit
<1>5. IsSequence(DbIssues(d, S))
  BY <1>3, <1>4, Entries
<1>6. ASSUME NEW e \in ToSet(DbIssues(d, S)) PROVE e.type = "rule"
  BY <1>4 DEF ToSet, Issue
<1> QED BY <1>5, <1>6 DEF OfTypes, Plainly

LEMMA ExpectationsPlain ==
  ASSUME NEW d
  PROVE  OfTypes(Expectations(d), Plainly)
<1>1. /\ OfTypes(Issues(Blank(d, Required), "expect_not_null", "warning"), Plainly)
      /\ OfTypes(Issues(Odd(d, Notation), "expect_in_set", "warning"), Plainly)
  BY FieldsFinite, PlainIssues DEF Plainly
<1>2. OfTypes(Issues(Blank(d, Required), "expect_not_null", "warning")
                \o Issues(Odd(d, Notation), "expect_in_set", "warning"), Plainly)
  BY <1>1, PlainlyTogether
<1> QED BY <1>2, NoIssues DEF Expectations

LEMMA MethodologyPlain ==
  ASSUME NEW prev, NEW new
  PROVE  OfTypes(MethodologyChange(prev, new), Plainly)
<1>1. IsFiniteSet(IF prev # {} /\ prev # new THEN {"methodologies"} ELSE {})
  BY FS_EmptySet, FS_Singleton
<1> QED BY <1>1, PlainIssues DEF MethodologyChange, Plainly

-----------------------------------------------------------------------------
(* Drift of weights *)

\* What WellFormed says of the segments.
Segmented(s) == /\ Len(s) \in Nat /\ DOMAIN s = 1..Len(s)
                /\ \A i \in DOMAIN s : s[i].weight \in Int

LEMMA RisksFinite ==
  ASSUME NEW s, Segmented(s)
  PROVE  IsFiniteSet(Risks(s))
<1> DEFINE g == [i \in 1..Len(s) |-> s[i].risk]
<1>1. IsFiniteSet(1..Len(s))
  BY FS_Interval DEF Segmented
<1>2. g \in Surjection(1..Len(s), Risks(s))
  BY DEF Surjection, Risks, Segmented
<1> QED BY <1>1, <1>2, FS_Surjection

\* The last segment of a risk has its weight.
LEMMA Weights ==
  ASSUME NEW s, Segmented(s), NEW r
  PROVE  /\ r \in Risks(s) => \E i \in DOMAIN s : s[i].risk = r /\ WeightOf(s, r) = s[i].weight
         /\ r \notin Risks(s) => WeightOf(s, r) = 0
         /\ WeightOf(s, r) \in Int
<1> DEFINE I == {i \in DOMAIN s : s[i].risk = r}
<1>1. ASSUME r \in Risks(s) PROVE \E i \in DOMAIN s : s[i].risk = r /\ WeightOf(s, r) = s[i].weight
  <2>1. I # {} /\ I \subseteq 1..Len(s)
    BY <1>1 DEF Risks, Segmented
  <2>2. Max(I) \in I
    BY <2>1, Greatest DEF Segmented
  <2>3. WeightOf(s, r) = s[Max(I)].weight
    BY <1>1 DEF WeightOf
  <2> QED BY <2>2, <2>3
<1>2. r \notin Risks(s) => WeightOf(s, r) = 0
  BY DEF WeightOf
<1> QED BY <1>1, <1>2 DEF Segmented

LEMMA AbsType == \A n \in Int : Abs(n) \in Nat /\ (Abs(n) = 0 <=> n = 0) /\ Abs(n) >= n /\ Abs(n) >= -n
BY DEF Abs

\* A distance is no longer than the way over a third point.
LEMMA Triangle == \A a, b, c \in Int : Abs(c - a) <= Abs(c - b) + Abs(b - a)
BY DEF Abs

LEMMA Severities ==
  ASSUME NEW n \in Int, NEW tip
  PROVE  /\ DriftSeverity(n, tip) = "none" => n <= 50
         /\ n <= 0 => DriftSeverity(n, tip) = "none"
BY DEF DriftSeverity, Exceeds

LEMMA DriftListed ==
  ASSUME NEW prev, NEW new, NEW tips, Segmented(prev), Segmented(new)
  PROVE  /\ OfTypes(WeightDrift(prev, new, tips), DriftTypes)
         /\ ToSet(WeightDrift(prev, new, tips)) = {} /\ prev # <<>> =>
              /\ \A i \in DOMAIN new : SegmentDrift(prev, new, tips)[i] = "none"
              /\ Risks(prev) \subseteq Risks(new)
         /\ (\A i \in DOMAIN new : SegmentDrift(prev, new, tips)[i] = "none") /\ Risks(prev) \subseteq Risks(new)
              => ToSet(WeightDrift(prev, new, tips)) = {}
<1> DEFINE drift == SegmentDrift(prev, new, tips)
           H == {i \in DOMAIN drift : drift[i] # "none"}
           hit == SetToSeq(H)
           A == [k \in DOMAIN hit |-> Issue(new[hit[k]].risk, "weight_drift", drift[hit[k]])]
           G == Risks(prev) \ Risks(new)
           B == Issues(G, "segment_removed", "warning")
<1>1. IsSequence(hit) /\ ToSet(hit) = H /\ DOMAIN drift = DOMAIN new
  <2>1. DOMAIN drift = 1..Len(new) /\ DOMAIN new = 1..Len(new) /\ H \subseteq 1..Len(new)
    BY DEF SegmentDrift, Segmented
  <2>2. IsFiniteSet(1..Len(new))
    BY FS_Interval DEF Segmented
  <2> HIDE DEF H, drift
  <2>3. IsFiniteSet(H)
    BY <2>1, <2>2, FS_Subset
  <2> QED BY <2>1, <2>3, SetListed
<1>2. WeightDrift(prev, new, tips) = IF prev = <<>> THEN <<>> ELSE A \o B
  BY DEF WeightDrift
<1> HIDE DEF drift, hit, H
<1>3. IsSequence(A) /\ DOMAIN A = DOMAIN hit
  <2>1. Len(hit) \in Nat /\ DOMAIN hit = 1..Len(hit)
    BY <1>1 DEF IsSequence
  <2> QED BY <2>1, Entries
<1>4. \A e \in ToSet(A) : e.type = "weight_drift"
  BY DEF ToSet, Issue
<1>5. ToSet(A) = {} <=> H = {}
  BY <1>1, <1>3 DEF ToSet
<1>6. IsFiniteSet(G)
  BY RisksFinite, FS_Subset
<1>7. OfTypes(B, {"segment_removed"}) /\ ToSet(B) = {Issue(f, "segment_removed", "warning") : f \in G}
  BY <1>6, IssuesListed
<1>8. OfTypes(A, {"weight_drift"})
  BY <1>3, <1>4 DEF OfTypes
<1> HIDE DEF A, B, G
<1>9. OfTypes(A \o B, {"weight_drift"} \cup {"segment_removed"}) /\ ToSet(A \o B) = ToSet(A) \cup ToSet(B)
  BY <1>7, <1>8, TypesTogether
<1>10. OfTypes(WeightDrift(prev, new, tips), DriftTypes)
  <2>1. {"weight_drift"} \cup {"segment_removed"} = DriftTypes
    BY DEF DriftTypes
  <2> QED BY <1>2, <1>9, <2>1, NoIssues
<1>11. ToSet(A \o B) = {} <=> (H = {} /\ G = {})
  BY <1>5, <1>7, <1>9
<1>12. ToSet(<<>>) = {}
  BY NoIssues
<1>13. /\ H = {} <=> \A i \in DOMAIN new : drift[i] = "none"
       /\ G = {} <=> Risks(prev) \subseteq Risks(new)
  BY <1>1 DEF H, G
<1> QED BY <1>2, <1>10, <1>11, <1>12, <1>13 DEF drift

\* Where no drift is reported, every weight has changed by one threshold at most.
LEMMA SilentStep ==
  ASSUME NEW prev, NEW new, NEW tips, Segmented(prev), Segmented(new), prev # <<>>,
         ToSet(WeightDrift(prev, new, tips)) = {}, NEW r
  PROVE  Abs(WeightOf(new, r) - WeightOf(prev, r)) <= 50
<1>1. /\ \A i \in DOMAIN new : SegmentDrift(prev, new, tips)[i] = "none"
      /\ Risks(prev) \subseteq Risks(new)
  BY DriftListed
<1>2. CASE r \in Risks(new)
  <2>1. PICK i \in DOMAIN new : new[i].risk = r /\ WeightOf(new, r) = new[i].weight
    BY <1>2, Weights
  <2>2. DriftSeverity(Abs(new[i].weight - WeightOf(prev, r)), r \in tips) = "none"
    BY <1>1, <2>1 DEF SegmentDrift
  <2>3. Abs(WeightOf(new, r) - WeightOf(prev, r)) \in Int
    BY Weights, AbsType
  <2> QED BY <2>1, <2>2, <2>3, Severities
<1>3. CASE r \notin Risks(new)
  <2>1. WeightOf(new, r) = 0 /\ WeightOf(prev, r) = 0
    BY <1>1, <1>3, Weights
  <2> QED BY <2>1 DEF Abs
<1> QED BY <1>2, <1>3

\* Segments of distinct names have not drifted from themselves.
LEMMA NoStep ==
  ASSUME NEW s, NEW tips, Segmented(s), Distinct(s)
  PROVE  ToSet(WeightDrift(s, s, tips)) = {}
<1>1. ASSUME NEW i \in DOMAIN s PROVE SegmentDrift(s, s, tips)[i] = "none"
  <2>1. s[i].risk \in Risks(s)
    BY DEF Risks
  <2>2. PICK j \in DOMAIN s : s[j].risk = s[i].risk /\ WeightOf(s, s[i].risk) = s[j].weight
    BY <2>1, Weights
  <2>3. j = i
    BY <2>2 DEF Distinct
  <2>4. Abs(s[i].weight - WeightOf(s, s[i].risk)) = 0
    BY <2>2, <2>3 DEF Segmented, Abs
  <2>5. DriftSeverity(0, s[i].risk \in tips) = "none"
    BY Severities
  <2> QED BY <2>4, <2>5 DEF SegmentDrift
<1> QED BY <1>1, DriftListed

-----------------------------------------------------------------------------
(* Series of metrics *)

\* What WellFormed says of the metrics.
Yearly(m) == /\ IsFiniteSet(DOMAIN m) /\ DOMAIN m \subseteq Nat
             /\ \A y \in DOMAIN m : m[y] \in [Metric -> Int \cup {NULL}]

LEMMA MarksAreYears ==
  ASSUME NEW m, Yearly(m), NEW f
  PROVE  /\ Stale(m) \subseteq DOMAIN m /\ Cliffs(m, f) \subseteq DOMAIN m
         /\ IsFiniteSet(Stale(m)) /\ IsFiniteSet(Cliffs(m, f))
<1>1. Stale(m) \subseteq DOMAIN m /\ Cliffs(m, f) \subseteq DOMAIN m
  BY DEF Stale, Cliffs, Neighbours
<1> QED BY <1>1, FS_Subset DEF Yearly

\* The signals among the issues of an upload are those of the detectors.
LEMMA SignalsFound ==
  ASSUME NEW d, WellFormed(d), NEW tips, First \/ Segmented(Previous.segments)
  PROVE  /\ IsSequence(Found(d, tips))
         /\ {i \in ToSet(Found(d, tips)) : i.type \in {"stale_data"}}
              = {YearIssue(y, "stale_data") : y \in Stale(d.metrics)}
         /\ {i \in ToSet(Found(d, tips)) : i.type \in {"metric_cliff"}}
              = {YearIssue(y, "metric_cliff") : y \in Cliffs(d.metrics, Headline)}
         /\ {i \in ToSet(Found(d, tips)) : i.type \in DriftTypes}
              = IF First THEN {} ELSE ToSet(WeightDrift(Previous.segments, d.segments, tips))
<1> DEFINE V == Validated(d, tips)
           S == YearIssues(Stale(d.metrics), "stale_data")
           M == MethodologyChange(Previous.methodologies, d.methodologies)
           W == WeightDrift(Previous.segments, d.segments, tips)
           P == IF First THEN <<>> ELSE M \o W
           C == YearIssues(Cliffs(d.metrics, Headline), "metric_cliff")
<1>1. OfTypes(V, Plainly)
  <2>1. ActiveRules \subseteq Rule
    BY DEF ActiveRules
  <2> QED BY <2>1, StaticPlain, DbIssuesPlain, ExpectationsPlain, PlainlyTogether DEF Validated
<1>2. IsFiniteSet(Stale(d.metrics)) /\ IsFiniteSet(Cliffs(d.metrics, Headline))
  BY MarksAreYears DEF WellFormed, Yearly
<1>3. OfTypes(S, {"stale_data"}) /\ ToSet(S) = {YearIssue(y, "stale_data") : y \in Stale(d.metrics)}
  BY <1>2, YearsListed
<1>4. OfTypes(C, {"metric_cliff"}) /\ ToSet(C) = {YearIssue(y, "metric_cliff") : y \in Cliffs(d.metrics, Headline)}
  BY <1>2, YearsListed
<1>5. OfTypes(M, Plainly)
  BY MethodologyPlain
<1>6. ~First => OfTypes(W, DriftTypes)
  BY DriftListed DEF WellFormed, Segmented
<1>7. Found(d, tips) = V \o S \o P \o C
  BY DEF Found
<1> HIDE DEF V, S, M, W, C
<1>8. /\ OfTypes(P, Plainly \cup DriftTypes)
      /\ {i \in ToSet(P) : i.type \in DriftTypes} = IF First THEN {} ELSE ToSet(W)
  <2>1. CASE First
    BY <2>1, NoIssues
  <2>2. CASE ~First
    <3>1. OfTypes(M \o W, Plainly \cup DriftTypes) /\ ToSet(M \o W) = ToSet(M) \cup ToSet(W)
      BY <1>5, <1>6, <2>2, TypesTogether
    <3>2. \A i \in ToSet(M) : i.type \notin DriftTypes
      BY <1>5 DEF OfTypes, Plainly, DriftTypes
    <3>3. \A i \in ToSet(W) : i.type \in DriftTypes
      BY <1>6, <2>2 DEF OfTypes
    <3> QED BY <2>2, <3>1, <3>2, <3>3
  <2> QED BY <2>1, <2>2
<1> HIDE DEF P
<1>9. OfTypes(V \o S, Plainly \cup {"stale_data"}) /\ ToSet(V \o S) = ToSet(V) \cup ToSet(S)
  BY <1>1, <1>3, TypesTogether
<1>10. /\ OfTypes(V \o S \o P, Plainly \cup {"stale_data"} \cup (Plainly \cup DriftTypes))
       /\ ToSet(V \o S \o P) = ToSet(V) \cup ToSet(S) \cup ToSet(P)
  BY <1>8, <1>9, TypesTogether
<1>11. /\ IsSequence(V \o S \o P \o C)
       /\ ToSet(V \o S \o P \o C) = ToSet(V) \cup ToSet(S) \cup ToSet(P) \cup ToSet(C)
  <2>1. IsSequence(V \o S \o P) /\ IsSequence(C)
    BY <1>4, <1>10 DEF OfTypes
  <2> QED BY <1>10, <2>1, Concatenation
<1>12. /\ \A i \in ToSet(V) : i.type \notin {"stale_data", "metric_cliff"} \cup DriftTypes
       /\ \A i \in ToSet(S) : i.type = "stale_data"
       /\ \A i \in ToSet(C) : i.type = "metric_cliff"
       /\ \A i \in ToSet(P) : i.type \notin {"stale_data", "metric_cliff"}
       /\ DriftTypes \cap {"stale_data", "metric_cliff"} = {}
  BY <1>1, <1>3, <1>4, <1>8 DEF OfTypes, Plainly, DriftTypes
<1>13. /\ {i \in ToSet(V \o S \o P \o C) : i.type \in {"stale_data"}} = ToSet(S)
       /\ {i \in ToSet(V \o S \o P \o C) : i.type \in {"metric_cliff"}} = ToSet(C)
       /\ {i \in ToSet(V \o S \o P \o C) : i.type \in DriftTypes} = {i \in ToSet(P) : i.type \in DriftTypes}
  BY <1>11, <1>12
<1> QED BY <1>3, <1>4, <1>7, <1>8, <1>11, <1>13 DEF W

-----------------------------------------------------------------------------
(* Marks of a series *)

\* Of two listed years before a third, only one is next to it.
LEMMA OnePredecessor ==
  ASSUME NEW m, DOMAIN m \subseteq Nat, NEW n \in Neighbours(m), NEW p \in Neighbours(m), n[2] = p[2]
  PROVE  n[1] = p[1]
BY DEF Neighbours

LEMMA StaleIsNoCliff ==
  ASSUME NEW m, Yearly(m), NEW f
  PROVE  Stale(m) \cap Cliffs(m, f) = {}
<1> SUFFICES ASSUME NEW y \in Stale(m), y \in Cliffs(m, f) PROVE FALSE
  OBVIOUS
<1>1. PICK n \in Neighbours(m) : n[2] = y /\ Repeats(m[n[1]], m[n[2]])
  BY DEF Stale
<1>2. PICK p \in Neighbours(m) : /\ p[2] = y /\ f \in Comparable(m[p[1]], m[p[2]])
                                 /\ Falls(m[p[1]][f], m[p[2]][f])
  BY DEF Cliffs
<1>3. n[1] = p[1]
  BY <1>1, <1>2, OnePredecessor DEF Yearly
<1>4. m[p[1]][f] = m[p[2]][f]
  BY <1>1, <1>2, <1>3 DEF Repeats
<1>5. m[p[1]][f] \in Int
  <2>1. p[1] \in DOMAIN m
    BY DEF Neighbours
  <2> QED BY <2>1, <1>2 DEF Yearly, Comparable
<1> QED BY <1>2, <1>4, <1>5 DEF Falls

\* Every listed year but the first has a neighbour before it.
LEMMA Predecessor ==
  ASSUME NEW m, DOMAIN m \subseteq Nat, NEW y \in DOMAIN m, NEW z \in DOMAIN m, z < y
  PROVE  \E x \in DOMAIN m : z <= x /\ <<x, y>> \in Neighbours(m)
<1> DEFINE S == {y - x : x \in {w \in DOMAIN m : w < y}}
<1>1. S # {} /\ S \subseteq Nat
  OBVIOUS
<1>2. PICK k \in S : \A j \in S : k <= j
  BY <1>1, Least
<1>3. PICK x \in DOMAIN m : x < y /\ k = y - x
  OBVIOUS
<1>4. ASSUME NEW w \in DOMAIN m, w < y PROVE w <= x
  <2>1. y - w \in S
    BY <1>4
  <2>2. k <= y - w
    BY <1>2, <2>1
  <2> QED BY <1>3, <2>2
<1>5. <<x, y>> \in (DOMAIN m) \X (DOMAIN m) /\ ~\E w \in DOMAIN m : x < w /\ w < y
  BY <1>3, <1>4
<1>6. <<x, y>> \in Neighbours(m)
  BY <1>3, <1>5 DEF Neighbours
<1> QED BY <1>4, <1>6

\* The years of a series that are not stale, and the last of them up to y.
KeptYears(m) == DOMAIN m \ Stale(m)
LastKeptYear(m, y) == Max({x \in KeptYears(m) : x <= y})

LEMMA KeptIsItsLast ==
  ASSUME NEW m, Yearly(m), NEW y \in KeptYears(m)
  PROVE  LastKeptYear(m, y) = y
<1> DEFINE S == {x \in KeptYears(m) : x <= y}
<1>1. S \subseteq Int /\ y \in S /\ \A x \in S : x <= y
  BY DEF KeptYears, Yearly
<1> HIDE DEF S
<1>2. Max(S) = y
  BY <1>1, MaxIs
<1> QED BY <1>2 DEF LastKeptYear, S

\* Without blanks, a year is stale if the row before it is the same.
LEMMA SameRow ==
  ASSUME NEW m, Yearly(m), Full(m), NEW n \in Neighbours(m)
  PROVE  Repeats(m[n[1]], m[n[2]]) <=> m[n[1]] = m[n[2]]
<1>1. n[1] \in DOMAIN m /\ n[2] \in DOMAIN m
  BY DEF Neighbours
<1>2. Comparable(m[n[1]], m[n[2]]) = Metric
  BY <1>1 DEF Comparable, Full
<1>3. m[n[1]] \in [Metric -> Int \cup {NULL}] /\ m[n[2]] \in [Metric -> Int \cup {NULL}] /\ Metric # {}
  BY <1>1, SignalsAssumption DEF Yearly
<1>4. m[n[1]] = m[n[2]] <=> \A f \in Metric : m[n[1]][f] = m[n[2]][f]
  BY <1>3
<1> QED BY <1>2, <1>3, <1>4 DEF Repeats

\* By induction over the years: each says what the last year kept says.
LEMMA StaleRepeatsKept ==
  ASSUME NEW m, Yearly(m), Full(m)
  PROVE  \A y \in DOMAIN m : m[y] = m[LastKeptYear(m, y)]
<1> DEFINE Bad == {y \in DOMAIN m : m[y] # m[LastKeptYear(m, y)]}
<1> SUFFICES ASSUME Bad # {} PROVE FALSE
  OBVIOUS
<1>1. PICK y \in Bad : \A z \in Bad : y <= z
  BY Least DEF Yearly
<1>2. y \notin KeptYears(m)
  BY <1>1, KeptIsItsLast
<1>3. PICK n \in Neighbours(m) : n[2] = y /\ Repeats(m[n[1]], m[n[2]])
  BY <1>1, <1>2 DEF KeptYears, Stale
<1>4. m[n[1]] = m[y]
  BY <1>3, SameRow
<1>5. n[1] \in DOMAIN m /\ n[1] < y /\ ~\E x \in DOMAIN m : n[1] < x /\ x < y
  BY <1>3 DEF Neighbours
<1>6. n[1] \notin Bad
  BY <1>1, <1>5 DEF Yearly
<1>7. {x \in KeptYears(m) : x <= y} = {x \in KeptYears(m) : x <= n[1]}
  BY <1>1, <1>2, <1>5 DEF KeptYears, Yearly
<1>8. LastKeptYear(m, y) = LastKeptYear(m, n[1])
  BY <1>7 DEF LastKeptYear
<1> QED BY <1>1, <1>4, <1>5, <1>6, <1>8

LEMMA KeptSayMore ==
  ASSUME NEW m, Yearly(m), Full(m), NEW n \in Neighbours([y \in KeptYears(m) |-> m[y]])
  PROVE  m[n[1]] # m[n[2]]
<1> SUFFICES ASSUME m[n[1]] = m[n[2]] PROVE FALSE
  OBVIOUS
<1>1. /\ n[1] \in KeptYears(m) /\ n[2] \in KeptYears(m) /\ n[1] < n[2]
      /\ ~\E x \in KeptYears(m) : n[1] < x /\ x < n[2]
  BY DEF Neighbours
<1>2. n[1] \in DOMAIN m /\ n[2] \in DOMAIN m /\ DOMAIN m \subseteq Nat
  BY <1>1 DEF KeptYears, Yearly
<1>3. PICK x \in DOMAIN m : n[1] <= x /\ <<x, n[2]>> \in Neighbours(m)
  BY <1>1, <1>2, Predecessor
<1>4. x < n[2]
  BY <1>3 DEF Neighbours
<1>5. LastKeptYear(m, x) = n[1]
  <2> DEFINE S == {z \in KeptYears(m) : z <= x}
  <2>1. S \subseteq Int /\ n[1] \in S /\ \A z \in S : z <= n[1]
    BY <1>1, <1>2, <1>3, <1>4 DEF KeptYears
  <2> HIDE DEF S
  <2>2. Max(S) = n[1]
    BY <2>1, MaxIs
  <2> QED BY <2>2 DEF LastKeptYear, S
<1>6. m[x] = m[n[2]]
  BY <1>5, StaleRepeatsKept
<1>7. Repeats(m[x], m[n[2]])
  <2> DEFINE p == <<x, n[2]>>
  <2>1. Repeats(m[p[1]], m[p[2]]) <=> m[p[1]] = m[p[2]]
    BY <1>3, SameRow
  <2> QED BY <1>6, <2>1
<1>8. n[2] \in Stale(m)
  BY <1>3, <1>7 DEF Stale
<1> QED BY <1>1, <1>8 DEF KeptYears

\* A pair of years whose cells could be compared is compared alike when a
\* blank is filled in.
LEMMA FilledMarks ==
  ASSUME NEW m, Yearly(m), NEW y \in DOMAIN m, NEW f \in Metric, m[y][f] = NULL, NEW v, v # NULL,
         NEW z \in Stale(Filled(m, y, f, v)), z \notin Stale(m)
  PROVE  \E n \in Neighbours(m) : n[2] = z /\ Comparable(m[n[1]], m[n[2]]) = {}
<1> DEFINE w == Filled(m, y, f, v)
<1>1. Neighbours(w) = Neighbours(m)
  <2>1. DOMAIN w = DOMAIN m
    BY DEF Filled
  <2> HIDE DEF w
  <2> QED BY <2>1 DEF Neighbours
<1>2. PICK n \in Neighbours(m) : n[2] = z /\ Repeats(w[n[1]], w[n[2]])
  BY <1>1 DEF Stale
<1>3. ~Repeats(m[n[1]], m[n[2]])
  BY <1>2 DEF Stale
<1>4. n[1] \in DOMAIN m /\ n[2] \in DOMAIN m
  BY DEF Neighbours
<1>5. ASSUME NEW x \in DOMAIN m, NEW g \in Metric, m[x][g] # NULL
      PROVE  w[x][g] = m[x][g]
  BY <1>5 DEF Yearly, Filled
<1>6. \A g \in Comparable(m[n[1]], m[n[2]]) :
        g \in Comparable(w[n[1]], w[n[2]]) /\ w[n[1]][g] = m[n[1]][g] /\ w[n[2]][g] = m[n[2]][g]
  BY <1>4, <1>5 DEF Comparable
<1> HIDE DEF w
<1>7. \A g \in Comparable(m[n[1]], m[n[2]]) : m[n[1]][g] = m[n[2]][g]
  BY <1>2, <1>6 DEF Repeats
<1>8. Comparable(m[n[1]], m[n[2]]) = {}
  BY <1>3, <1>7 DEF Repeats
<1> QED BY <1>2, <1>8

-----------------------------------------------------------------------------
(* The inductive invariant of the loads *)

\* The issues of upload u of us that are of these types, and their years.
Filing(us, u, types) == {i \in ToSet(us[u].issues) : i.type \in types}
YearsFiled(us, u, type) == {i.year : i \in Filing(us, u, {type})}

\* Snapshot s fits its upload, of us, and what its marks rest on in a year.
SnapshotFits(s, us, year) ==
  /\ s.upload \in DOMAIN us
  /\ Yearly(s.metrics) /\ Segmented(s.segments)
  /\ s.content[2] = s.segments
  /\ s.stale = Stale(s.metrics)
  /\ YearsFiled(us, s.upload, "stale_data") = s.stale
  /\ YearsFiled(us, s.upload, "metric_cliff") = Cliffs(s.metrics, Headline)
  /\ s.estimates \subseteq DOMAIN s.metrics
  /\ \A y \in DOMAIN s.metrics \ s.estimates : y < year

SequencesInv == IsSequence(uploads) /\ IsSequence(snapshots)
SnapshotsInv == \A i \in DOMAIN snapshots : SnapshotFits(snapshots[i], uploads, now)
ScoresInv == \A u \in DOMAIN uploads : uploads[u].score = Score(uploads[u].issues)

SignalsInv == /\ TypeOK /\ SequencesInv /\ SnapshotsInv /\ ScoresInv
              /\ UnreportedDriftIsSmall /\ NoDriftWithoutDelta /\ ActualsStayActual

LEMMA ScoreType ==
  ASSUME NEW issues, IsSequence(issues)
  PROVE  Score(issues) \in 0..100
<1> DEFINE e == Count(issues, "error")
           w == Count(issues, "warning")
           n == 100 - 10 * e - 2 * w
<1>1. ASSUME NEW severity PROVE Count(issues, severity) \in Nat
  <2>1. Len(issues) \in Nat /\ DOMAIN issues = 1..Len(issues)
    BY DEF IsSequence
  <2>2. IsFiniteSet(DOMAIN issues)
    BY <2>1, FS_Interval
  <2>3. IsFiniteSet({i \in DOMAIN issues : issues[i].severity = severity})
    BY <2>2, FS_Subset
  <2> QED BY <2>3, FS_CardinalityType DEF Count
<1>2. e \in Nat /\ w \in Nat
  BY <1>1
<1>3. Score(issues) = Max({0, n})
  BY DEF Score
<1> HIDE DEF e, w
<1>4. n \in Int /\ n <= 100
  BY <1>2
<1> HIDE DEF n
<1>5. CASE n >= 0
  <2>1. Max({0, n}) = n
    BY <1>4, <1>5, MaxIs
  <2> QED BY <1>3, <1>4, <1>5, <2>1
<1>6. CASE ~(n >= 0)
  <2>1. Max({0, n}) = 0
    BY <1>4, <1>6, MaxIs
  <2> QED BY <1>3, <2>1
<1> QED BY <1>5, <1>6

LEMMA SignalsInit == Init => SignalsInv
<1> SUFFICES ASSUME Init PROVE SignalsInv
  OBVIOUS
<1>1. DOMAIN uploads = {} /\ DOMAIN snapshots = {} /\ First
  BY DEF Init, First
<1>2. IsSequence(<<>>)
  BY NoIssues DEF OfTypes
<1>3. Min(Now) \in Now
  <2>1. PICK n \in Now : \A k \in Now : n <= k
    BY SignalsAssumption, Least
  <2>2. Now \subseteq Int
    BY SignalsAssumption
  <2> QED BY <2>1, <2>2, MinIs
<1>4. TypeOK
  BY <1>1, <1>3 DEF Init, TypeOK
<1>5. SequencesInv /\ SnapshotsInv /\ ScoresInv
  BY <1>1, <1>2 DEF Init, SequencesInv, SnapshotsInv, ScoresInv
<1>6. UnreportedDriftIsSmall /\ NoDriftWithoutDelta /\ ActualsStayActual
  BY <1>1 DEF UnreportedDriftIsSmall, NoDriftWithoutDelta, ActualsStayActual
<1> QED BY <1>4, <1>5, <1>6 DEF SignalsInv

\* Rules and time change none of what is stored.
LEMMA NothingLoaded ==
  ASSUME SignalsInv, UNCHANGED <<uploads, snapshots>>, now' \in Now, now' >= now,
         rules' \in [Rule -> {"absent", "active", "inactive"}]
  PROVE  SignalsInv'
<1>1. TypeOK'
  BY DEF SignalsInv, TypeOK
<1>2. SequencesInv' /\ ScoresInv'
  BY DEF SignalsInv, SequencesInv, ScoresInv
<1>3. SnapshotsInv'
  <2> SUFFICES ASSUME NEW i \in DOMAIN snapshots PROVE SnapshotFits(snapshots[i], uploads, now')
    BY DEF SnapshotsInv
  <2>1. SnapshotFits(snapshots[i], uploads, now)
    BY DEF SignalsInv, SnapshotsInv
  <2>2. \A y \in DOMAIN snapshots[i].metrics \ snapshots[i].estimates : y < now'
    <3>1. now \in Nat /\ now' \in Nat /\ DOMAIN snapshots[i].metrics \subseteq Nat
      BY <2>1, SignalsAssumption DEF SignalsInv, TypeOK, SnapshotFits, Yearly
    <3> QED BY <2>1, <3>1 DEF SnapshotFits
  <2> QED BY <2>1, <2>2 DEF SnapshotFits
<1>4. UnreportedDriftIsSmall'
  BY DEF SignalsInv, UnreportedDriftIsSmall, Silent, FiledUnder
<1>5. NoDriftWithoutDelta' /\ ActualsStayActual'
  BY DEF SignalsInv, NoDriftWithoutDelta, ActualsStayActual, FiledUnder, First, Previous
<1> QED BY <1>1, <1>2, <1>3, <1>4, <1>5 DEF SignalsInv

\* What a load adds to the uploads.
LEMMA UploadAdded ==
  ASSUME SignalsInv, NEW d, WellFormed(d), NEW tips, Load(d, tips)
  PROVE  /\ IsSequence(uploads') /\ Len(uploads) \in Nat /\ DOMAIN uploads = 1..Len(uploads)
         /\ DOMAIN uploads' = 1..(Len(uploads) + 1)
         /\ uploads'[Len(uploads) + 1] = UploadRow(d, tips)
         /\ \A u \in DOMAIN uploads : uploads'[u] = uploads[u]
BY OneMore DEF SignalsInv, SequencesInv, Load

\* What is known of the previous snapshot.
LEMMA PreviousKnown ==
  ASSUME SignalsInv, ~First
  PROVE  /\ Len(snapshots) \in DOMAIN snapshots /\ Previous = snapshots[Len(snapshots)]
         /\ SnapshotFits(Previous, uploads, now)
<1>1. Len(snapshots) \in Nat /\ DOMAIN snapshots = 1..Len(snapshots) /\ Len(snapshots) # 0
  BY DEF SignalsInv, SequencesInv, IsSequence, First
<1>2. Previous = snapshots[Len(snapshots)]
  BY DEF Previous, Last
<1> QED BY <1>1, <1>2 DEF SignalsInv, SnapshotsInv

LEMMA LoadFinds ==
  ASSUME SignalsInv, NEW d, WellFormed(d), NEW tips
  PROVE  /\ IsSequence(Found(d, tips))
         /\ {i \in ToSet(Found(d, tips)) : i.type \in {"stale_data"}}
              = {YearIssue(y, "stale_data") : y \in Stale(d.metrics)}
         /\ {i \in ToSet(Found(d, tips)) : i.type \in {"metric_cliff"}}
              = {YearIssue(y, "metric_cliff") : y \in Cliffs(d.metrics, Headline)}
         /\ {i \in ToSet(Found(d, tips)) : i.type \in DriftTypes}
              = IF First THEN {} ELSE ToSet(WeightDrift(Previous.segments, d.segments, tips))
<1>1. First \/ Segmented(Previous.segments)
  BY PreviousKnown DEF SnapshotFits
<1> QED BY <1>1, SignalsFound

\* The years of the issues about years are those years.
LEMMA YearsOfIssues ==
  ASSUME NEW S, NEW Y, NEW type, \A i : i \in S <=> \E y \in Y : i = YearIssue(y, type)
  PROVE  {i.year : i \in S} = Y
<1>1. \A y : YearIssue(y, type).year = y
  BY DEF YearIssue
<1> QED BY <1>1

\* What a load adds to the snapshots.
LEMMA SnapshotAdded ==
  ASSUME SignalsInv, NEW d, NEW tips, Load(d, tips)
  PROVE  /\ IsSequence(snapshots') /\ Len(snapshots) \in Nat /\ DOMAIN snapshots = 1..Len(snapshots)
         /\ NoDelta(d) => snapshots' = snapshots
         /\ ~NoDelta(d) => /\ DOMAIN snapshots' = 1..(Len(snapshots) + 1)
                           /\ Len(snapshots') = Len(snapshots) + 1
                           /\ snapshots'[Len(snapshots) + 1] = SnapshotRow(d)
         /\ \A i \in DOMAIN snapshots : i \in DOMAIN snapshots' /\ snapshots'[i] = snapshots[i]
<1>1. IsSequence(snapshots)
  BY DEF SignalsInv, SequencesInv
<1>2. CASE NoDelta(d)
  <2>1. snapshots' = snapshots
    BY <1>2 DEF Load
  <2>2. Len(snapshots) \in Nat /\ DOMAIN snapshots = 1..Len(snapshots)
    BY <1>1, OneMore
  <2> QED BY <1>1, <1>2, <2>1, <2>2
<1>3. CASE ~NoDelta(d)
  <2>1. snapshots' = Append(snapshots, SnapshotRow(d))
    BY <1>3 DEF Load
  <2>2. /\ IsSequence(Append(snapshots, SnapshotRow(d)))
        /\ Len(snapshots) \in Nat /\ DOMAIN snapshots = 1..Len(snapshots)
        /\ DOMAIN Append(snapshots, SnapshotRow(d)) = 1..(Len(snapshots) + 1)
        /\ Len(Append(snapshots, SnapshotRow(d))) = Len(snapshots) + 1
        /\ Append(snapshots, SnapshotRow(d))[Len(snapshots) + 1] = SnapshotRow(d)
        /\ \A i \in 1..Len(snapshots) : Append(snapshots, SnapshotRow(d))[i] = snapshots[i]
    BY <1>1, OneMore
  <2>3. \A i \in DOMAIN snapshots : i \in 1..(Len(snapshots) + 1)
    BY <2>2
  <2> HIDE DEF IsSequence
  <2> QED BY <1>3, <2>1, <2>2, <2>3
<1> QED BY <1>2, <1>3

\* The issues of earlier uploads stay, those of the new one are what was found.
LEMMA FiledAfter ==
  ASSUME SignalsInv, NEW d, WellFormed(d), NEW tips, Load(d, tips), NEW types
  PROVE  /\ \A u \in DOMAIN uploads : Filing(uploads', u, types) = Filing(uploads, u, types)
         /\ Filing(uploads', Len(uploads) + 1, types) = {i \in ToSet(Found(d, tips)) : i.type \in types}
<1>1. \A u \in DOMAIN uploads : uploads'[u] = uploads[u]
  BY UploadAdded
<1>2. uploads'[Len(uploads) + 1].issues = Found(d, tips)
  <2>1. uploads'[Len(uploads) + 1] = UploadRow(d, tips)
    BY UploadAdded
  <2>2. UploadRow(d, tips).issues = Found(d, tips)
    BY DEF UploadRow
  <2> QED BY <2>1, <2>2
<1> QED BY <1>1, <1>2 DEF Filing

LEMMA LoadKeepsSnapshots ==
  ASSUME SignalsInv, NEW d, WellFormed(d), NEW tips, Load(d, tips)
  PROVE  SnapshotsInv'
<1>1. now' = now /\ now \in Nat
  BY SignalsAssumption DEF Load, SignalsInv, TypeOK
<1>2. ASSUME NEW i \in DOMAIN snapshots PROVE SnapshotFits(snapshots'[i], uploads', now')
  <2> DEFINE s == snapshots[i]
  <2>1. SnapshotFits(s, uploads, now)
    BY DEF SignalsInv, SnapshotsInv
  <2>2. snapshots'[i] = s
    BY SnapshotAdded
  <2> HIDE DEF s
  <2>3. s.upload \in DOMAIN uploads /\ s.upload \in DOMAIN uploads'
    BY <2>1, UploadAdded DEF SnapshotFits
  <2>4. \A type : YearsFiled(uploads', s.upload, type) = YearsFiled(uploads, s.upload, type)
    BY <2>3, FiledAfter DEF YearsFiled
  <2> QED BY <1>1, <2>1, <2>2, <2>3, <2>4 DEF SnapshotFits
<1>3. ASSUME ~NoDelta(d) PROVE SnapshotFits(snapshots'[Len(snapshots) + 1], uploads', now')
  <2> DEFINE s == SnapshotRow(d)
             u == Len(uploads) + 1
  <2>1. snapshots'[Len(snapshots) + 1] = s
    BY <1>3, SnapshotAdded
  <2>2. /\ s.upload = u /\ s.metrics = d.metrics /\ s.segments = d.segments
        /\ s.content = Content(d) /\ s.stale = Stale(d.metrics) /\ s.estimates = Estimates(d.metrics, now)
    BY DEF SnapshotRow
  <2>3. Content(d)[2] = d.segments
    BY DEF Content
  <2>4. u \in DOMAIN uploads'
    BY UploadAdded
  <2>5. Yearly(d.metrics) /\ Segmented(d.segments)
    BY DEF WellFormed, Yearly, Segmented
  <2>6. /\ Filing(uploads', u, {"stale_data"}) = {YearIssue(y, "stale_data") : y \in Stale(d.metrics)}
        /\ Filing(uploads', u, {"metric_cliff"}) = {YearIssue(y, "metric_cliff") : y \in Cliffs(d.metrics, Headline)}
    BY FiledAfter, LoadFinds
  <2>7. /\ YearsFiled(uploads', u, "stale_data") = Stale(d.metrics)
        /\ YearsFiled(uploads', u, "metric_cliff") = Cliffs(d.metrics, Headline)
    <3> DEFINE A == Filing(uploads', u, {"stale_data"})
               B == Filing(uploads', u, {"metric_cliff"})
    <3>1. /\ \A i : i \in A <=> \E y \in Stale(d.metrics) : i = YearIssue(y, "stale_data")
          /\ \A i : i \in B <=> \E y \in Cliffs(d.metrics, Headline) : i = YearIssue(y, "metric_cliff")
      BY <2>6
    <3>2. /\ YearsFiled(uploads', u, "stale_data") = {i.year : i \in A}
          /\ YearsFiled(uploads', u, "metric_cliff") = {i.year : i \in B}
      BY DEF YearsFiled
    <3> HIDE DEF A, B, u, s
    <3>3. {i.year : i \in A} = Stale(d.metrics)
      BY <3>1, YearsOfIssues
    <3>4. {i.year : i \in B} = Cliffs(d.metrics, Headline)
      BY <3>1, YearsOfIssues
    <3> QED BY <3>2, <3>3, <3>4
  <2>8. \A y \in DOMAIN d.metrics \ Estimates(d.metrics, now) : y < now
    BY <1>1, <2>5 DEF Estimates, Yearly
  <2>9. Estimates(d.metrics, now) \subseteq DOMAIN d.metrics
    BY DEF Estimates
  <2> HIDE DEF s, u
  <2> QED BY <1>1, <2>1, <2>2, <2>3, <2>4, <2>5, <2>7, <2>8, <2>9 DEF SnapshotFits
<1>4. \A i \in DOMAIN snapshots' : i \in DOMAIN snapshots \/ (~NoDelta(d) /\ i = Len(snapshots) + 1)
  BY SnapshotAdded
<1> QED BY <1>2, <1>3, <1>4 DEF SnapshotsInv

LEMMA LoadKeepsRows ==
  ASSUME SignalsInv, NEW d, WellFormed(d), NEW tips, Load(d, tips)
  PROVE  TypeOK' /\ SequencesInv' /\ ScoresInv'
<1>1. IsSequence(Found(d, tips))
  BY LoadFinds
<1>2. Score(Found(d, tips)) \in 0..100
  BY <1>1, ScoreType
<1>3. ASSUME NEW u \in DOMAIN uploads'
      PROVE  uploads'[u].score = Score(uploads'[u].issues) /\ uploads'[u].score \in 0..100
  <2>1. CASE u \in DOMAIN uploads
    <3>1. uploads'[u] = uploads[u]
      BY <2>1, UploadAdded
    <3> QED BY <2>1, <3>1 DEF SignalsInv, ScoresInv, TypeOK
  <2>2. CASE u = Len(uploads) + 1
    <3>1. uploads'[u] = UploadRow(d, tips)
      BY <2>2, UploadAdded
    <3>2. UploadRow(d, tips).score = Score(Found(d, tips)) /\ UploadRow(d, tips).issues = Found(d, tips)
      BY DEF UploadRow
    <3> QED BY <1>2, <3>1, <3>2
  <2>3. u \in DOMAIN uploads \/ u = Len(uploads) + 1
    BY UploadAdded
  <2> QED BY <2>1, <2>2, <2>3
<1>4. IsSequence(uploads') /\ IsSequence(snapshots')
  BY UploadAdded, SnapshotAdded
<1>5. \A i \in DOMAIN snapshots' : snapshots'[i].upload \in DOMAIN uploads'
  BY LoadKeepsSnapshots DEF SnapshotsInv, SnapshotFits
<1>6. now' \in Now /\ rules' \in [Rule -> {"absent", "active", "inactive"}]
  BY DEF Load, SignalsInv, TypeOK
<1> QED BY <1>3, <1>4, <1>5, <1>6 DEF TypeOK, SequencesInv, ScoresInv

\* The actuals of earlier snapshots are of years before the current one.
LEMMA LoadKeepsActuals ==
  ASSUME SignalsInv, NEW d, WellFormed(d), NEW tips, Load(d, tips)
  PROVE  ActualsStayActual'
<1> SUFFICES ASSUME NEW j \in DOMAIN snapshots', NEW i \in 1..(j - 1)
             PROVE  snapshots'[j].estimates \cap DOMAIN snapshots'[i].metrics \subseteq snapshots'[i].estimates
  BY DEF ActualsStayActual
<1>1. CASE j \in DOMAIN snapshots
  <2>1. i \in DOMAIN snapshots
    BY <1>1, SnapshotAdded
  <2>2. snapshots'[i] = snapshots[i] /\ snapshots'[j] = snapshots[j]
    BY <1>1, <2>1, SnapshotAdded
  <2> QED BY <1>1, <2>2 DEF SignalsInv, ActualsStayActual
<1>2. CASE j \notin DOMAIN snapshots
  <2>1. ~NoDelta(d) /\ j = Len(snapshots) + 1 /\ i \in DOMAIN snapshots
    BY <1>2, SnapshotAdded
  <2>2. snapshots'[i] = snapshots[i] /\ snapshots'[j] = SnapshotRow(d)
    BY <2>1, SnapshotAdded
  <2>3. snapshots'[j].estimates = Estimates(d.metrics, now)
    BY <2>2 DEF SnapshotRow
  <2>4. SnapshotFits(snapshots[i], uploads, now)
    BY <2>1 DEF SignalsInv, SnapshotsInv
  <2>5. now \in Nat
    BY SignalsAssumption DEF SignalsInv, TypeOK
  <2>6. \A y \in Estimates(d.metrics, now) : y >= now
    BY DEF Estimates
  <2>7. \A y \in DOMAIN snapshots[i].metrics \ snapshots[i].estimates : y < now /\ y \in Nat
    BY <2>4 DEF SnapshotFits, Yearly
  <2> QED BY <2>2, <2>3, <2>5, <2>6, <2>7
<1> QED BY <1>1, <1>2

\* What is reported between two snapshots stays reported.
LEMMA SilentBefore ==
  ASSUME SignalsInv, NEW d, WellFormed(d), NEW tips, Load(d, tips),
         NEW i \in Nat, NEW j \in DOMAIN snapshots, i >= 1, i <= j
  PROVE  (\A k \in (i + 1)..j : Filing(uploads', snapshots'[k].upload, DriftTypes) = {}) => Silent(i, j)
<1> SUFFICES ASSUME \A k \in (i + 1)..j : Filing(uploads', snapshots'[k].upload, DriftTypes) = {},
                    NEW k \in (i + 1)..j
             PROVE  FiledUnder(snapshots[k].upload, DriftTypes) = {}
  BY DEF Silent
<1>1. k \in DOMAIN snapshots
  BY SnapshotAdded
<1>2. snapshots'[k] = snapshots[k] /\ snapshots[k].upload \in DOMAIN uploads
  BY <1>1, SnapshotAdded DEF SignalsInv, SnapshotsInv, SnapshotFits
<1>3. Filing(uploads', snapshots[k].upload, DriftTypes) = Filing(uploads, snapshots[k].upload, DriftTypes)
  BY <1>2, FiledAfter
<1> QED BY <1>2, <1>3 DEF Filing, FiledUnder

\* The drift that is filed with the new upload.
LEMMA DriftFiled ==
  ASSUME SignalsInv, NEW d, WellFormed(d), NEW tips, Load(d, tips), ~First
  PROVE  Filing(uploads', Len(uploads) + 1, DriftTypes) = ToSet(WeightDrift(Previous.segments, d.segments, tips))
<1>1. Filing(uploads', Len(uploads) + 1, DriftTypes) = {i \in ToSet(Found(d, tips)) : i.type \in DriftTypes}
  BY FiledAfter
<1>2. {i \in ToSet(Found(d, tips)) : i.type \in DriftTypes}
        = ToSet(WeightDrift(Previous.segments, d.segments, tips))
  BY LoadFinds
<1> QED BY <1>1, <1>2

\* By induction over the snapshots: another silent step adds one threshold.
LEMMA LoadKeepsDrift ==
  ASSUME SignalsInv, NEW d, WellFormed(d), NEW tips, Load(d, tips)
  PROVE  UnreportedDriftIsSmall'
<1> DEFINE ss == snapshots'
<1> SUFFICES ASSUME NEW j \in DOMAIN ss, NEW i \in 1..(j - 1),
                    \A k \in (i + 1)..j : Filing(uploads', ss[k].upload, DriftTypes) = {},
                    \A k \in i..j : ss[k].segments # <<>>,
                    NEW r \in Risks(ss[i].segments) \cup Risks(ss[j].segments)
             PROVE  Abs(WeightOf(ss[j].segments, r) - WeightOf(ss[i].segments, r)) <= 50 * (j - i)
  BY DEF UnreportedDriftIsSmall, Silent, Filing, FiledUnder
<1>1. i \in DOMAIN snapshots /\ snapshots'[i] = snapshots[i] /\ j \in Nat
  BY SnapshotAdded
<1>2. CASE j \in DOMAIN snapshots
  <2>1. i \in Nat /\ i >= 1 /\ i <= j
    BY <1>1
  <2>2. Silent(i, j)
    BY <1>2, <2>1, SilentBefore
  <2>3. \A k \in i..j : k \in DOMAIN snapshots /\ ss[k] = snapshots[k]
    BY <1>1, <1>2, SnapshotAdded
  <2>4. \A k \in i..j : snapshots[k].segments # <<>>
    BY <2>3
  <2>5. i \in i..j /\ j \in i..j
    BY <1>1
  <2>6. ss[i] = snapshots[i] /\ ss[j] = snapshots[j]
    BY <2>3, <2>5
  <2> HIDE DEF ss
  <2>7. Abs(WeightOf(snapshots[j].segments, r) - WeightOf(snapshots[i].segments, r)) <= 50 * (j - i)
    BY <1>2, <2>2, <2>4, <2>6 DEF SignalsInv, UnreportedDriftIsSmall
  <2> QED BY <2>6, <2>7
<1>3. CASE j \notin DOMAIN snapshots
  <2> DEFINE n == Len(snapshots)
             old == snapshots[n].segments
             first == snapshots[i].segments
  <2>1. /\ ~NoDelta(d) /\ n \in Nat /\ j = n + 1 /\ i \in 1..n /\ n \in DOMAIN snapshots
        /\ ss[n] = snapshots[n] /\ ss[j] = SnapshotRow(d)
    BY <1>3, SnapshotAdded
  <2>2. ~First /\ Previous = snapshots[n] /\ ss[j].segments = d.segments
    <3>1. snapshots # <<>>
      BY <2>1
    <3>2. SnapshotRow(d).segments = d.segments
      BY DEF SnapshotRow
    <3> QED BY <2>1, <3>1, <3>2, PreviousKnown DEF First
  <2>3. Segmented(old) /\ Segmented(first) /\ Segmented(d.segments)
    BY <2>1 DEF SignalsInv, SnapshotsInv, SnapshotFits, WellFormed, Segmented
  <2>4. ToSet(WeightDrift(old, d.segments, tips)) = {}
    <3>1. ss[j].upload = Len(uploads) + 1
      BY <2>1 DEF SnapshotRow
    <3>2. Filing(uploads', Len(uploads) + 1, DriftTypes) = ToSet(WeightDrift(old, d.segments, tips))
      BY <2>2, DriftFiled
    <3>3. j \in (i + 1)..j
      BY <2>1
    <3> QED BY <3>1, <3>2, <3>3
  <2>5. old # <<>>
    BY <2>1
  <2>6. Abs(WeightOf(d.segments, r) - WeightOf(old, r)) <= 50
    BY <2>3, <2>4, <2>5, SilentStep
  <2>7. Abs(WeightOf(old, r) - WeightOf(first, r)) <= 50 * (n - i)
    <3>1. CASE i = n
      BY <3>1, <2>1, <2>3, Weights DEF Abs
    <3>2. CASE i # n /\ r \in Risks(first) \cup Risks(old)
      <4>1. i \in 1..(n - 1)
        BY <2>1, <3>2
      <4>2. Silent(i, n)
        BY <2>1, SilentBefore
      <4>3. \A k \in i..n : snapshots[k].segments # <<>>
        <5> TAKE k \in i..n
        <5>1. k \in DOMAIN snapshots /\ k \in i..j
          BY <2>1, SnapshotAdded
        <5> QED BY <5>1, SnapshotAdded
      <4> QED BY <2>1, <3>2, <4>1, <4>2, <4>3 DEF SignalsInv, UnreportedDriftIsSmall
    <3>3. CASE r \notin Risks(first) \cup Risks(old)
      <4>1. WeightOf(old, r) = 0 /\ WeightOf(first, r) = 0
        BY <2>3, <3>3, Weights
      <4> QED BY <2>1, <4>1 DEF Abs
    <3> QED BY <3>1, <3>2, <3>3
  <2>8. WeightOf(d.segments, r) \in Int /\ WeightOf(old, r) \in Int /\ WeightOf(first, r) \in Int
    BY <2>3, Weights
  <2> HIDE DEF old, first
  <2>9. Abs(WeightOf(d.segments, r) - WeightOf(first, r))
          <= Abs(WeightOf(d.segments, r) - WeightOf(old, r)) + Abs(WeightOf(old, r) - WeightOf(first, r))
    BY <2>8, Triangle
  <2>10. /\ Abs(WeightOf(d.segments, r) - WeightOf(first, r)) \in Int
         /\ Abs(WeightOf(d.segments, r) - WeightOf(old, r)) \in Int
         /\ Abs(WeightOf(old, r) - WeightOf(first, r)) \in Int
    <3>1. \A a, b \in Int : Abs(b - a) \in Int
      BY DEF Abs
    <3> QED BY <2>8, <3>1
  <2>11. Abs(WeightOf(d.segments, r) - WeightOf(first, r)) <= 50 * (j - i)
    BY <2>1, <2>6, <2>7, <2>9, <2>10
  <2> QED BY <1>1, <2>2, <2>11 DEF first
<1> QED BY <1>2, <1>3

\* A load without a delta brings the segments of the previous snapshot.
LEMMA LoadKeepsQuiet ==
  ASSUME SignalsInv, NEW d, WellFormed(d), NEW tips, Load(d, tips)
  PROVE  NoDriftWithoutDelta'
<1>1. CASE NoDelta(d)
  <2>1. ~First /\ Previous.content = Content(d) /\ snapshots' = snapshots
    BY <1>1, SnapshotAdded DEF NoDelta
  <2>2. SnapshotFits(Previous, uploads, now)
    BY <2>1, PreviousKnown
  <2>3. Previous.segments = d.segments
    BY <2>1, <2>2 DEF SnapshotFits, Content
  <2> SUFFICES ASSUME Distinct(Previous.segments), NEW u \in DOMAIN uploads', u > Previous.upload
               PROVE  Filing(uploads', u, DriftTypes) = {}
    BY <2>1 DEF NoDriftWithoutDelta, Filing, FiledUnder, First, Previous
  <2>4. CASE u \in DOMAIN uploads
    <3>1. FiledUnder(u, DriftTypes) = {}
      BY <2>1, <2>4 DEF SignalsInv, NoDriftWithoutDelta
    <3>2. Filing(uploads', u, DriftTypes) = Filing(uploads, u, DriftTypes)
      BY <2>4, FiledAfter
    <3> QED BY <3>1, <3>2 DEF Filing, FiledUnder
  <2>5. CASE u = Len(uploads) + 1
    <3>1. Filing(uploads', Len(uploads) + 1, DriftTypes) = ToSet(WeightDrift(Previous.segments, d.segments, tips))
      BY <2>1, DriftFiled
    <3>2. ToSet(WeightDrift(Previous.segments, Previous.segments, tips)) = {}
      BY <2>2, NoStep DEF SnapshotFits
    <3> QED BY <2>3, <2>5, <3>1, <3>2
  <2> QED BY <2>4, <2>5, UploadAdded
<1>2. CASE ~NoDelta(d)
  <2>1. IsSequence(snapshots') /\ Len(snapshots') \in Nat /\ snapshots'[Len(snapshots')] = SnapshotRow(d)
    BY <1>2, SnapshotAdded
  <2>2. Previous' = SnapshotRow(d)
    BY <2>1 DEF Previous, Last
  <2>3. Previous'.upload = Len(uploads) + 1
    BY <2>2 DEF SnapshotRow
  <2>4. \A u \in DOMAIN uploads' : ~(u > Previous'.upload)
    BY <2>3, UploadAdded
  <2> QED BY <2>4 DEF NoDriftWithoutDelta
<1> QED BY <1>1, <1>2

LEMMA SignalsStep ==
  ASSUME NEW Workbook, \A d \in Workbook : WellFormed(d), SignalsInv, [Next(Workbook)]_vars
  PROVE  SignalsInv'
<1>1. now \in Nat /\ Now \subseteq Nat
  BY SignalsAssumption DEF SignalsInv, TypeOK
<1>2. ASSUME NEW r \in Rule, CreateRule(r) \/ DeactivateRule(r) PROVE SignalsInv'
  <2>1. UNCHANGED <<uploads, snapshots>> /\ now' \in Now /\ now' >= now
    BY <1>1, <1>2 DEF CreateRule, DeactivateRule, SignalsInv, TypeOK
  <2>2. rules' \in [Rule -> {"absent", "active", "inactive"}]
    BY <1>2 DEF CreateRule, DeactivateRule, SignalsInv, TypeOK
  <2> QED BY <2>1, <2>2, NothingLoaded
<1>3. ASSUME NextYear PROVE SignalsInv'
  BY <1>1, <1>3, NothingLoaded DEF NextYear, SignalsInv, TypeOK
<1>4. ASSUME NEW d \in Workbook, NEW tips, Load(d, tips) PROVE SignalsInv'
  BY <1>4, LoadKeepsRows, LoadKeepsSnapshots, LoadKeepsDrift, LoadKeepsQuiet, LoadKeepsActuals DEF SignalsInv
<1>5. ASSUME UNCHANGED vars PROVE SignalsInv'
  BY <1>1, <1>5, NothingLoaded DEF vars, SignalsInv, TypeOK
<1> QED BY <1>2, <1>3, <1>4, <1>5 DEF Next

-----------------------------------------------------------------------------
(* What follows from it *)

LEMMA MarksFollow == SignalsInv => MarksAreSound
<1> SUFFICES ASSUME SignalsInv, NEW s \in ToSet(snapshots)
             PROVE  /\ Full(s.metrics) =>
                         /\ \A y \in DOMAIN s.metrics :
                              s.metrics[y] = s.metrics[Max({x \in DOMAIN s.metrics \ s.stale : x <= y})]
                         /\ \A n \in Neighbours([y \in DOMAIN s.metrics \ s.stale |-> s.metrics[y]]) :
                              s.metrics[n[1]] # s.metrics[n[2]]
                    /\ \A y \in DOMAIN s.metrics : \A f \in Metric :
                         s.metrics[y][f] = NULL =>
                           \A v \in {s.metrics[x][f] : x \in DOMAIN s.metrics} \ {NULL} :
                             \A z \in Stale(Filled(s.metrics, y, f, v)) \ s.stale :
                               \E n \in Neighbours(s.metrics) :
                                 n[2] = z /\ Comparable(s.metrics[n[1]], s.metrics[n[2]]) = {}
  BY DEF MarksAreSound, StaleMarksAreSound, StaleYearsAddNothing, BlanksOnlyHide, SignalsInv
<1> DEFINE m == s.metrics
<1>1. Yearly(m) /\ s.stale = Stale(m)
  BY DEF SignalsInv, SnapshotsInv, SnapshotFits, ToSet
<1> HIDE DEF m
<1>2. ASSUME Full(m)
      PROVE  /\ \A y \in DOMAIN m : m[y] = m[Max({x \in DOMAIN m \ s.stale : x <= y})]
             /\ \A n \in Neighbours([y \in DOMAIN m \ s.stale |-> m[y]]) : m[n[1]] # m[n[2]]
  <2>1. \A y \in DOMAIN m : m[y] = m[LastKeptYear(m, y)]
    BY <1>1, <1>2, StaleRepeatsKept
  <2>2. \A n \in Neighbours([y \in KeptYears(m) |-> m[y]]) : m[n[1]] # m[n[2]]
    BY <1>1, <1>2, KeptSayMore
  <2> QED BY <1>1, <2>1, <2>2 DEF KeptYears, LastKeptYear
<1>3. ASSUME NEW y \in DOMAIN m, NEW f \in Metric, m[y][f] = NULL, NEW v, v # NULL,
             NEW z \in Stale(Filled(m, y, f, v)), z \notin s.stale
      PROVE  \E n \in Neighbours(m) : n[2] = z /\ Comparable(m[n[1]], m[n[2]]) = {}
  BY <1>1, <1>3, FilledMarks
<1>4. \A y \in DOMAIN m : \A f \in Metric :
        m[y][f] = NULL =>
          \A v \in {m[x][f] : x \in DOMAIN m} \ {NULL} :
            \A z \in Stale(Filled(m, y, f, v)) \ s.stale :
              \E n \in Neighbours(m) : n[2] = z /\ Comparable(m[n[1]], m[n[2]]) = {}
  <2> TAKE y \in DOMAIN m
  <2> TAKE f \in Metric
  <2> HAVE m[y][f] = NULL
  <2> TAKE v \in {m[x][f] : x \in DOMAIN m} \ {NULL}
  <2> TAKE z \in Stale(Filled(m, y, f, v)) \ s.stale
  <2>1. m[y][f] = NULL /\ v # NULL /\ z \in Stale(Filled(m, y, f, v)) /\ z \notin s.stale
    OBVIOUS
  <2> QED BY <1>3, <2>1
<1> QED BY <1>2, <1>4 DEF m

\* The trend of a metric over one snapshot is its column without the blanks.
LEMMA TrendOfOne ==
  ASSUME SignalsInv, Len(snapshots) = 1, NEW f, NEW g \in ByYear(f)
  PROVE  /\ DOMAIN g = {y \in DOMAIN Previous.metrics : Previous.metrics[y][f] # NULL}
         /\ \A y \in DOMAIN g : g[y] = Previous.metrics[y][f]
<1> DEFINE m == Previous.metrics
<1>1. ToSet(snapshots) = {Previous}
  <2>1. DOMAIN snapshots = 1..1
    BY DEF SignalsInv, SequencesInv, IsSequence
  <2>2. Previous = snapshots[1]
    BY DEF Previous, Last
  <2> QED BY <2>1, <2>2 DEF ToSet
<1>2. ASSUME NEW y PROVE ValuesOf(f, y) = IF y \in DOMAIN m THEN {m[y][f]} \ {NULL} ELSE {}
  <2>1. {t \in ToSet(snapshots) : y \in DOMAIN t.metrics} = IF y \in DOMAIN m THEN {Previous} ELSE {}
    BY <1>1
  <2> QED BY <2>1 DEF ValuesOf
<1>3. UNION {DOMAIN s.metrics : s \in ToSet(snapshots)} = DOMAIN m
  BY <1>1
<1> DEFINE years == {y \in UNION {DOMAIN s.metrics : s \in ToSet(snapshots)} : ValuesOf(f, y) # {}}
<1>4. DOMAIN g = years /\ \A y \in years : g[y] \in ValuesOf(f, y)
  BY DEF ByYear
<1> HIDE DEF m
<1>5. years = {y \in DOMAIN m : m[y][f] # NULL}
  BY <1>2, <1>3
<1> HIDE DEF years
<1>6. \A y \in DOMAIN g : g[y] = m[y][f]
  BY <1>2, <1>4, <1>5
<1> QED BY <1>4, <1>5, <1>6 DEF m

LEMMA CliffsFollow == SignalsInv => CliffsFit
<1> SUFFICES ASSUME SignalsInv PROVE CliffsFit
  OBVIOUS
<1>1. ASSUME NEW s \in ToSet(snapshots) PROVE s.stale \cap Cliffs(s.metrics, Headline) = {}
  <2>1. Yearly(s.metrics) /\ s.stale = Stale(s.metrics)
    BY DEF SignalsInv, SnapshotsInv, SnapshotFits, ToSet
  <2> QED BY <2>1, StaleIsNoCliff
<1>2. ASSUME Len(snapshots) = 1, NEW g \in ByYear(Headline), NEW tips
      PROVE  LET filed == {i.year : i \in FiledUnder(Previous.upload, {"metric_cliff"})}
             IN  /\ filed \subseteq TrendCliffs(g, tips)
                 /\ (DOMAIN g = DOMAIN Previous.metrics /\ \A y \in DOMAIN g : g[y] > 0) =>
                      \A n \in Neighbours(g) :
                        n[2] \in TrendCliffs(g, tips) \ filed => RoundsToHalf(g, n)
  <2> DEFINE m == Previous.metrics
             filed == {i.year : i \in FiledUnder(Previous.upload, {"metric_cliff"})}
             h == Headline
  <2>1. ~First
    <3>1. Len(<<>>) = 0
      OBVIOUS
    <3> QED BY <1>2, <3>1 DEF First
  <2>2. SnapshotFits(Previous, uploads, now)
    BY <2>1, PreviousKnown
  <2>3. Yearly(m) /\ filed = Cliffs(m, h)
    BY <2>2 DEF SnapshotFits, YearsFiled, Filing, FiledUnder
  <2>4. DOMAIN g = {y \in DOMAIN m : m[y][h] # NULL} /\ \A y \in DOMAIN g : g[y] = m[y][h]
    BY <1>2, TrendOfOne
  <2>5. h \in Metric
    BY SignalsAssumption
  <2> HIDE DEF m, filed, h
  <2>6. \A y \in DOMAIN g : g[y] \in Int
    BY <2>3, <2>4, <2>5 DEF Yearly
  <2>7. ASSUME NEW n \in Neighbours(m), n[1] \in DOMAIN g, n[2] \in DOMAIN g PROVE n \in Neighbours(g)
    BY <2>4, <2>7 DEF Neighbours
  <2>8. ASSUME NEW n \in Neighbours(m), h \in Comparable(m[n[1]], m[n[2]]), Falls(m[n[1]][h], m[n[2]][h])
        PROVE  n[2] \in TrendCliffs(g, tips)
    <3>1. n[1] \in DOMAIN g /\ n[2] \in DOMAIN g
      BY <2>4, <2>8 DEF Comparable, Neighbours
    <3>2. n \in Neighbours(g)
      BY <2>7, <3>1
    <3>3. g[n[1]] > 0 /\ 2 * g[n[2]] <= g[n[1]] /\ g[n[1]] \in Int /\ g[n[2]] \in Int
      BY <2>4, <2>6, <2>8, <3>1 DEF Falls
    <3>4. Fall(g, n) = g[n[1]] - g[n[2]] /\ Abs(g[n[1]]) = g[n[1]]
      BY <3>3 DEF Fall, Abs
    <3>5. g[n[1]] # 0 /\ 20000 * Fall(g, n) > 9999 * Abs(g[n[1]])
      BY <3>3, <3>4
    <3> QED BY <3>2, <3>5 DEF TrendCliffs
  <2>9. filed \subseteq TrendCliffs(g, tips)
    BY <2>3, <2>8 DEF Cliffs
  <2>10. ASSUME DOMAIN g = DOMAIN m, \A y \in DOMAIN g : g[y] > 0,
                NEW n \in Neighbours(g), n[2] \in TrendCliffs(g, tips) \ filed
         PROVE  RoundsToHalf(g, n)
    <3>1. n \in Neighbours(m) /\ n[1] \in DOMAIN g /\ n[2] \in DOMAIN g
      BY <2>10 DEF Neighbours
    <3>2. g[n[1]] > 0 /\ g[n[1]] \in Int /\ g[n[2]] \in Int
      BY <2>6, <2>10, <3>1
    <3>3. h \in Comparable(m[n[1]], m[n[2]])
      BY <2>4, <2>5, <3>1 DEF Comparable
    <3>4. ~(2 * g[n[2]] <= g[n[1]])
      <4>1. ~Falls(m[n[1]][h], m[n[2]][h])
        BY <2>3, <2>10, <3>1, <3>3 DEF Cliffs
      <4> QED BY <2>4, <3>1, <3>2, <4>1 DEF Falls
    <3>5. 20000 * Fall(g, n) >= 9999 * Abs(g[n[1]])
      <4>1. PICK k \in Neighbours(g) : k[2] = n[2] /\ 20000 * Fall(g, k) >= 9999 * Abs(g[k[1]])
        <5>1. PICK k \in Neighbours(g) : /\ k[2] = n[2] /\ g[k[1]] # 0
                                         /\ \/ 20000 * Fall(g, k) > 9999 * Abs(g[k[1]])
                                            \/ 20000 * Fall(g, k) = 9999 * Abs(g[k[1]])
          BY <2>10 DEF TrendCliffs
        <5>2. k[1] \in DOMAIN g /\ k[2] \in DOMAIN g /\ g[k[1]] \in Int /\ g[k[2]] \in Int
          BY <2>6 DEF Neighbours
        <5>3. Fall(g, k) \in Int /\ Abs(g[k[1]]) \in Int
          BY <5>2 DEF Fall, Abs
        <5> QED BY <5>1, <5>3
      <4>2. k[1] = n[1]
        <5>1. DOMAIN g \subseteq Nat
          BY <2>3, <2>10 DEF Yearly
        <5>2. /\ k[1] \in Nat /\ n[1] \in Nat /\ k[1] \in DOMAIN g /\ n[1] \in DOMAIN g
              /\ k[1] < k[2] /\ n[1] < n[2]
              /\ ~\E y \in DOMAIN g : n[1] < y /\ y < n[2]
              /\ ~\E y \in DOMAIN g : k[1] < y /\ y < k[2]
          BY <5>1 DEF Neighbours
        <5> QED BY <4>1, <5>2
      <4>3. Fall(g, k) = Fall(g, n)
        BY <4>1, <4>2 DEF Fall
      <4> QED BY <4>1, <4>2, <4>3
    <3>6. Fall(g, n) = g[n[1]] - g[n[2]] /\ Abs(g[n[1]]) = g[n[1]]
      BY <3>2 DEF Fall, Abs
    <3>7. 2 * Fall(g, n) < g[n[1]]
      BY <3>2, <3>4, <3>6
    <3> QED BY <3>5, <3>6, <3>7 DEF RoundsToHalf
  <2> QED BY <2>9, <2>10 DEF filed, m
<1> QED BY <1>1, <1>2 DEF CliffsFit

LEMMA FiledFollows == SignalsInv => SignalsAreFiled
<1> SUFFICES ASSUME SignalsInv, NEW s \in ToSet(snapshots)
             PROVE  s.stale = {i.year : i \in FiledUnder(s.upload, {"stale_data"})}
  BY DEF SignalsAreFiled, SignalsInv, ScoresInv
<1> QED BY DEF SignalsInv, SnapshotsInv, SnapshotFits, ToSet, YearsFiled, Filing, FiledUnder

-----------------------------------------------------------------------------
(* Theorems *)

\* The invariant holds for every set of workbooks that can be extracted.
THEOREM SignalsHold ==
  ASSUME NEW Workbook, \A d \in Workbook : WellFormed(d)
  PROVE  Spec(Workbook) => []SignalsInv
<1>1. Init => SignalsInv
  BY SignalsInit
<1>2. SignalsInv /\ [Next(Workbook)]_vars => SignalsInv'
  BY SignalsStep
<1> QED BY <1>1, <1>2, PTL DEF Spec

\* The score of an upload is that of its issues, signals included, and the
\* stale flags of a snapshot are those its upload has an issue for.
THEOREM Filed ==
  ASSUME NEW Workbook, \A d \in Workbook : WellFormed(d)
  PROVE  Spec(Workbook) => []SignalsAreFiled
BY SignalsHold, FiledFollows, PTL

\* A weight can only have crept where no drift was reported, and a file
\* without a delta reports none.
THEOREM Drift ==
  ASSUME NEW Workbook, \A d \in Workbook : WellFormed(d)
  PROVE  Spec(Workbook) => []DriftIsReported
<1>1. SignalsInv => DriftIsReported
  BY DEF SignalsInv, DriftIsReported
<1> QED BY <1>1, SignalsHold, PTL

\* Actuals stay actual, and stale years can be dropped.
THEOREM Marks ==
  ASSUME NEW Workbook, \A d \in Workbook : WellFormed(d)
  PROVE  Spec(Workbook) => []MarksAreSound
BY SignalsHold, MarksFollow, PTL

\* What the load of the only snapshot reports as a cliff, the endpoint shows;
\* over values above zero without gaps it shows besides only falls that rounding
\* makes half.  No cliff is stale.
THEOREM TrendShowsCliffs ==
  ASSUME NEW Workbook, \A d \in Workbook : WellFormed(d)
  PROVE  Spec(Workbook) => []CliffsFit
BY SignalsHold, CliffsFollow, PTL

-----------------------------------------------------------------------------
(* Grades *)

LEMMA ScaleType == /\ Len(Ratings!RATING_SCALE) = 23 /\ DOMAIN Ratings!RATING_SCALE = 1..23
                   /\ Ratings!Last = 22
BY DEF Ratings!RATING_SCALE, Ratings!Last

\* A grade is the one at its position.
LEMMA GradeIndex ==
  ASSUME NEW r \in Ratings!Grade
  PROVE  Ratings!Index(r) \in 0..Ratings!Last /\ Ratings!Rated(Ratings!Index(r)) = r
<1> DEFINE P(i) == i \in DOMAIN Ratings!RATING_SCALE /\ Ratings!RATING_SCALE[i] = r
<1>1. \E i : P(i)
  BY DEF Ratings!Grade
<1>2. P(CHOOSE i : P(i))
  BY <1>1
<1> DEFINE c == CHOOSE i \in DOMAIN Ratings!RATING_SCALE : Ratings!RATING_SCALE[i] = r
<1>3. c \in DOMAIN Ratings!RATING_SCALE /\ Ratings!RATING_SCALE[c] = r
  BY <1>1
<1>4. Ratings!Index(r) = c - 1
  BY DEF Ratings!Index
<1> HIDE DEF c
<1>5. (c - 1) + 1 = c /\ c - 1 \in 0..22
  BY <1>3, ScaleType
<1> QED BY <1>3, <1>4, <1>5, ScaleType DEF Ratings!Rated

\* The functions Min and Max of the instance are those of here.
LEMMA InstanceMax == \A S : Ratings!Max(S) = Max(S) /\ Ratings!Min(S) = Min(S)
BY DEF Ratings!Max, Max, Ratings!Min, Min

LEMMA PairMax ==
  ASSUME NEW i \in Int, NEW j \in Int
  PROVE  /\ Ratings!Max({i, j}) = IF i <= j THEN j ELSE i
         /\ Ratings!Min({i, j}) = IF i <= j THEN i ELSE j
<1> DEFINE S == {i, j}
<1>1. CASE i <= j
  <2>1. S \subseteq Int /\ i \in S /\ j \in S /\ (\A x \in S : x <= j) /\ (\A x \in S : i <= x)
    BY <1>1
  <2> HIDE DEF S
  <2>2. Max(S) = j /\ Min(S) = i
    BY <2>1, MaxIs, MinIs
  <2> QED BY <1>1, <2>2, InstanceMax DEF S
<1>2. CASE ~(i <= j)
  <2>1. S \subseteq Int /\ i \in S /\ j \in S /\ (\A x \in S : x <= i) /\ (\A x \in S : j <= x)
    BY <1>2
  <2> HIDE DEF S
  <2>2. Max(S) = i /\ Min(S) = j
    BY <2>1, MaxIs, MinIs
  <2> QED BY <1>2, <2>2, InstanceMax DEF S
<1> QED BY <1>1, <1>2

LEMMA ClampIs ==
  ASSUME NEW i \in Int
  PROVE  Ratings!Clamp(i) = IF i < 0 THEN 0 ELSE IF i > 22 THEN 22 ELSE i
<1>1. Ratings!Min({Ratings!Last, i}) = IF 22 <= i THEN 22 ELSE i
  <2>1. Ratings!Last \in Int /\ Ratings!Last = 22
    BY ScaleType
  <2> QED BY <2>1, PairMax
<1> DEFINE m == IF 22 <= i THEN 22 ELSE i
<1>2. m \in Int
  OBVIOUS
<1> HIDE DEF m
<1>3. Ratings!Max({0, m}) = IF 0 <= m THEN m ELSE 0
  BY <1>2, PairMax
<1>4. Ratings!Clamp(i) = Ratings!Max({0, m})
  BY <1>1 DEF Ratings!Clamp, m
<1> QED BY <1>3, <1>4 DEF m

LEMMA ClampType == \A i \in Int : Ratings!Clamp(i) \in 0..Ratings!Last
BY ClampIs, ScaleType

LEMMA RatedType == \A i \in 0..Ratings!Last : Ratings!Rated(i) \in Ratings!Grade
<1> TAKE i \in 0..Ratings!Last
<1>1. i + 1 \in DOMAIN Ratings!RATING_SCALE
  BY ScaleType
<1> QED BY <1>1 DEF Ratings!Rated, Ratings!Grade

LEMMA MatrixGrades == \A m \in Ratings!COMBINATION_MATRIX : m[3] \in Ratings!Grade
<1>1. \A r \in {"AAA", "AA+", "AA", "AA-", "A", "A-", "BBB", "BBB-", "BB+", "BB", "BB-", "B",
                "CCC+", "CCC", "CCC-", "CC", "C"} : r \in Ratings!Grade
  BY ScaleType DEF Ratings!Grade, Ratings!RATING_SCALE
<1> QED BY <1>1 DEF Ratings!COMBINATION_MATRIX

LEMMA ClampedType == \A i \in Int : Ratings!Rated(Ratings!Clamp(i)) \in Ratings!Grade
BY ClampType, RatedType

\* An anchor is a grade, or none.
LEMMA AnchorType ==
  ASSUME NEW b \in Profile, NEW f \in Profile
  PROVE  Ratings!Anchor(b, f) \in Ratings!Grade \cup {NULL}
<1>1. Profile \subseteq Ratings!Grade \cup {NULL, Other}
  BY RatingConstants DEF Ratings!RatingAssumption
<1>2. CASE NULL \in {b, f}
  BY <1>2 DEF Ratings!Anchor
<1>3. CASE NULL \notin {b, f} /\ Ratings!Exact(b, f) # {}
  <2>1. Ratings!Anchor(b, f) = (CHOOSE m \in Ratings!Exact(b, f) : TRUE)[3]
    BY <1>3 DEF Ratings!Anchor
  <2>2. (CHOOSE m \in Ratings!Exact(b, f) : TRUE) \in Ratings!COMBINATION_MATRIX
    BY <1>3 DEF Ratings!Exact
  <2> QED BY <2>1, <2>2, MatrixGrades
<1>4. CASE NULL \notin {b, f} /\ Ratings!Exact(b, f) = {} /\ Other \in {b, f}
  BY <1>4 DEF Ratings!Anchor
<1>5. CASE NULL \notin {b, f} /\ Ratings!Exact(b, f) = {} /\ Other \notin {b, f}
  <2>1. b \in Ratings!Grade /\ f \in Ratings!Grade
    BY <1>1, <1>5
  <2>2. Ratings!Index(b) \in Int /\ Ratings!Index(f) \in Int
    BY <2>1, GradeIndex, ScaleType
  <2>3. Ratings!Blend(Ratings!Index(b), Ratings!Index(f)) \in Int
    BY <2>2 DEF Ratings!Blend
  <2>4. Ratings!Anchor(b, f) = Ratings!Rated(Ratings!Clamp(Ratings!Blend(Ratings!Index(b), Ratings!Index(f))))
    BY <1>5 DEF Ratings!Anchor
  <2> QED BY <2>3, <2>4, ClampedType
<1> QED BY <1>2, <1>3, <1>4, <1>5

\* A derived rating is a grade, or none.
LEMMA FinalType ==
  ASSUME NEW b \in Profile, NEW f \in Profile, NEW a \in Adjustment
  PROVE  Ratings!Final(b, f, a) \in Ratings!Grade \cup {NULL}
<1>1. CASE Ratings!Anchor(b, f) = NULL
  BY <1>1 DEF Ratings!Final
<1>2. CASE Ratings!Anchor(b, f) # NULL
  <2>1. Ratings!Index(Ratings!Anchor(b, f)) \in Int
    BY AnchorType, <1>2, GradeIndex, ScaleType
  <2>2. Ratings!Notches(a) \in Int
    BY RatingConstants DEF Ratings!RatingAssumption, Ratings!Notches
  <2>3. Ratings!Index(Ratings!Anchor(b, f)) - Ratings!Notches(a) \in Int
    BY <2>1, <2>2
  <2>4. Ratings!Final(b, f, a)
          = Ratings!Rated(Ratings!Clamp(Ratings!Index(Ratings!Anchor(b, f)) - Ratings!Notches(a)))
    BY <1>2 DEF Ratings!Final, Ratings!ApplyNotches
  <2> QED BY <2>3, <2>4, ClampedType
<1> QED BY <1>1, <1>2

-----------------------------------------------------------------------------
(* Migrations *)

\* Each migration says what it should of where it comes from and goes to.
MigrationFits(m) ==
  /\ m.from \in Ratings!Grade \cup {NULL} /\ m.to \in Ratings!Grade /\ m.from # m.to
  /\ m.direction = Ratings!Direction(m.from, m.to)
  /\ m.notches = IF m.from = NULL THEN 0 ELSE Ratings!NotchesBetween(m.from, m.to)

\* It comes from where the one before it went, unless there was a gap.
Linked == \A i \in DOMAIN migrations :
            migrations[i].from # NULL => i - 1 \in DOMAIN migrations /\ migrations[i].from = migrations[i - 1].to

MigrationsInv ==
  /\ IsSequence(migrations) /\ final \in Ratings!Grade \cup {NULL}
  /\ \A i \in DOMAIN migrations : MigrationFits(migrations[i])
  /\ Linked
  /\ Ratings!MigrationsEndAtRating

LEMMA MigrationsStart == Ratings!Init => MigrationsInv
<1> SUFFICES ASSUME Ratings!Init PROVE MigrationsInv
  OBVIOUS
<1>1. migrations = <<>> /\ DOMAIN migrations = {} /\ final = NULL
  BY DEF Ratings!Init
<1>2. IsSequence(<<>>)
  BY NoIssues DEF OfTypes
<1> QED BY <1>1, <1>2 DEF MigrationsInv, Linked, Ratings!MigrationsEndAtRating

LEMMA MigrationsLoad ==
  ASSUME MigrationsInv, NEW b \in Profile, NEW f \in Profile, NEW a \in Adjustment, Ratings!Load(b, f, a)
  PROVE  MigrationsInv'
<1> DEFINE new == Ratings!Final(b, f, a)
           m == Ratings!Migration(new)
<1>1. new \in Ratings!Grade \cup {NULL} /\ final' = new
  BY FinalType DEF Ratings!Load
<1>2. CASE ~Ratings!Moves(new)
  <2>1. migrations' = migrations
    BY <1>2 DEF Ratings!Load
  <2>2. new = NULL \/ new = final
    BY <1>2 DEF Ratings!Moves
  <2> HIDE DEF new
  <2>3. Ratings!MigrationsEndAtRating'
    BY <1>1, <2>1, <2>2 DEF MigrationsInv, Ratings!MigrationsEndAtRating
  <2> QED BY <1>1, <2>1, <2>3 DEF MigrationsInv, Linked
<1>3. CASE Ratings!Moves(new)
  <2>1. migrations' = Append(migrations, m)
    BY <1>3 DEF Ratings!Load
  <2>2. IsSequence(migrations)
    BY DEF MigrationsInv
  <2> DEFINE n == Len(migrations)
             Longer == Append(migrations, m)
  <2>3. /\ IsSequence(Longer) /\ n \in Nat /\ DOMAIN migrations = 1..n
        /\ DOMAIN Longer = 1..(n + 1) /\ Len(Longer) = n + 1
        /\ Longer[n + 1] = m
        /\ \A i \in 1..n : Longer[i] = migrations[i]
    BY <2>2, OneMore
  <2>4. m.from = final /\ m.to = new /\ MigrationFits(m)
    BY <1>1, <1>3 DEF MigrationsInv, Ratings!Moves, Ratings!Migration, MigrationFits
  <2>5. final # NULL => n \in DOMAIN migrations /\ migrations[n].to = final
    BY <2>3 DEF MigrationsInv, Ratings!MigrationsEndAtRating
  <2> HIDE DEF m, Longer, new
  <2>6. \A i \in DOMAIN Longer : i \in DOMAIN migrations \/ i = n + 1
    BY <2>3
  <2>7. \A i \in DOMAIN Longer : MigrationFits(Longer[i])
    BY <2>3, <2>4, <2>6 DEF MigrationsInv
  <2>8. ASSUME NEW i \in DOMAIN Longer, Longer[i].from # NULL
        PROVE  i - 1 \in DOMAIN Longer /\ Longer[i].from = Longer[i - 1].to
    <3>1. CASE i \in DOMAIN migrations
      <4>1. i - 1 \in DOMAIN migrations /\ migrations[i].from = migrations[i - 1].to
        BY <2>3, <2>8, <3>1 DEF MigrationsInv, Linked
      <4> QED BY <2>3, <3>1, <4>1
    <3>2. CASE i = n + 1
      <4>1. final # NULL
        BY <2>3, <2>4, <2>8, <3>2
      <4>2. n \in DOMAIN migrations /\ i - 1 = n
        BY <2>3, <2>5, <3>2, <4>1
      <4> QED BY <2>3, <2>4, <2>5, <3>2, <4>1, <4>2
    <3> QED BY <2>6, <3>1, <3>2
  <2>9. Longer # <<>> /\ Longer[Len(Longer)].to = new
    BY <2>3, <2>4
  <2>10. migrations' = Longer
    BY <2>1 DEF Longer
  <2> QED BY <1>1, <2>3, <2>7, <2>8, <2>9, <2>10 DEF MigrationsInv, Linked, Ratings!MigrationsEndAtRating
<1> QED BY <1>2, <1>3

LEMMA DirectionsFollow == MigrationsInv => Ratings!DirectionsAgree
<1> SUFFICES ASSUME MigrationsInv, NEW i \in DOMAIN migrations
             PROVE  /\ migrations[i].direction = "upgrade" <=> migrations[i].notches > 0
                    /\ migrations[i].direction = "downgrade" <=> migrations[i].notches < 0
  BY DEF Ratings!DirectionsAgree
<1> DEFINE m == migrations[i]
<1>1. MigrationFits(m)
  BY DEF MigrationsInv
<1> HIDE DEF m
<1>2. CASE m.from = NULL
  BY <1>1, <1>2 DEF MigrationFits, Ratings!Direction, m
<1>3. CASE m.from # NULL
  <2>1. /\ m.from \in Ratings!Grade /\ m.to \in Ratings!Grade /\ m.from # m.to
        /\ m.notches = Ratings!Index(m.from) - Ratings!Index(m.to)
    BY <1>1, <1>3 DEF MigrationFits, Ratings!NotchesBetween
  <2>2. Ratings!Index(m.from) \in Int /\ Ratings!Index(m.to) \in Int
    BY <2>1, GradeIndex, ScaleType
  <2>3. Ratings!Index(m.from) # Ratings!Index(m.to)
    BY <2>1, GradeIndex
  <2>4. m.direction = IF m.notches > 0 THEN "upgrade" ELSE "downgrade"
    BY <1>1, <1>3, <2>1 DEF MigrationFits, Ratings!Direction, Ratings!NotchesBetween
  <2>5. m.notches \in Int /\ m.notches # 0
    BY <2>1, <2>2, <2>3
  <2> QED BY <2>4, <2>5 DEF m
<1> QED BY <1>2, <1>3

\* The recursive function of WayTo exists, by induction over its domain.
LEMMA WayByStep ==
  ASSUME NEW n \in Nat, Ratings!FirstOf(n) \in Nat \ {0}
  PROVE  \E w : /\ Ratings!WayTo(n) = w[n]
                /\ \A i \in 0..n : w[i] = IF i < Ratings!FirstOf(n) THEN 0 ELSE w[i - 1] + migrations[i].notches
<1> DEFINE first == Ratings!FirstOf(n)
           Step(w, i) == IF i < first THEN 0 ELSE w[i - 1] + migrations[i].notches
           Upto == {k \in Nat : \E w : w = [i \in 0..k |-> Step(w, i)]}
<1>1. 0 \in Upto
  <2> DEFINE w == [i \in 0..0 |-> 0]
  <2>1. w = [i \in 0..0 |-> Step(w, i)]
    OBVIOUS
  <2> QED BY <2>1
<1>2. ASSUME NEW k \in Nat, k \in Upto PROVE k + 1 \in Upto
  <2>1. PICK w : w = [i \in 0..k |-> Step(w, i)]
    BY <1>2
  <2> DEFINE v == [i \in 0..(k + 1) |-> IF i <= k THEN w[i] ELSE Step(w, i)]
  <2>2. ASSUME NEW i \in 0..(k + 1) PROVE v[i] = Step(v, i)
    <3>1. i # 0 => i - 1 \in 0..k /\ v[i - 1] = w[i - 1]
      OBVIOUS
    <3>2. Step(v, i) = Step(w, i)
      <4>1. i < first \/ i # 0
        OBVIOUS
      <4> HIDE DEF v, first
      <4> QED BY <3>1, <4>1
    <3> HIDE DEF Step
    <3>3. i <= k => w[i] = Step(w, i)
      BY <2>1
    <3> QED BY <3>2, <3>3
  <2>3. v = [i \in 0..(k + 1) |-> Step(v, i)]
    <3>1. v = [i \in 0..(k + 1) |-> v[i]]
      OBVIOUS
    <3> HIDE DEF v, Step
    <3> QED BY <2>2, <3>1
  <2> HIDE DEF v, Step
  <2> QED BY <2>3
<1>3. n \in Upto
  <2> HIDE DEF Upto
  <2> QED BY <1>1, <1>2, Successors
<1>4. PICK v : v = [i \in 0..n |-> Step(v, i)]
  BY <1>3
<1> DEFINE C == CHOOSE w : w = [i \in 0..n |-> Step(w, i)]
<1>5. C = [i \in 0..n |-> Step(C, i)]
  BY <1>4
<1>6. Ratings!WayTo(n) = C[n]
  BY DEF Ratings!WayTo
<1> HIDE DEF C
<1>7. \A i \in 0..n : C[i] = Step(C, i)
  BY <1>5
<1> QED BY <1>6, <1>7

LEMMA TelescopeFollows == MigrationsInv => Ratings!MigrationsTelescope
<1> SUFFICES ASSUME MigrationsInv, NEW n \in DOMAIN migrations
             PROVE  Ratings!WayTo(n) = Ratings!Index(migrations[Ratings!FirstOf(n)].to)
                                         - Ratings!Index(migrations[n].to)
  BY DEF Ratings!MigrationsTelescope
<1> DEFINE first == Ratings!FirstOf(n)
           S == {i \in 1..n : migrations[i].direction = "new"}
           Ix(i) == Ratings!Index(migrations[i].to)
<1>1. n \in Nat /\ n >= 1 /\ \A i \in 1..n : i \in DOMAIN migrations
  BY DEF MigrationsInv, IsSequence
<1>2. ASSUME NEW i \in 1..n PROVE MigrationFits(migrations[i]) /\ Ix(i) \in Int
  <2>1. MigrationFits(migrations[i])
    BY <1>1 DEF MigrationsInv
  <2> QED BY <2>1, GradeIndex, ScaleType DEF MigrationFits
<1>3. ASSUME NEW i \in 1..n
      PROVE  migrations[i].direction = "new" <=> migrations[i].from = NULL
  BY <1>2 DEF MigrationFits, Ratings!Direction
<1>4. 1 \in S
  <2>1. 0 \notin DOMAIN migrations
    BY DEF MigrationsInv, IsSequence
  <2>2. migrations[1].from = NULL
    BY <1>1, <2>1 DEF MigrationsInv, Linked
  <2> QED BY <1>1, <1>3, <2>2
<1>5. first = Max(S)
  BY DEF Ratings!FirstOf, Ratings!Max, Max
<1>6. first \in S /\ \A i \in S : i <= first
  <2>1. S \subseteq 1..n /\ S # {}
    BY <1>4
  <2> HIDE DEF S, first
  <2> QED BY <1>1, <1>5, <2>1, Greatest
<1>7. first \in Nat \ {0} /\ first <= n /\ migrations[first].notches = 0
  <2>1. first \in 1..n /\ migrations[first].from = NULL
    BY <1>3, <1>6
  <2> QED BY <1>2, <2>1 DEF MigrationFits
<1>8. PICK w : /\ Ratings!WayTo(n) = w[n]
               /\ \A i \in 0..n : w[i] = IF i < first THEN 0 ELSE w[i - 1] + migrations[i].notches
  BY <1>1, <1>7, WayByStep
<1> HIDE DEF first
<1> DEFINE Right == {k \in Nat : first + k <= n => w[first + k] = Ix(first) - Ix(first + k)}
<1>9. 0 \in Right
  <2>1. w[first] = w[first - 1] + migrations[first].notches /\ w[first - 1] = 0
    <3>1. first \in 0..n /\ first - 1 \in 0..n
      BY <1>1, <1>7
    <3> QED BY <1>7, <1>8, <3>1
  <2>2. w[first] = 0 /\ Ix(first) \in Int
    BY <1>2, <1>6, <1>7, <2>1
  <2> HIDE DEF Ix
  <2> QED BY <1>7, <2>2
<1>10. ASSUME NEW k \in Nat, k \in Right PROVE k + 1 \in Right
  <2> DEFINE j == first + (k + 1)
  <2> SUFFICES ASSUME j <= n PROVE w[j] = Ix(first) - Ix(j)
    OBVIOUS
  <2>1. j \in 1..n /\ j - 1 \in 1..n /\ j - 1 = first + k /\ j > first
    BY <1>1, <1>7
  <2>2. w[j - 1] = Ix(first) - Ix(j - 1)
    BY <1>10, <2>1
  <2>3. migrations[j].from # NULL
    <3>1. j \notin S
      BY <1>6, <1>7, <2>1
    <3> QED BY <1>3, <2>1, <3>1
  <2>4. migrations[j].from = migrations[j - 1].to
    BY <1>1, <2>1, <2>3 DEF MigrationsInv, Linked
  <2>5. migrations[j].notches = Ix(j - 1) - Ix(j)
    BY <1>2, <2>1, <2>3, <2>4 DEF MigrationFits, Ratings!NotchesBetween
  <2>6. w[j] = w[j - 1] + migrations[j].notches
    BY <1>7, <1>8, <2>1
  <2>7. Ix(first) \in Int /\ Ix(j) \in Int /\ Ix(j - 1) \in Int
    BY <1>2, <1>6, <2>1
  <2> HIDE DEF Ix, j
  <2> QED BY <2>2, <2>5, <2>6, <2>7
<1> HIDE DEF Right
<1>11. n - first \in Right
  BY <1>1, <1>7, <1>9, <1>10, Successors
<1> QED BY <1>1, <1>7, <1>8, <1>11 DEF Right, first

\* The migrations of a company account for the whole way of its rating, for
\* any profiles and adjustments and any number of loads.
THEOREM Migrations == Ratings!Spec => []MigrationsAddUp
<1>1. Ratings!Init => MigrationsInv
  BY MigrationsStart
<1>2. MigrationsInv /\ [Ratings!Next]_Ratings!vars => MigrationsInv'
  <2> SUFFICES ASSUME MigrationsInv, [Ratings!Next]_Ratings!vars PROVE MigrationsInv'
    OBVIOUS
  <2>1. CASE Ratings!Next
    BY <2>1, MigrationsLoad DEF Ratings!Next
  <2>2. CASE UNCHANGED Ratings!vars
    BY <2>2 DEF Ratings!vars, MigrationsInv, Linked, Ratings!MigrationsEndAtRating
  <2> QED BY <2>1, <2>2
<1>3. MigrationsInv => MigrationsAddUp
  BY TelescopeFollows, DirectionsFollow
    DEF MigrationsInv, MigrationsAddUp, Ratings!MigrationsAddUp
<1> QED BY <1>1, <1>2, <1>3, PTL DEF Ratings!Spec

-----------------------------------------------------------------------------
(* Anchors and adjustments *)

LEMMA ScaleDistinct ==
  \A i, j \in 1..23 : Ratings!RATING_SCALE[i] = Ratings!RATING_SCALE[j] => i = j
BY DEF Ratings!RATING_SCALE

LEMMA IndexOfRated == \A i \in 0..22 : Ratings!Index(Ratings!Rated(i)) = i
<1> TAKE i \in 0..22
<1>1. Ratings!Rated(i) \in Ratings!Grade
  BY RatedType, ScaleType
<1>2. /\ Ratings!Index(Ratings!Rated(i)) \in 0..22
      /\ Ratings!Rated(Ratings!Index(Ratings!Rated(i))) = Ratings!Rated(i)
  BY <1>1, GradeIndex, ScaleType
<1> DEFINE k == Ratings!Index(Ratings!Rated(i))
<1>3. k + 1 \in 1..23 /\ i + 1 \in 1..23 /\ Ratings!RATING_SCALE[k + 1] = Ratings!RATING_SCALE[i + 1]
  BY <1>2 DEF Ratings!Rated
<1> HIDE DEF k
<1>4. k + 1 = i + 1
  BY <1>3, ScaleDistinct
<1>5. k \in Int
  BY <1>2 DEF k
<1> QED BY <1>4, <1>5 DEF k

\* The positions of the grades of the matrix.
LEMMA Positions ==
  /\ Ratings!Index("AAA") = 0 /\ Ratings!Index("AA+") = 1 /\ Ratings!Index("AA") = 2
  /\ Ratings!Index("AA-") = 3 /\ Ratings!Index("A") = 5 /\ Ratings!Index("A-") = 6
  /\ Ratings!Index("BBB") = 8 /\ Ratings!Index("BBB-") = 9 /\ Ratings!Index("BB+") = 10
  /\ Ratings!Index("BB") = 11 /\ Ratings!Index("BB-") = 12 /\ Ratings!Index("B+") = 13
  /\ Ratings!Index("B") = 14 /\ Ratings!Index("CCC+") = 16 /\ Ratings!Index("CCC") = 17
  /\ Ratings!Index("CCC-") = 18 /\ Ratings!Index("CC") = 19 /\ Ratings!Index("C") = 20
<1>1. /\ Ratings!Rated(0) = "AAA" /\ Ratings!Rated(1) = "AA+" /\ Ratings!Rated(2) = "AA"
      /\ Ratings!Rated(3) = "AA-" /\ Ratings!Rated(5) = "A" /\ Ratings!Rated(6) = "A-"
      /\ Ratings!Rated(8) = "BBB" /\ Ratings!Rated(9) = "BBB-" /\ Ratings!Rated(10) = "BB+"
      /\ Ratings!Rated(11) = "BB" /\ Ratings!Rated(12) = "BB-" /\ Ratings!Rated(13) = "B+"
      /\ Ratings!Rated(14) = "B" /\ Ratings!Rated(16) = "CCC+" /\ Ratings!Rated(17) = "CCC"
      /\ Ratings!Rated(18) = "CCC-" /\ Ratings!Rated(19) = "CC" /\ Ratings!Rated(20) = "C"
  BY DEF Ratings!Rated, Ratings!RATING_SCALE
<1> QED BY <1>1, IndexOfRated

\* The anchor as a function of positions: the blend, but for six entries of
\* the matrix.  The other entries say what the blend says.
AnchorIndex(i, j) ==
  IF i = 0 /\ j = 1 THEN 0 ELSE IF i = 2 /\ j = 5 THEN 3 ELSE IF i = 5 /\ j = 8 THEN 6
  ELSE IF i = 13 /\ j = 20 THEN 16 ELSE IF i = 14 /\ j = 20 THEN 18 ELSE IF i = 17 /\ j = 19 THEN 19
  ELSE (i + j + 1) \div 2

LEMMA MatrixIndex ==
  \A m \in Ratings!COMBINATION_MATRIX :
    Ratings!Index(m[3]) = AnchorIndex(Ratings!Index(m[1]), Ratings!Index(m[2]))
<1> USE Positions DEF AnchorIndex
<1> TAKE m \in Ratings!COMBINATION_MATRIX
<1> DEFINE Fits == Ratings!Index(m[3]) = AnchorIndex(Ratings!Index(m[1]), Ratings!Index(m[2]))
<1>1. m \in { <<"AAA", "AAA", "AAA">>, <<"AAA", "AA+", "AAA">>, <<"AAA", "AA", "AA+">>,
              <<"AA", "AA", "AA">>, <<"AA", "A", "AA-">> } => Fits
  OBVIOUS
<1>2. m \in { <<"A", "A", "A">>, <<"A", "BBB", "A-">>, <<"BBB", "BBB", "BBB">>,
              <<"BBB", "BB+", "BBB-">>, <<"BBB", "BB", "BB+">>, <<"BBB-", "BB", "BB+">> } => Fits
  OBVIOUS
<1>3. m \in { <<"BB", "BB", "BB">>, <<"BB", "B+", "BB-">>, <<"B+", "B", "B">>, <<"B+", "C", "CCC+">>,
              <<"B", "CC", "CCC">>, <<"B", "C", "CCC-">> } => Fits
  OBVIOUS
<1>4. m \in { <<"CCC", "CCC", "CCC">>, <<"CCC", "CC", "CC">>, <<"CC", "C", "C">> } => Fits
  OBVIOUS
<1> HIDE DEF Fits
<1> QED BY <1>1, <1>2, <1>3, <1>4 DEF Ratings!COMBINATION_MATRIX, Fits

LEMMA AnchorAt ==
  ASSUME NEW b \in Ratings!Grade, NEW f \in Ratings!Grade
  PROVE  /\ Ratings!Anchor(b, f) \in Ratings!Grade
         /\ Ratings!Index(Ratings!Anchor(b, f)) = AnchorIndex(Ratings!Index(b), Ratings!Index(f))
         /\ Ratings!Index(b) \in 0..22 /\ Ratings!Index(f) \in 0..22
<1> DEFINE i == Ratings!Index(b)
           j == Ratings!Index(f)
<1>1. i \in 0..22 /\ j \in 0..22 /\ Ratings!Rated(i) = b /\ Ratings!Rated(j) = f
  BY GradeIndex, ScaleType
<1>2. NULL \notin {b, f} /\ Other \notin {b, f}
  BY RatingConstants DEF Ratings!RatingAssumption
<1>3. CASE Ratings!Exact(b, f) # {}
  <2> DEFINE m == CHOOSE n \in Ratings!Exact(b, f) : TRUE
  <2>1. Ratings!Anchor(b, f) = m[3]
    BY <1>2, <1>3 DEF Ratings!Anchor
  <2>2. m \in Ratings!COMBINATION_MATRIX /\ m[1] = b /\ m[2] = f
    BY <1>3 DEF Ratings!Exact
  <2> HIDE DEF m
  <2>3. Ratings!Index(m[3]) = AnchorIndex(i, j)
    BY <2>2, MatrixIndex
  <2>4. m[3] \in Ratings!Grade
    BY <2>2, MatrixGrades
  <2> QED BY <1>1, <2>1, <2>3, <2>4
<1>4. CASE Ratings!Exact(b, f) = {}
  <2>1. \A m \in Ratings!COMBINATION_MATRIX : ~(m[1] = b /\ m[2] = f)
    BY <1>4 DEF Ratings!Exact
  <2>2. ~(b = "AAA" /\ f = "AA+") /\ ~(b = "AA" /\ f = "A") /\ ~(b = "A" /\ f = "BBB")
    <3>1. /\ <<"AAA", "AA+", "AAA">> \in Ratings!COMBINATION_MATRIX
          /\ <<"AA", "A", "AA-">> \in Ratings!COMBINATION_MATRIX
          /\ <<"A", "BBB", "A-">> \in Ratings!COMBINATION_MATRIX
      BY DEF Ratings!COMBINATION_MATRIX
    <3> QED BY <2>1, <3>1
  <2>3. ~(b = "B+" /\ f = "C") /\ ~(b = "B" /\ f = "C") /\ ~(b = "CCC" /\ f = "CC")
    <3>1. /\ <<"B+", "C", "CCC+">> \in Ratings!COMBINATION_MATRIX
          /\ <<"B", "C", "CCC-">> \in Ratings!COMBINATION_MATRIX
          /\ <<"CCC", "CC", "CC">> \in Ratings!COMBINATION_MATRIX
      BY DEF Ratings!COMBINATION_MATRIX
    <3> QED BY <2>1, <3>1
  <2>4. /\ Ratings!Rated(0) = "AAA" /\ Ratings!Rated(1) = "AA+" /\ Ratings!Rated(2) = "AA"
        /\ Ratings!Rated(5) = "A" /\ Ratings!Rated(8) = "BBB" /\ Ratings!Rated(13) = "B+"
        /\ Ratings!Rated(14) = "B" /\ Ratings!Rated(17) = "CCC" /\ Ratings!Rated(19) = "CC"
        /\ Ratings!Rated(20) = "C"
    BY DEF Ratings!Rated, Ratings!RATING_SCALE
  <2> DEFINE k == (i + j + 1) \div 2
  <2>5. ~(i = 0 /\ j = 1) /\ ~(i = 2 /\ j = 5) /\ ~(i = 5 /\ j = 8)
    BY <1>1, <2>2, <2>4
  <2>6. ~(i = 13 /\ j = 20) /\ ~(i = 14 /\ j = 20) /\ ~(i = 17 /\ j = 19)
    BY <1>1, <2>3, <2>4
  <2>7. AnchorIndex(i, j) = k
    BY <2>5, <2>6 DEF AnchorIndex
  <2>8. Ratings!Anchor(b, f) = Ratings!Rated(Ratings!Clamp(Ratings!Blend(i, j)))
    BY <1>2, <1>4 DEF Ratings!Anchor
  <2>9. Ratings!Blend(i, j) = k
    BY DEF Ratings!Blend
  <2> HIDE DEF i, j
  <2>10. k \in 0..22
    BY <1>1
  <2> HIDE DEF k
  <2>11. Ratings!Clamp(k) = k
    BY <2>10, ClampIs
  <2>12. Ratings!Anchor(b, f) = Ratings!Rated(k)
    BY <2>8, <2>9, <2>11
  <2> QED BY <1>1, <2>7, <2>10, <2>12, IndexOfRated, RatedType, ScaleType DEF i, j
<1> QED BY <1>3, <1>4

\* Arithmetic: the function does not fall in either argument, and lies
\* between them.
LEMMA AnchorIndexFits ==
  ASSUME NEW i \in 0..22, NEW j \in 0..22, NEW k \in 0..22
  PROVE  /\ k <= i => AnchorIndex(k, j) <= AnchorIndex(i, j)
         /\ k <= j => AnchorIndex(i, k) <= AnchorIndex(i, j)
         /\ AnchorIndex(i, j) \in (IF i <= j THEN i ELSE j)..(IF i <= j THEN j ELSE i)
<1>1. k <= i => AnchorIndex(k, j) <= AnchorIndex(i, j)
  BY DEF AnchorIndex
<1>2. k <= j => AnchorIndex(i, k) <= AnchorIndex(i, j)
  BY DEF AnchorIndex
<1>3. AnchorIndex(i, j) \in (IF i <= j THEN i ELSE j)..(IF i <= j THEN j ELSE i)
  BY DEF AnchorIndex
<1> QED BY <1>1, <1>2, <1>3

LEMMA AnchorsAlwaysFit == Ratings!AnchorsFit
<1> SUFFICES ASSUME Ratings!Rateable
             PROVE  /\ \A g \in Ratings!Grade :
                         /\ Ratings!Index(g) <= Ratings!Index(input.brp)
                              => Ratings!Index(Ratings!Anchor(g, input.frp))
                                   <= Ratings!Index(Ratings!Anchor(input.brp, input.frp))
                         /\ Ratings!Index(g) <= Ratings!Index(input.frp)
                              => Ratings!Index(Ratings!Anchor(input.brp, g))
                                   <= Ratings!Index(Ratings!Anchor(input.brp, input.frp))
                    /\ Ratings!AnchorLiesBetween
  BY DEF Ratings!AnchorsFit, Ratings!AnchorIsMonotone, Ratings!AnchorLiesBetween
<1> DEFINE b == input.brp
           f == input.frp
           i == Ratings!Index(b)
           j == Ratings!Index(f)
<1>1. b \in Ratings!Grade /\ f \in Ratings!Grade
  BY DEF Ratings!Rateable
<1>2. i \in 0..22 /\ j \in 0..22 /\ Ratings!Index(Ratings!Anchor(b, f)) = AnchorIndex(i, j)
  BY <1>1, AnchorAt
<1>3. ASSUME NEW g \in Ratings!Grade
      PROVE  /\ Ratings!Index(g) <= i
                  => Ratings!Index(Ratings!Anchor(g, f)) <= Ratings!Index(Ratings!Anchor(b, f))
             /\ Ratings!Index(g) <= j
                  => Ratings!Index(Ratings!Anchor(b, g)) <= Ratings!Index(Ratings!Anchor(b, f))
  <2>1. /\ Ratings!Index(g) \in 0..22
        /\ Ratings!Index(Ratings!Anchor(g, f)) = AnchorIndex(Ratings!Index(g), j)
        /\ Ratings!Index(Ratings!Anchor(b, g)) = AnchorIndex(i, Ratings!Index(g))
    BY <1>1, AnchorAt
  <2> DEFINE k == Ratings!Index(g)
  <2>2. k \in 0..22
    BY <2>1
  <2> HIDE DEF i, j, k
  <2>3. /\ k <= i => AnchorIndex(k, j) <= AnchorIndex(i, j)
        /\ k <= j => AnchorIndex(i, k) <= AnchorIndex(i, j)
    BY <1>2, <2>2, AnchorIndexFits
  <2> QED BY <1>2, <2>1, <2>3 DEF k
<1>4. Ratings!AnchorLiesBetween
  <2> HIDE DEF i, j
  <2>1. AnchorIndex(i, j) \in (IF i <= j THEN i ELSE j)..(IF i <= j THEN j ELSE i)
    BY <1>2, AnchorIndexFits
  <2>2. i \in Int /\ j \in Int
    BY <1>2
  <2>3. /\ Ratings!Max({i, j}) = IF i <= j THEN j ELSE i
        /\ Ratings!Min({i, j}) = IF i <= j THEN i ELSE j
    BY <2>2, PairMax
  <2>4. AnchorIndex(i, j) \in Ratings!Min({i, j})..Ratings!Max({i, j})
    BY <2>1, <2>3
  <2> QED BY <1>2, <2>4 DEF Ratings!AnchorLiesBetween, i, j
<1> QED BY <1>3, <1>4

\* The final rating is derived from the latest input.
RatingInv == /\ input.brp \in Profile \cup {NULL} /\ input.frp \in Profile \cup {NULL}
             /\ input.adjustment \in Adjustment \cup {Other}
             /\ final # NULL => final = Ratings!Final(input.brp, input.frp, input.adjustment)

LEMMA AdjustmentsFollow == RatingInv => Ratings!AdjustmentsPull
<1> DEFINE b == input.brp
           f == input.frp
           a == input.adjustment
           anchor == Ratings!Anchor(b, f)
           way == Ratings!Index(anchor) - Ratings!Index(final)
           n == Ratings!Notches(a)
<1> SUFFICES ASSUME RatingInv, final # NULL
             PROVE  /\ n >= 0 => way \in 0..n
                    /\ n <= 0 => way \in n..0
                    /\ way # n => final \in {Ratings!Rated(0), Ratings!Rated(Ratings!Last)}
  BY DEF Ratings!AdjustmentsPull
<1>1. final = Ratings!Final(b, f, a)
  BY DEF RatingInv
<1>2. anchor # NULL /\ final = Ratings!ApplyNotches(anchor, n)
  BY <1>1 DEF Ratings!Final
<1>3. anchor \in Ratings!Grade
  <2>1. NULL \notin {b, f}
    BY <1>2 DEF Ratings!Anchor
  <2>2. b \in Profile /\ f \in Profile
    BY <2>1 DEF RatingInv
  <2> QED BY <1>2, <2>2, AnchorType
<1>4. n \in Int
  <2>1. a \in Adjustment \cup {Other} /\ Adjustment \subseteq Int \cup {Other}
    BY RatingConstants DEF RatingInv, Ratings!RatingAssumption
  <2> HIDE DEF a
  <2> QED BY <2>1 DEF Ratings!Notches
<1> DEFINE x == Ratings!Index(anchor)
           c == Ratings!Clamp(x - n)
<1>5. x \in 0..22
  BY <1>3, GradeIndex, ScaleType
<1>6. final = Ratings!Rated(c)
  BY <1>2 DEF Ratings!ApplyNotches
<1> HIDE DEF x, n
<1>7. c = IF x - n < 0 THEN 0 ELSE IF x - n > 22 THEN 22 ELSE x - n
  BY <1>4, <1>5, ClampIs
<1> HIDE DEF c
<1>8. c \in 0..22
  BY <1>4, <1>5, <1>7
<1>9. Ratings!Index(final) = c
  BY <1>6, <1>8, IndexOfRated
<1>10. way = x - c
  BY <1>9 DEF x
<1>11. n >= 0 => x - c \in 0..n
  BY <1>4, <1>5, <1>7, <1>8
<1>12. n <= 0 => x - c \in n..0
  BY <1>4, <1>5, <1>7, <1>8
<1>13. x - c # n => c = 0 \/ c = 22
  BY <1>4, <1>5, <1>7, <1>8
<1> QED BY <1>6, <1>10, <1>11, <1>12, <1>13, ScaleType

\* The matrix and the blend are one scale, and adjustments pull the right way.
THEOREM RatingScale == Ratings!Spec => []RatingsFit
<1>1. Ratings!Init => RatingInv
  BY DEF Ratings!Init, RatingInv
<1>2. RatingInv /\ [Ratings!Next]_Ratings!vars => RatingInv'
  <2> SUFFICES ASSUME RatingInv, [Ratings!Next]_Ratings!vars PROVE RatingInv'
    OBVIOUS
  <2>1. CASE Ratings!Next
    BY <2>1 DEF Ratings!Next, Ratings!Load, RatingInv
  <2>2. CASE UNCHANGED Ratings!vars
    BY <2>2 DEF Ratings!vars, RatingInv
  <2> QED BY <2>1, <2>2
<1>3. RatingInv => RatingsFit
  BY AnchorsAlwaysFit, AdjustmentsFollow DEF RatingsFit
<1> QED BY <1>1, <1>2, <1>3, PTL DEF Ratings!Spec

-----------------------------------------------------------------------------
(* Quartiles, ranks and trends *)

SampleInv == sample \in Seq(Int)

\* The functions of the instance are those of here.
LEMMA InstanceCount == \A S : Sector!Cardinality(S) = Cardinality(S)
BY DEF Sector!Cardinality, Cardinality

LEMMA InstanceMin == \A S : Sector!Min(S) = Min(S) /\ Sector!ToSet(S) = ToSet(S)
BY DEF Sector!Min, Min, Sector!ToSet, ToSet

\* The values of a sample that do not exceed v, by their places.
AtMost(v) == {i \in DOMAIN sample : sample[i] <= v}

LEMMA RankType ==
  ASSUME SampleInv
  PROVE  /\ Len(sample) \in Nat /\ DOMAIN sample = 1..Len(sample)
         /\ \A v : IsFiniteSet(AtMost(v)) /\ Sector!Rank(v) = Cardinality(AtMost(v)) /\ Sector!Rank(v) \in Nat
<1>1. Len(sample) \in Nat /\ DOMAIN sample = 1..Len(sample)
  BY DEF SampleInv
<1>2. IsFiniteSet(DOMAIN sample)
  BY <1>1, FS_Interval
<1>3. ASSUME NEW v PROVE IsFiniteSet(AtMost(v)) /\ Cardinality(AtMost(v)) \in Nat
  BY <1>2, FS_Subset, FS_CardinalityType DEF AtMost
<1>4. ASSUME NEW v PROVE Sector!Rank(v) = Cardinality(AtMost(v))
  BY InstanceCount DEF Sector!Rank, AtMost
<1> QED BY <1>1, <1>3, <1>4

\* The rank grows with the value, and at every value of the sample.
LEMMA RankGrows ==
  ASSUME SampleInv, NEW v \in Int, NEW w \in Int
  PROVE  /\ v <= w => Sector!Rank(v) <= Sector!Rank(w)
         /\ v < w /\ w \in ToSet(sample) => Sector!Rank(v) < Sector!Rank(w)
<1>1. v <= w => AtMost(v) \subseteq AtMost(w)
  BY DEF AtMost, SampleInv
<1>2. v < w /\ w \in ToSet(sample) => AtMost(v) # AtMost(w)
  BY DEF AtMost, ToSet
<1> QED BY <1>1, <1>2, RankType, FS_Subset

\* Every place has a value, whose rank reaches the place.
LEMMA PlaceTaken ==
  ASSUME SampleInv, NEW k \in DOMAIN sample
  PROVE  /\ Sector!Sorted[k] \in ToSet(sample) /\ Sector!Sorted[k] \in Int
         /\ Sector!Rank(Sector!Sorted[k]) >= k
         /\ \A v \in ToSet(sample) : Sector!Rank(v) >= k => Sector!Sorted[k] <= v
<1> DEFINE V == {v \in ToSet(sample) : Sector!Rank(v) >= k}
<1>1. ToSet(sample) \subseteq Int
  BY DEF ToSet, SampleInv
<1>2. IsFiniteSet(ToSet(sample)) /\ ToSet(sample) # {}
  <2>1. sample \in Surjection(DOMAIN sample, ToSet(sample))
    BY DEF Surjection, ToSet, SampleInv
  <2>2. IsFiniteSet(DOMAIN sample)
    BY RankType, FS_Interval
  <2>3. sample[k] \in ToSet(sample)
    BY DEF ToSet
  <2> QED BY <2>1, <2>2, <2>3, FS_Surjection
<1>3. PICK m \in ToSet(sample) : \A v \in ToSet(sample) : v <= m
  BY <1>1, <1>2, GreatestInt
<1>4. m \in V
  <2>1. AtMost(m) = 1..Len(sample)
    BY <1>3, RankType DEF AtMost, ToSet
  <2>2. Sector!Rank(m) = Len(sample)
    BY <2>1, RankType, FS_Interval
  <2> QED BY <2>2, RankType
<1>5. IsFiniteSet(V) /\ V \subseteq Int /\ V # {}
  BY <1>1, <1>2, <1>4, FS_Subset
<1> HIDE DEF V
<1>6. PICK s \in V : \A v \in V : s <= v
  BY <1>5, LeastInt
<1>7. Min(V) = s
  BY <1>5, <1>6, MinIs
<1>8. Sector!Sorted[k] = Min(V)
  BY InstanceMin DEF Sector!Sorted, Sector!Rank, V
<1> QED BY <1>5, <1>6, <1>7, <1>8 DEF V

\* Of the sample's values, those at least that of a place have its rank.
LEMMA RankOfPlace ==
  ASSUME SampleInv, NEW k \in DOMAIN sample, NEW v \in ToSet(sample)
  PROVE  Sector!Sorted[k] <= v <=> Sector!Rank(v) >= k
<1> DEFINE s == Sector!Sorted[k]
<1>1. v \in Int /\ s \in Int /\ k \in Int
  BY PlaceTaken, RankType DEF ToSet, SampleInv
<1>2. ASSUME s <= v PROVE Sector!Rank(v) >= k
  <2>1. Sector!Rank(s) <= Sector!Rank(v) /\ Sector!Rank(s) >= k
    BY <1>1, <1>2, RankGrows, PlaceTaken
  <2> QED BY <1>1, <2>1, RankType
<1>3. ASSUME Sector!Rank(v) >= k PROVE s <= v
  BY <1>3, PlaceTaken
<1> QED BY <1>2, <1>3

\* A value of the sample below the next place is not above this one.
LEMMA NothingBetween ==
  ASSUME SampleInv, NEW k \in DOMAIN sample, k + 1 \in DOMAIN sample, NEW v \in ToSet(sample)
  PROVE  /\ Sector!Sorted[k] <= Sector!Sorted[k + 1]
         /\ v < Sector!Sorted[k + 1] => v <= Sector!Sorted[k]
<1> DEFINE a == Sector!Sorted[k]
           b == Sector!Sorted[k + 1]
<1>1. /\ a \in ToSet(sample) /\ a \in Int /\ Sector!Rank(a) >= k
      /\ b \in ToSet(sample) /\ b \in Int /\ Sector!Rank(b) >= k + 1
  BY PlaceTaken
<1>2. v \in Int /\ k \in Nat
  BY RankType DEF ToSet, SampleInv
<1>3. Sector!Rank(v) \in Nat /\ Sector!Rank(a) \in Nat /\ Sector!Rank(b) \in Nat
  BY RankType
<1>4. a <= b
  <2>1. Sector!Rank(b) >= k
    BY <1>1, <1>2, <1>3
  <2> QED BY <1>1, <2>1, RankOfPlace
<1>5. ASSUME v < b PROVE v <= a
  <2> SUFFICES ASSUME a < v PROVE FALSE
    BY <1>1, <1>2
  <2>1. Sector!Rank(a) < Sector!Rank(v)
    BY <1>1, <1>2, RankGrows
  <2>2. Sector!Rank(v) >= k + 1
    BY <1>1, <1>2, <1>3, <2>1
  <2>3. b <= v
    BY <2>2, RankOfPlace
  <2> QED BY <1>1, <1>2, <1>5, <2>3
<1> QED BY <1>4, <1>5

LEMMA QuartilesFollow == SampleInv => Sector!RanksMatchQuartiles
<1> SUFFICES ASSUME SampleInv, NEW i \in DOMAIN sample, NEW q \in 1..3
             PROVE  4 * sample[i] >= Sector!Quartile(q) <=> 4 * Sector!Rank(sample[i]) >= (Len(sample) - 1) * q + 4
  BY DEF Sector!RanksMatchQuartiles
<1> DEFINE v == sample[i]
           n == Len(sample)
           m == (n - 1) * q
           f == m \div 4 + 1
           r == m % 4
           S == Sector!Sorted
           c == IF f < n THEN f + 1 ELSE f
<1>1. n \in Nat /\ n >= 1 /\ DOMAIN sample = 1..n
  BY RankType
<1>2. v \in ToSet(sample) /\ v \in Int /\ Sector!Rank(v) \in Nat
  BY RankType DEF ToSet, SampleInv
<1>3. Sector!Quartile(q) = 4 * S[f] + (S[c] - S[f]) * r
  <2>1. sample # <<>>
    BY <1>1
  <2> QED BY <2>1 DEF Sector!Quartile
<1>4. /\ m \in Nat /\ m = 4 * (f - 1) + r /\ r \in 0..3 /\ f \in 1..n
      /\ f = n => r = 0
  <2>1. m \in Nat /\ m <= 3 * (n - 1)
    <3>1. CASE q = 1
      BY <1>1, <3>1
    <3>2. CASE q = 2
      BY <1>1, <3>2
    <3>3. CASE q = 3
      BY <1>1, <3>3
    <3> QED BY <3>1, <3>2, <3>3
  <2> HIDE DEF m, n
  <2>2. m = 4 * (m \div 4) + (m % 4) /\ m % 4 \in 0..3 /\ m \div 4 \in Nat
    BY <2>1
  <2> QED BY <1>1, <2>1, <2>2
<1>5. c \in 1..n /\ (r # 0 => c = f + 1)
  <2> HIDE DEF n, f, r
  <2> QED BY <1>1, <1>4
<1>6. S[f] \in Int /\ S[c] \in Int
  BY <1>1, <1>4, <1>5, PlaceTaken
<1>7. S[f] <= v <=> Sector!Rank(v) >= f
  BY <1>1, <1>2, <1>4, RankOfPlace
<1>8. S[c] <= v <=> Sector!Rank(v) >= c
  BY <1>1, <1>2, <1>5, RankOfPlace
<1>9. r # 0 => S[f] <= S[c] /\ (v < S[c] => v <= S[f])
  BY <1>1, <1>2, <1>4, <1>5, NothingBetween
<1>10. 4 * v >= 4 * S[f] + (S[c] - S[f]) * r <=> 4 * Sector!Rank(v) >= m + 4
  <2> HIDE DEF v, n, m, f, r, S, c
  <2>1. f \in Int /\ m + 4 = 4 * f + r
    BY <1>1, <1>4
  <2>2. CASE r = 0
    BY <1>2, <1>6, <1>7, <2>1, <2>2
  <2>3. ASSUME r # 0, S[c] <= v PROVE 4 * v >= 4 * S[f] + (S[c] - S[f]) * r
    <3>1. CASE r = 1
      BY <1>2, <1>6, <1>9, <2>3, <3>1
    <3>2. CASE r = 2
      BY <1>2, <1>6, <1>9, <2>3, <3>2
    <3>3. CASE r = 3
      BY <1>2, <1>6, <1>9, <2>3, <3>3
    <3> QED BY <1>4, <2>3, <3>1, <3>2, <3>3
  <2>4. ASSUME r # 0, ~(S[c] <= v) PROVE ~(4 * v >= 4 * S[f] + (S[c] - S[f]) * r)
    <3>1. v < S[c] /\ v <= S[f] /\ S[f] <= S[c]
      BY <1>2, <1>6, <1>9, <2>4
    <3>2. CASE r = 1
      BY <1>2, <1>6, <3>1, <3>2
    <3>3. CASE r = 2
      BY <1>2, <1>6, <3>1, <3>3
    <3>4. CASE r = 3
      BY <1>2, <1>6, <3>1, <3>4
    <3> QED BY <1>4, <2>4, <3>2, <3>3, <3>4
  <2>5. r # 0 => (4 * Sector!Rank(v) >= m + 4 <=> Sector!Rank(v) >= c)
    BY <1>2, <1>4, <1>5, <2>1
  <2> QED BY <1>8, <2>2, <2>3, <2>4, <2>5
<1> QED BY <1>3, <1>10

\* The steps of a series that go up, and down.
Up(s) == {i \in 1..(Len(s) - 1) : s[i] < s[i + 1]}
Down(s) == {i \in 1..(Len(s) - 1) : s[i] > s[i + 1]}

LEMMA StepsType ==
  ASSUME NEW s \in Seq(Int)
  PROVE  /\ IsFiniteSet(Up(s)) /\ Cardinality(Up(s)) \in Nat
         /\ IsFiniteSet(Down(s)) /\ Cardinality(Down(s)) \in Nat
         /\ Len(s) >= 1 => Cardinality(Up(s)) + Cardinality(Down(s)) <= Len(s) - 1
<1> DEFINE T == 1..(Len(s) - 1)
<1>1. Len(s) \in Nat
  OBVIOUS
<1>2. IsFiniteSet(T) /\ Cardinality(T) = IF Len(s) >= 1 THEN Len(s) - 1 ELSE 0
  <2> DEFINE b == Len(s) - 1
  <2>1. b \in Int /\ 1 \in Int /\ T = 1..b
    BY <1>1
  <2> HIDE DEF b, T
  <2>2. IsFiniteSet(T) /\ Cardinality(T) = IF 1 > b THEN 0 ELSE b - 1 + 1
    BY <2>1, FS_Interval
  <2>3. b - 1 + 1 = b /\ (1 > b <=> ~(b >= 1))
    BY <2>1
  <2>4. Cardinality(T) = IF b >= 1 THEN b ELSE 0
    BY <2>2, <2>3
  <2> QED BY <1>1, <2>2, <2>4 DEF b
<1>3. Up(s) \subseteq T /\ Down(s) \subseteq T
  BY DEF Up, Down
<1>4. Up(s) \cap Down(s) = {}
  <2>1. \A i \in T : s[i] \in Int /\ s[i + 1] \in Int
    BY <1>1
  <2> QED BY <2>1 DEF Up, Down
<1> HIDE DEF T
<1>5. IsFiniteSet(Up(s)) /\ IsFiniteSet(Down(s))
  BY <1>2, <1>3, FS_Subset
<1>6. Cardinality(Up(s)) \in Nat /\ Cardinality(Down(s)) \in Nat
  BY <1>5, FS_CardinalityType
<1>7. Cardinality(Up(s) \cup Down(s)) = Cardinality(Up(s)) + Cardinality(Down(s))
  <2>1. Cardinality(Up(s) \cap Down(s)) = 0
    BY <1>4, FS_EmptySet
  <2>2. Cardinality(Up(s) \cup Down(s))
          = Cardinality(Up(s)) + Cardinality(Down(s)) - Cardinality(Up(s) \cap Down(s))
    BY <1>5, FS_Union
  <2> QED BY <1>6, <2>1, <2>2
<1>8. Cardinality(Up(s) \cup Down(s)) <= Cardinality(T)
  <2>1. Up(s) \cup Down(s) \subseteq T
    BY <1>3
  <2> QED BY <1>2, <2>1, FS_Subset
<1> QED BY <1>1, <1>2, <1>5, <1>6, <1>7, <1>8

\* Backwards, every step up is one down.
LEMMA StepsBackwards ==
  ASSUME NEW s \in Seq(Int)
  PROVE  /\ Reverse(s) \in Seq(Int) /\ Len(Reverse(s)) = Len(s)
         /\ Cardinality(Up(Reverse(s))) = Cardinality(Down(s))
         /\ Cardinality(Down(Reverse(s))) = Cardinality(Up(s))
<1> DEFINE n == Len(s)
           r == Reverse(s)
           up == [i \in Up(r) |-> n - i]
           down == [i \in Down(r) |-> n - i]
<1>1. n \in Nat /\ \A i \in 1..n : s[i] \in Int
  OBVIOUS
<1>2. r = [i \in 1..n |-> s[(n - i) + 1]]
  BY DEF Reverse
<1>3. r \in Seq(Int) /\ Len(r) = n
  <2>1. \A i \in 1..n : (n - i) + 1 \in 1..n
    BY <1>1
  <2>2. r \in [1..n -> Int]
    BY <1>1, <1>2, <2>1
  <2> QED BY <1>1, <2>2
<1>4. ASSUME NEW i \in 1..(n - 1)
      PROVE  n - i \in 1..(n - 1) /\ r[i] = s[(n - i) + 1] /\ r[i + 1] = s[n - i]
  <2>1. i \in 1..n /\ i + 1 \in 1..n /\ (n - (i + 1)) + 1 = n - i /\ n - i \in 1..(n - 1)
    BY <1>1
  <2> HIDE DEF r, n
  <2> QED BY <1>2, <2>1
<1> HIDE DEF r
<1>5. ExistsBijection(Up(r), Down(s))
  <2>1. \A i \in Up(r) : n - i \in Down(s)
    BY <1>3, <1>4 DEF Up, Down
  <2>2. \A j \in Down(s) : n - j \in Up(r) /\ n - (n - j) = j
    <3> TAKE j \in Down(s)
    <3>1. j \in 1..(n - 1) /\ s[j] > s[j + 1]
      BY DEF Down
    <3> DEFINE i == n - j
    <3>2. i \in 1..(n - 1) /\ n - i = j
      BY <1>1, <3>1
    <3> HIDE DEF i
    <3>3. r[i] = s[j + 1] /\ r[i + 1] = s[j]
      BY <1>4, <3>2
    <3>4. s[j] \in Int /\ s[j + 1] \in Int
      BY <1>1, <3>1
    <3> QED BY <1>3, <3>1, <3>2, <3>3, <3>4 DEF Up, i
  <2>3. \A i, k \in Up(r) : n - i = n - k => i = k
    BY <1>1 DEF Up
  <2>4. up \in Bijection(Up(r), Down(s))
    BY <2>1, <2>2, <2>3 DEF Bijection, Injection, Surjection, IsInjective
  <2> QED BY <2>4 DEF ExistsBijection
<1>6. ExistsBijection(Down(r), Up(s))
  <2>1. \A i \in Down(r) : n - i \in Up(s)
    BY <1>3, <1>4 DEF Up, Down
  <2>2. \A j \in Up(s) : n - j \in Down(r) /\ n - (n - j) = j
    <3> TAKE j \in Up(s)
    <3>1. j \in 1..(n - 1) /\ s[j] < s[j + 1]
      BY DEF Up
    <3> DEFINE i == n - j
    <3>2. i \in 1..(n - 1) /\ n - i = j
      BY <1>1, <3>1
    <3> HIDE DEF i
    <3>3. r[i] = s[j + 1] /\ r[i + 1] = s[j]
      BY <1>4, <3>2
    <3>4. s[j] \in Int /\ s[j + 1] \in Int
      BY <1>1, <3>1
    <3> QED BY <1>3, <3>1, <3>2, <3>3, <3>4 DEF Down, i
  <2>3. \A i, k \in Down(r) : n - i = n - k => i = k
    BY <1>1 DEF Down
  <2>4. down \in Bijection(Down(r), Up(s))
    BY <2>1, <2>2, <2>3 DEF Bijection, Injection, Surjection, IsInjective
  <2> QED BY <2>4 DEF ExistsBijection
<1>7. IsFiniteSet(Up(r)) /\ IsFiniteSet(Down(r))
  BY <1>3, StepsType
<1>8. Cardinality(Up(r)) = Cardinality(Down(s)) /\ Cardinality(Down(r)) = Cardinality(Up(s))
  BY <1>5, <1>6, <1>7, FS_Bijection
<1> QED BY <1>3, <1>8 DEF r

\* The trend as a function of the numbers of steps.
LEMMA TrendIs ==
  ASSUME NEW s \in Seq(Int)
  PROVE  Sector!Trend(s)
           = LET total == Len(s) - 1
                 pos == Cardinality(Up(s))
                 neg == Cardinality(Down(s))
             IN  IF total < 1 THEN "insufficient_data"
                 ELSE IF 4 * pos >= 3 * total THEN "improving"
                 ELSE IF 4 * neg >= 3 * total THEN "deteriorating"
                 ELSE IF pos - neg \in -1..1 /\ pos + neg >= 2 THEN "volatile" ELSE "stable"
BY InstanceCount DEF Sector!Trend, Up, Down

LEMMA TrendFollows == SampleInv => Sector!TrendIsEven
<1> SUFFICES ASSUME SampleInv PROVE Sector!TrendIsEven
  OBVIOUS
<1> DEFINE total == Len(sample) - 1
           pos == Cardinality(Up(sample))
           neg == Cardinality(Down(sample))
           back == Reverse(sample)
<1>1. sample \in Seq(Int) /\ total \in Int
  BY DEF SampleInv
<1>2. pos \in Nat /\ neg \in Nat /\ (total >= 0 => pos + neg <= total)
  BY <1>1, StepsType
<1>3. /\ back \in Seq(Int) /\ Len(back) - 1 = total
      /\ Cardinality(Up(back)) = neg /\ Cardinality(Down(back)) = pos
  BY <1>1, StepsBackwards
<1>4. Sector!Trend(sample) = IF total < 1 THEN "insufficient_data"
                             ELSE IF 4 * pos >= 3 * total THEN "improving"
                             ELSE IF 4 * neg >= 3 * total THEN "deteriorating"
                             ELSE IF pos - neg \in -1..1 /\ pos + neg >= 2 THEN "volatile" ELSE "stable"
  BY <1>1, TrendIs
<1>5. Sector!Trend(back) = IF total < 1 THEN "insufficient_data"
                           ELSE IF 4 * neg >= 3 * total THEN "improving"
                           ELSE IF 4 * pos >= 3 * total THEN "deteriorating"
                           ELSE IF neg - pos \in -1..1 /\ neg + pos >= 2 THEN "volatile" ELSE "stable"
  BY <1>3, TrendIs
<1>6. Sector!Reverse(sample) = back
  BY DEF Sector!Reverse, Reverse
<1> HIDE DEF total, pos, neg, back
<1>7. Sector!Trend(back) = Sector!Opposite[Sector!Trend(sample)]
  <2>1. pos - neg \in -1..1 <=> neg - pos \in -1..1
    BY <1>2
  <2>2. pos + neg = neg + pos
    BY <1>2
  <2>3. ~(total < 1) => ~(4 * pos >= 3 * total /\ 4 * neg >= 3 * total)
    BY <1>1, <1>2
  <2> QED BY <1>4, <1>5, <2>1, <2>2, <2>3 DEF Sector!Opposite
<1>8. Sector!Trend(sample) = "improving" => 4 * neg <= total
  <2> SUFFICES ASSUME Sector!Trend(sample) = "improving" PROVE 4 * neg <= total
    OBVIOUS
  <2>1. ~(total < 1) /\ 4 * pos >= 3 * total
    BY <1>4
  <2> QED BY <1>1, <1>2, <2>1
<1>9. Sector!Cardinality({i \in 1..(Len(sample) - 1) : sample[i] > sample[i + 1]}) = neg
  BY InstanceCount DEF neg, Down
<1> QED BY <1>6, <1>7, <1>8, <1>9 DEF Sector!TrendIsEven, total

\* Quartiles, ranks and trends of any sample fit together.
THEOREM SectorFigures == Sector!Spec => []BenchmarksAgree
<1>1. Sector!Init => SampleInv
  BY DEF Sector!Init, SampleInv
<1>2. SampleInv /\ [Sector!Next]_sample => SampleInv'
  BY SectorConstants DEF SampleInv, Sector!Next, Sector!Read, Sector!Skip, Sector!BenchmarkAssumption
<1>3. SampleInv => BenchmarksAgree
  BY QuartilesFollow, TrendFollows DEF BenchmarksAgree, Sector!BenchmarksAgree
<1> QED BY <1>1, <1>2, <1>3, PTL DEF Sector!Spec
=============================================================================
