----------------------------- MODULE Detectors -----------------------------
(***************************************************************************)
(* What validation and the quality signals find in one extracted workbook: *)
(* app/validator.py, app/expectations.py and the detectors of              *)
(* app/analytics.py, as operators.                                         *)
(*                                                                         *)
(* A workbook is a record of                                               *)
(*   warnings       how many issues the extractor raised,                  *)
(*   fields         each text field: NULL if blank, "fine", or "odd" for a *)
(*                  text that the checks of that field do not know,        *)
(*   segments       sequence of [risk, weight], weights in thousandths,    *)
(*   methodologies  a set,                                                 *)
(*   metrics        each listed year's row: a number or NULL per metric.   *)
(*                                                                         *)
(* Weights are floating-point numbers in the code.  Where a comparison     *)
(* would be with exactly the threshold, rounding decides it; tips are the  *)
(* risks, or "total" for the sum of all, for which it found the threshold  *)
(* reached.                                                                *)
(***************************************************************************)
EXTENDS Integers, FiniteSets, Sequences, SequencesExt, FiniteSetsExt

CONSTANTS NULL,
          Metric,       \* METRIC_FIELDS
          Required,     \* the required text fields
          Rating,       \* RATING_COLUMNS of expectations.py
          StaticOnly,   \* sector_specific_factor_1 and liquidity_adjustment, which
                        \* only validator.py checks
          Currency,     \* the field currency
          GE_AVAILABLE  \* whether Great Expectations could be imported

\* An issue may be about a year of the metrics; year is 0 otherwise.
Issue(field, type, severity) == [field |-> field, year |-> 0, type |-> type, severity |-> severity]
Issues(fields, type, severity) == SetToSeq({Issue(f, type, severity) : f \in fields})
YearIssues(years, type) ==
  SetToSeq({[field |-> "credit_metrics", year |-> y, type |-> type, severity |-> "warning"] : y \in years})

\* The fields whose text must be of a known set.
Notation == Rating \cup {Currency}

Blank(d, F) == {f \in F : d.fields[f] = NULL}
Odd(d, F) == {f \in F : d.fields[f] = "odd"}

-----------------------------------------------------------------------------
(* validator.py and expectations.py *)

TotalWeight(segments) == FoldLeft(LAMBDA t, s : t + s.weight, 0, segments)

Abs(n) == IF n < 0 THEN -n ELSE n

\* Whether a difference of weights is above a threshold, up to rounding.
Exceeds(delta, limit, tip) == delta > limit \/ (delta = limit /\ tip)

\* The static rules, after the extractor's own issues.
Static(d, tips) ==
  [i \in 1..d.warnings |-> Issue("sheet", "extraction", "warning")]
    \o Issues(Blank(d, Required), "missing", "error")
    \o Issues(Odd(d, Notation \cup StaticOnly), "invalid_value", "warning")
    \o Issues(IF d.segments # <<>> /\ Exceeds(Abs(TotalWeight(d.segments) - 1000), 10, "total" \in tips)
              THEN {"industry_weight"} ELSE {}, "out_of_range", "error")
    \o Issues(IF d.segments = <<>> THEN {"industry_risks"} ELSE {}, "missing", "error")
    \o Issues({f \in {"methodologies"} : d.methodologies = {}}
                \cup {f \in {"credit_metrics"} : DOMAIN d.metrics = {}}, "missing", "warning")

\* _apply_db_rules: "required" looks at blanks, the other kinds at texts.
Applies(rule, d) == \/ rule.kind = "required" /\ d.fields[rule.field] = NULL
                    \/ rule.kind \in {"allowed", "range", "regex"} /\ d.fields[rule.field] = "odd"

\* Rules whose params the code cannot use raise: a "broken" one, such as a
\* pattern that is no regular expression, when there is a text to match, and a
\* "misfit", a regex rule with a list for its params, in any case.
Raises(rule, d) == \/ rule.kind = "broken" /\ d.fields[rule.field] # NULL
                   \/ rule.kind = "misfit"

DbIssues(d, rules) ==
  LET hit == SetToSeq({r \in rules : Applies(r, d)})
  IN  [i \in DOMAIN hit |-> Issue(hit[i].field, "rule", hit[i].severity)]

\* validate_with_ge, which passes nulls over in every check but the first.  Its
\* check that the name has at most 255 characters is left out: uploads keep the
\* name in a column of that length, so the load of a longer one fails.
Expectations(d) ==
  IF GE_AVAILABLE THEN Issues(Blank(d, Required), "expect_not_null", "warning")
                         \o Issues(Odd(d, Notation), "expect_in_set", "warning")
  ELSE <<>>

Count(issues, severity) == Cardinality({i \in DOMAIN issues : issues[i].severity = severity})

\* compute_quality_score
Score(issues) == Max({0, 100 - 10 * Count(issues, "error") - 2 * Count(issues, "warning")})

-----------------------------------------------------------------------------
(* analytics.py, the detectors over a series *)

\* Pairs of listed years with no listed year between them.
Neighbours(m) == {n \in (DOMAIN m) \X (DOMAIN m) :
                    n[1] < n[2] /\ ~\E y \in DOMAIN m : n[1] < y /\ y < n[2]}

Comparable(a, b) == {f \in Metric : a[f] # NULL /\ b[f] # NULL}

\* Mutant: a blank is a value like any other.
Repeats_Blanks(a, b) == \A f \in Metric : a[f] = b[f]

Repeats(a, b) == Comparable(a, b) # {} /\ \A f \in Comparable(a, b) : a[f] = b[f]

\* detect_stale_metrics: the years marked is_stale.
Stale(m) == {n[2] : n \in {p \in Neighbours(m) : Repeats(m[p[1]], m[p[2]])}}

\* A deterioration by CLIFF_THRESHOLD, one half.
Falls(p, c) == p > 0 /\ 2 * c <= p

\* detect_metric_cliffs
Cliffs(m, f) ==
  {n[2] : n \in {p \in Neighbours(m) : f \in Comparable(m[p[1]], m[p[2]])
                                         /\ Falls(m[p[1]][f], m[p[2]][f])}}

\* mark_estimates
Estimates(m, now) == {y \in DOMAIN m : y >= now}

\* coverage_pct, as filled cells and all cells.
Coverage(m) == <<MapThenSumSet(LAMBDA y : Cardinality({f \in Metric : m[y][f] # NULL}), DOMAIN m),
                 Cardinality(DOMAIN m) * Cardinality(Metric)>>

-----------------------------------------------------------------------------
(* analytics.py, what changed since the previous snapshot *)

\* detect_methodology_change
MethodologyChange(prev, new) ==
  Issues(IF prev # {} /\ prev # new THEN {"methodologies"} ELSE {}, "methodology_change", "warning")

Risks(segments) == {segments[i].risk : i \in DOMAIN segments}

\* prev_map: of segments with one name the last counts, one that is not there
\* weighs nothing.
WeightOf(segments, risk) ==
  IF risk \in Risks(segments) THEN segments[Max({i \in DOMAIN segments : segments[i].risk = risk})].weight
  ELSE 0

\* WEIGHT_DRIFT_WARN and WEIGHT_DRIFT_ERROR
DriftSeverity(delta, tip) == IF Exceeds(delta, 150, tip) THEN "error"
                             ELSE IF Exceeds(delta, 50, tip) THEN "warning" ELSE "none"

\* Mutant: only the segments of both snapshots are looked at.
SegmentDrift_Common(prev, new, tips) ==
  [i \in {j \in DOMAIN new : new[j].risk \in Risks(prev)} |->
     DriftSeverity(Abs(new[i].weight - WeightOf(prev, new[i].risk)), new[i].risk \in tips)]

\* What each segment of new has drifted by.
SegmentDrift(prev, new, tips) ==
  [i \in DOMAIN new |->
     DriftSeverity(Abs(new[i].weight - WeightOf(prev, new[i].risk)), new[i].risk \in tips)]

\* detect_weight_drift
WeightDrift(prev, new, tips) ==
  IF prev = <<>> THEN <<>>
  ELSE LET drift == SegmentDrift(prev, new, tips)
           hit == SetToSeq({i \in DOMAIN drift : drift[i] # "none"})
       IN  [k \in DOMAIN hit |-> Issue(new[hit[k]].risk, "weight_drift", drift[hit[k]])]
             \o Issues(Risks(prev) \ Risks(new), "segment_removed", "warning")
=============================================================================
