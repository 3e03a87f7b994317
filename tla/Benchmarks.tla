----------------------------- MODULE Benchmarks -----------------------------
(***************************************************************************)
(* The figures of GET /analytics/sector-benchmark and the trend of         *)
(* GET /analytics/trend: percentile and classify_trend of app/analytics.py *)
(* over a list of values that is read one by one.  Values are integers;    *)
(* quartiles are in quarters, so that interpolating between two values     *)
(* stays exact, as floating-point numbers are not.                         *)
(***************************************************************************)
EXTENDS Integers, Sequences, SequencesExt, FiniteSets

CONSTANTS NULL,
          Value,     \* values of the metric, NULL for a blank
          MaxValues  \* bound on the values

\* What the constants have to be; the instance assumes it.
BenchmarkAssumption == Value \subseteq Int \cup {NULL} /\ MaxValues \in Nat

VARIABLE sample      \* the values so far, in the order they were read

Init == sample = <<>>

\* A blank is passed over.
Read(v) == /\ Len(sample) < MaxValues
           /\ v # NULL
           /\ sample' = Append(sample, v)

Skip(v) == v = NULL /\ UNCHANGED sample

Next == \E v \in Value : Read(v) \/ Skip(v)

Spec == Init /\ [][Next]_sample

-----------------------------------------------------------------------------

\* sorted(values): place k holds the least value that k of them do not exceed.
Sorted ==
  [k \in DOMAIN sample |-> Min({v \in ToSet(sample) : Cardinality({i \in DOMAIN sample : sample[i] <= v}) >= k})]

\* Mutant: the value below the position, without interpolation.
Quartile_Lower(q) ==
  IF sample = <<>> THEN NULL ELSE 4 * Sorted[((Len(sample) - 1) * q) \div 4 + 1]

\* Four times percentile(values, 25 * q).
Quartile(q) ==
  IF sample = <<>> THEN NULL
  ELSE LET k == (Len(sample) - 1) * q
           f == k \div 4 + 1
           c == IF f < Len(sample) THEN f + 1 ELSE f
       IN  4 * Sorted[f] + (Sorted[c] - Sorted[f]) * (k % 4)

\* The numerator of percentile_rank; the denominator is the sample's size.
Rank(v) == Cardinality({i \in DOMAIN sample : sample[i] <= v})

\* classify_trend
Trend(values) ==
  LET total == Len(values) - 1
      pos == Cardinality({i \in 1..total : values[i] < values[i + 1]})
      neg == Cardinality({i \in 1..total : values[i] > values[i + 1]})
  IN  IF total < 1 THEN "insufficient_data"
      ELSE IF 4 * pos >= 3 * total THEN "improving"
      ELSE IF 4 * neg >= 3 * total THEN "deteriorating"
      ELSE IF pos - neg \in -1..1 /\ pos + neg >= 2 THEN "volatile" ELSE "stable"

-----------------------------------------------------------------------------
(* Properties *)

\* A company is at or above a quartile exactly if its rank says so: the
\* interpolated quartile and the counted rank are two definitions of one place.
RanksMatchQuartiles ==
  \A i \in DOMAIN sample : \A q \in 1..3 :
    4 * sample[i] >= Quartile(q) <=> 4 * Rank(sample[i]) >= (Len(sample) - 1) * q + 4

Opposite == [improving |-> "deteriorating", deteriorating |-> "improving", volatile |-> "volatile",
             stable |-> "stable", insufficient_data |-> "insufficient_data"]

\* A series read backwards has the opposite trend, and one whose trend has a
\* direction has at most a quarter of its steps in the other.
TrendIsEven ==
  /\ Trend(Reverse(sample)) = Opposite[Trend(sample)]
  /\ Trend(sample) = "improving" =>
       4 * Cardinality({i \in 1..(Len(sample) - 1) : sample[i] > sample[i + 1]}) <= Len(sample) - 1

\* What the two endpoints say of the same values fits together.
BenchmarksAgree == RanksMatchQuartiles /\ TrendIsEven
=============================================================================
