------------------------------ MODULE MCDerived ------------------------------
(***************************************************************************)
(* An instance for TLC of what is computed from extracted workbooks: the   *)
(* quality signals, the ratings and the benchmarks.  They share no state,  *)
(* so a behaviour is about one topic and the rest stays as it began.       *)
(* Signals takes workbooks of four families, which differ from Plain in    *)
(* the series of metrics, the segments, what rules are about, or what      *)
(* tells actuals from estimates.                                           *)
(***************************************************************************)
EXTENDS Signals

CONSTANTS tA, tB, brp, tech, retail, Other, Profile, Adjustment, Value, MaxValues

VARIABLES topic,                             \* what the behaviour is about
          loads, input, final, migrations,   \* of RatingEngine
          sample                             \* of Benchmarks

Ratings == INSTANCE RatingEngine
Sector == INSTANCE Benchmarks

ASSUME RatingConstants == Ratings!RatingAssumption /\ Ratings!Grade \subseteq Profile
ASSUME SectorConstants == Sector!BenchmarkAssumption

ratingVars == <<loads, input, final, migrations>>
allVars == <<vars, topic, ratingVars, sample>>

-----------------------------------------------------------------------------
(* Constants *)

\* Written out: the value of Profile may not depend on the instance Ratings,
\* whose parameter it is.
AllProfiles == {"AAA", "AA+", "AA", "AA-", "A+", "A", "A-", "BBB+", "BBB", "BBB-", "BB+", "BB", "BB-",
                "B+", "B", "B-", "CCC+", "CCC", "CCC-", "CC", "C", "D", "SD", NULL, Other}
AllAdjustments == {-30, -2, -1, 0, 1, 2, Other}

Rules == {[field |-> brp, kind |-> "allowed", severity |-> "error", tenant |-> NULL],
          [field |-> "sector", kind |-> "required", severity |-> "warning", tenant |-> tA],
          [field |-> brp, kind |-> "broken", severity |-> "error", tenant |-> tA],
          [field |-> brp, kind |-> "misfit", severity |-> "error", tenant |-> NULL],
          [field |-> brp, kind |-> "allowed", severity |-> "warning", tenant |-> tB]}

-----------------------------------------------------------------------------
(* Workbooks *)

Row(a, b) == [f \in Metric |-> IF f = Headline THEN a ELSE b]
Field == Required \cup Notation \cup StaticOnly

Plain == [warnings |-> 0, fields |-> [f \in Field |-> "fine"],
          segments |-> <<[risk |-> tech, weight |-> 1000]>>,
          methodologies |-> {"general"}, metrics |-> [y \in {1} |-> Row(1, 1)]]

Years == 1..3
\* 100000, its half, and 49.996, 49.995 and 49.994 percent less.
Falling == {100000, 50000, 50004, 50005, 50006}

Series == {[Plain EXCEPT !.metrics = m] :
             m \in UNION {[Y -> [Metric -> {NULL, -1, 1, 2}]] : Y \in SUBSET Years}}
          \cup {[Plain EXCEPT !.metrics = [y \in Y |-> Row(v[y], 1)]] :
                  Y \in SUBSET Years, v \in [Years -> Falling]}

\* Weights that differ by one threshold, the other, or something between.
Segment == [risk : {tech, retail}, weight : {450, 500, 600}]
Segments == {[Plain EXCEPT !.segments = s] : s \in UNION {[1..n -> Segment] : n \in 0..2}}

Checked == {[Plain EXCEPT !.fields[brp] = b, !.fields["sector"] = s, !.methodologies = m] :
              b \in {NULL, "fine", "odd"}, s \in {NULL, "fine"}, m \in {{}, {"general"}}}
             \cup {[Plain EXCEPT !.warnings = 60],
                   [Plain EXCEPT !.segments = <<[risk |-> tech, weight |-> 990]>>]}

\* Workbooks whose fingerprints differ, over few years.
Dated == {[Plain EXCEPT !.metrics = [y \in Y |-> Row(y, 1)], !.fields[brp] = b] :
            Y \in (SUBSET Years) \ {{}}, b \in {"fine", "odd"}}

WorkbooksOf == [series |-> Series, segments |-> Segments, rules |-> Checked, years |-> Dated]

ASSUME WorkbooksAreWellFormed == \A t \in DOMAIN WorkbooksOf : \A d \in WorkbooksOf[t] : WellFormed(d)

\* A third load has one segment at most.
Offered == {d \in WorkbooksOf[topic] : Len(uploads) < 2 \/ Len(d.segments) < 2}

\* Bounds of each family: a series is a matter of one load.
LoadsOf == [series |-> 1, segments |-> 3, rules |-> 2, years |-> 3]

-----------------------------------------------------------------------------

FewProfiles == {"AAA", "BBB", "BB", "B+", "C", "SD", NULL}
FewAdjustments == {-1, 2}
Follows == {input.brp, input.frp} \subseteq FewProfiles /\ input.adjustment \in FewAdjustments

\* One load of every pair of profiles, and histories of fewer.
HistoryNext == \/ loads = 0 /\ Ratings!Next
               \/ /\ loads > 0 /\ Follows
                  /\ \E b \in FewProfiles, f \in FewProfiles, a \in FewAdjustments : Ratings!Load(b, f, a)

SignalsNext == /\ Len(uploads) < LoadsOf[topic]
               /\ Next(Offered)
               /\ \A r \in Rule : rules'[r] # rules[r] => topic = "rules"
               /\ now' # now => topic = "years"

DerivedInit == /\ topic \in (DOMAIN WorkbooksOf) \cup {"ratings", "benchmark"}
               /\ Init /\ Ratings!Init /\ Sector!Init

DerivedNext ==
  /\ UNCHANGED topic
  /\ \/ topic \in DOMAIN WorkbooksOf /\ SignalsNext /\ UNCHANGED <<ratingVars, sample>>
     \/ topic = "ratings" /\ HistoryNext /\ UNCHANGED <<vars, sample>>
     \/ topic = "benchmark" /\ Sector!Next /\ UNCHANGED <<vars, ratingVars>>

DerivedSpec == DerivedInit /\ [][DerivedNext]_allVars

-----------------------------------------------------------------------------
(* Properties of the parts *)

\* The matrix and the blend make one scale, on which adjustments pull the
\* right way.
RatingsFit == Ratings!AnchorsFit /\ Ratings!AdjustmentsPull

\* The recorded migrations account for the whole way of the rating.
MigrationsAddUp == Ratings!MigrationsAddUp

\* Quartiles, ranks and trends of the same values fit together.
BenchmarksAgree == Sector!BenchmarksAgree
=============================================================================
