------------------------------ MODULE Signals ------------------------------
(***************************************************************************)
(* The loads of one company, as far as validation and quality signals go   *)
(* (_load_file in app/pipeline.py): the issues and the score an upload is  *)
(* stored with, the flags of the credit metrics of a snapshot, the rules   *)
(* that analysts add and deactivate meanwhile (app/routers/rules.py), the  *)
(* clock that tells actuals from estimates, and the series that            *)
(* GET /analytics/trend makes of it all.  One load runs at a time;         *)
(* overlapping loads, tenants and company versions are FileLoad's.         *)
(***************************************************************************)
EXTENDS Detectors

CONSTANTS Tenant,   \* of the loads; NULL is the default tenant
          Rule,     \* rules: [field, kind, severity, tenant]
          Now,      \* the years in which files are loaded, an interval
          Headline, \* the metric that is watched for cliffs
          MaxLoads  \* bound on the loads

ASSUME SignalsAssumption ==
  /\ Now \subseteq Nat /\ Now # {} /\ MaxLoads \in Nat
  /\ Headline \in Metric
  /\ IsFiniteSet(Rule) /\ IsFiniteSet(Required \cup Notation \cup StaticOnly)
  /\ \A r \in Rule : r.field \in Required \cup Notation \cup StaticOnly

VARIABLES
  now,       \* the current year
  rules,     \* each rule: "absent", "active" or "inactive"
  uploads,   \* sequence of [issues, score, status]
  snapshots  \* sequence of [upload, content, segments, methodologies, metrics, estimates, stale, coverage]

vars == <<now, rules, uploads, snapshots>>

Init == /\ now = Min(Now)
        /\ rules = [r \in Rule |-> "absent"]
        /\ uploads = <<>> /\ snapshots = <<>>

-----------------------------------------------------------------------------
(* The rules of an analyst, and time *)

CreateRule(r) == /\ rules[r] = "absent"
                 /\ rules' = [rules EXCEPT ![r] = "active"]
                 /\ UNCHANGED <<now, uploads, snapshots>>

DeactivateRule(r) == /\ rules[r] = "active"
                     /\ rules' = [rules EXCEPT ![r] = "inactive"]
                     /\ UNCHANGED <<now, uploads, snapshots>>

NextYear == /\ now + 1 \in Now
            /\ now' = now + 1
            /\ UNCHANGED <<rules, uploads, snapshots>>

\* _load_db_rules: a tenant's own rules and everybody's; the default tenant
\* takes those of all tenants.
ActiveRules == {r \in Rule : rules[r] = "active" /\ (Tenant = NULL \/ r.tenant \in {Tenant, NULL})}

-----------------------------------------------------------------------------
(* A load *)

First == snapshots = <<>>
Previous == Last(snapshots)

\* What content_fingerprint covers: neither metrics nor methodologies.
Content(d) == <<[f \in Rating \cup StaticOnly |-> d.fields[f]], d.segments>>

NoDelta(d) == ~First /\ Previous.content = Content(d)

\* validate and validate_with_ge
Validated(d, tips) == Static(d, tips) \o DbIssues(d, ActiveRules) \o Expectations(d)

\* Then the signals, some of them relative to prev_snap.
Found(d, tips) ==
  Validated(d, tips)
    \o YearIssues(Stale(d.metrics), "stale_data")
    \o (IF First THEN <<>> ELSE MethodologyChange(Previous.methodologies, d.methodologies)
                                  \o WeightDrift(Previous.segments, d.segments, tips))
    \o YearIssues(Cliffs(d.metrics, Headline), "metric_cliff")

\* Mutant: the score is computed before the signals are added.
UploadRow_ScoredEarly(d, tips) ==
  [issues |-> Found(d, tips), score |-> Score(Validated(d, tips)),
   status |-> IF NoDelta(d) THEN "skipped_no_delta" ELSE "processed"]

UploadRow(d, tips) ==
  [issues |-> Found(d, tips), score |-> Score(Found(d, tips)),
   status |-> IF NoDelta(d) THEN "skipped_no_delta" ELSE "processed"]

SnapshotRow(d) ==
  [upload |-> Len(uploads) + 1, content |-> Content(d), segments |-> d.segments,
   methodologies |-> d.methodologies, metrics |-> d.metrics,
   estimates |-> Estimates(d.metrics, now), stale |-> Stale(d.metrics), coverage |-> Coverage(d.metrics)]

\* A load that some rule makes raise leaves nothing behind.
Load(d, tips) ==
  /\ Len(uploads) < MaxLoads
  /\ \A r \in ActiveRules : ~Raises(r, d)
  /\ uploads' = Append(uploads, UploadRow(d, tips))
  /\ snapshots' = IF NoDelta(d) THEN snapshots ELSE Append(snapshots, SnapshotRow(d))
  /\ UNCHANGED <<now, rules>>

\* The workbooks of an instance are for its next-state relation to choose.
Next(Workbook) == \/ \E r \in Rule : CreateRule(r) \/ DeactivateRule(r)
                  \/ NextYear
                  \/ \E d \in Workbook : \E tips \in SUBSET (Risks(d.segments) \cup {"total"}) : Load(d, tips)

\* The workbooks that can be extracted.
WellFormed(d) ==
  /\ d.warnings \in Nat
  /\ Len(d.segments) \in Nat /\ DOMAIN d.segments = 1..Len(d.segments)
  /\ \A i \in DOMAIN d.segments : d.segments[i].weight \in Int
  /\ IsFiniteSet(DOMAIN d.metrics) /\ DOMAIN d.metrics \subseteq Nat
  /\ \A y \in DOMAIN d.metrics : d.metrics[y] \in [Metric -> Int \cup {NULL}]

Spec(Workbook) == Init /\ [][Next(Workbook)]_vars

-----------------------------------------------------------------------------
(* GET /analytics/trend: the values of a metric by year.  Rows come in the *)
(* order of their years only, so of several snapshots any may be the one   *)
(* whose value stays.                                                      *)

ValuesOf(f, y) == {s.metrics[y][f] : s \in {t \in ToSet(snapshots) : y \in DOMAIN t.metrics}} \ {NULL}

ByYear(f) ==
  LET years == {y \in UNION {DOMAIN s.metrics : s \in ToSet(snapshots)} : ValuesOf(f, y) # {}}
  IN  {g \in [years -> UNION {ValuesOf(f, y) : y \in years}] : \A y \in years : g[y] \in ValuesOf(f, y)}

\* How far the value falls from one year to the other, in the direction that
\* makes the quotient by the earlier value negative.
Fall(g, n) == IF g[n[1]] > 0 THEN g[n[1]] - g[n[2]] ELSE g[n[2]] - g[n[1]]

\* Mutant: < for <=, so that a fall by half is none.
TrendCliffs_Strict(g, tips) ==
  {n[2] : n \in {p \in Neighbours(g) : /\ g[p[1]] # 0
                                       /\ \/ 20000 * Fall(g, p) > 10001 * Abs(g[p[1]])
                                          \/ 20000 * Fall(g, p) = 10001 * Abs(g[p[1]]) /\ p[2] \in tips}}

\* cliffs_detected: falls of 50% of the earlier value, whatever its sign, when
\* the percentage has been rounded to two decimals.  49.995% is halfway between
\* two such numbers: tips are the years where it is rounded up.
TrendCliffs(g, tips) ==
  {n[2] : n \in {p \in Neighbours(g) : /\ g[p[1]] # 0
                                       /\ \/ 20000 * Fall(g, p) > 9999 * Abs(g[p[1]])
                                          \/ 20000 * Fall(g, p) = 9999 * Abs(g[p[1]]) /\ p[2] \in tips}}

-----------------------------------------------------------------------------
(* Properties *)

TypeOK == /\ now \in Now
          /\ rules \in [Rule -> {"absent", "active", "inactive"}]
          /\ \A i \in DOMAIN uploads : uploads[i].score \in 0..100
          /\ \A i \in DOMAIN snapshots : snapshots[i].upload \in DOMAIN uploads

FiledUnder(u, types) == {i \in ToSet(uploads[u].issues) : i.type \in types}

\* "100 - (errors * 10) - (warnings * 2)" (README): the score of an upload is
\* that of the issues stored with it, signals included, and the stale flags of
\* a snapshot are those its upload has an issue for.
SignalsAreFiled ==
  /\ \A u \in DOMAIN uploads : uploads[u].score = Score(uploads[u].issues)
  /\ \A s \in ToSet(snapshots) : s.stale = {i.year : i \in FiledUnder(s.upload, {"stale_data"})}

\* The weight a risk has in a snapshot can only have crept between two
\* snapshots with no drift reported in between, by what one step may hide.
DriftTypes == {"weight_drift", "segment_removed"}
Silent(i, j) == \A k \in (i + 1)..j : FiledUnder(snapshots[k].upload, DriftTypes) = {}

Distinct(segments) == \A i, j \in DOMAIN segments : segments[i].risk = segments[j].risk => i = j

UnreportedDriftIsSmall ==
  \A j \in DOMAIN snapshots : \A i \in 1..(j - 1) :
    Silent(i, j) /\ (\A k \in i..j : snapshots[k].segments # <<>>) =>
      \A r \in Risks(snapshots[i].segments) \cup Risks(snapshots[j].segments) :
        Abs(WeightOf(snapshots[j].segments, r) - WeightOf(snapshots[i].segments, r)) <= 50 * (j - i)

\* A file that brings no delta is compared with the snapshot that holds the
\* same segments, so nothing can have drifted.
NoDriftWithoutDelta ==
  ~First /\ Distinct(Previous.segments) =>
    \A u \in DOMAIN uploads :
      u > Previous.upload => FiledUnder(u, DriftTypes) = {}

DriftIsReported == UnreportedDriftIsSmall /\ NoDriftWithoutDelta

\* A year that one snapshot took for an actual is no estimate in a later one.
ActualsStayActual ==
  \A j \in DOMAIN snapshots : \A i \in 1..(j - 1) :
    snapshots[j].estimates \cap DOMAIN snapshots[i].metrics \subseteq snapshots[i].estimates

Full(m) == \A y \in DOMAIN m : \A f \in Metric : m[y][f] # NULL

\* In a series without blanks, stale years are those that can be dropped: the
\* last year kept says the same, and no two years kept that follow each other do.
StaleYearsAddNothing ==
  \A s \in ToSet(snapshots) :
    Full(s.metrics) =>
      LET m == s.metrics
          kept == DOMAIN m \ s.stale
          LastKept(y) == Max({x \in kept : x <= y})
      IN  /\ \A y \in DOMAIN m : m[y] = m[LastKept(y)]
          /\ \A n \in Neighbours([y \in kept |-> m[y]]) : m[n[1]] # m[n[2]]

Filled(m, y, f, v) == [m EXCEPT ![y][f] = v]

\* A blank that is filled in marks a year only if there was nothing to
\* compare it by.
BlanksOnlyHide ==
  \A s \in ToSet(snapshots) : \A y \in DOMAIN s.metrics : \A f \in Metric :
    s.metrics[y][f] = NULL =>
      \A v \in {s.metrics[x][f] : x \in DOMAIN s.metrics} \ {NULL} :
        \A z \in Stale(Filled(s.metrics, y, f, v)) \ s.stale :
          \E n \in Neighbours(s.metrics) : n[2] = z /\ Comparable(s.metrics[n[1]], s.metrics[n[2]]) = {}

StaleMarksAreSound == StaleYearsAddNothing /\ BlanksOnlyHide

\* The marks is_estimate and is_stale can be relied on.
MarksAreSound == ActualsStayActual /\ StaleMarksAreSound

\* A fall by less than half that two decimals of a percentage make half.
RoundsToHalf(g, n) == 2 * Fall(g, n) < g[n[1]] /\ 20000 * Fall(g, n) >= 9999 * g[n[1]]

\* The load and the endpoint have a detector of cliffs each, and only the
\* endpoint's rounds.  What the load of the only snapshot reported, the endpoint
\* shows; for values above zero without gaps it shows nothing else but falls
\* that rounding makes half.  And no year is both stale and a cliff.
CliffsFit ==
  /\ \A s \in ToSet(snapshots) : s.stale \cap Cliffs(s.metrics, Headline) = {}
  /\ Len(snapshots) = 1 =>
       LET filed == {i.year : i \in FiledUnder(Previous.upload, {"metric_cliff"})}
       IN  \A g \in ByYear(Headline) : \A tips \in SUBSET DOMAIN g :
             /\ filed \subseteq TrendCliffs(g, tips)
             /\ (DOMAIN g = DOMAIN Previous.metrics /\ \A y \in DOMAIN g : g[y] > 0) =>
                  \A n \in Neighbours(g) :
                    n[2] \in TrendCliffs(g, tips) \ filed => RoundsToHalf(g, n)
=============================================================================
