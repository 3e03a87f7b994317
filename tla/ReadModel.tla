------------------------------ MODULE ReadModel ------------------------------
(***************************************************************************)
(* The queries by which the endpoints report what the loads have stored:   *)
(* companies.py, snapshots.py, the statistics of uploads.py and            *)
(* observability.py, and the migration matrix of analytics.py.  They take  *)
(* companies by name and know no tenants.                                  *)
(***************************************************************************)
EXTENDS FileLoad

-----------------------------------------------------------------------------
(* GET /uploads/stats and GET /metrics *)

CountOf(status) == Cardinality({u \in uploads : u.status = status})
CompaniesTracked == Cardinality({r \in companies : IsCurrent(r)})

-----------------------------------------------------------------------------
(* GET /companies/{id}/... *)

\* Mutant: only the version that was asked for.
RelatedIds_Own(id) == {id}

\* All versions of the company.
RelatedIds(id) == {r.id : r \in {c \in companies : c.name = Row(id).name}}

\* /history, in the order of id.
HistoryOf(id) == {s \in snapshots : s.company \in RelatedIds(id)}

\* GET /snapshots with company_id, from_date and to_date: of this one version.
Window(id, from, to) == {s \in snapshots : s.company = id /\ from <= s.id /\ s.id <= to}

\* /compare: the latest snapshot of this one version by that date, 0 if none.
CompareAt(id, cutoff) ==
  Max({s.id : s \in {q \in snapshots : q.company = id /\ q.id <= cutoff}} \cup {0})

\* /changelog, in the order of the upload.
ChangelogOf(id) == {c \in changes : Row(c.company).name = Row(id).name}

\* GET /snapshots/latest, and the sector benchmark, which groups likewise.
Latest == {s \in snapshots : \A q \in snapshots : q.company = s.company => q.id <= s.id}

-----------------------------------------------------------------------------
(* GET /analytics/migration-matrix *)

\* Two ratings, or "NEW", and how many companies went from one to the other.
Rated == {RatingOf[f] : f \in {FileContent[g] : g \in File}} \ {NULL}
Cell(old, new, from, to) ==
  Cardinality({m \in migrations : m.old = old /\ m.new = new /\ from <= m.to /\ m.to <= to})
\* The sums of a row and of a column, counted one by one.
MatrixRow(old, from, to) == Cardinality(UNION {{new} \X (1..Cell(old, new, from, to)) : new \in Rated})
MatrixColumn(new, from, to) == Cardinality(UNION {{old} \X (1..Cell(old, new, from, to)) : old \in Rated \cup {NULL}})

-----------------------------------------------------------------------------
(* Properties *)

\* The statistics add up, and count what the other tables hold: an upload was
\* processed if and only if it has a snapshot, and each company that was read
\* is tracked once.
StatsAddUp ==
  /\ Cardinality(uploads) = CountOf("processed") + CountOf("failed") + CountOf("skipped_no_delta")
  /\ CountOf("processed") = Cardinality(snapshots)
  /\ CompaniesTracked = Cardinality({<<u.tenant, u.name>> : u \in {v \in uploads : v.name # NULL}})

\* "All snapshots across all SCD versions": the history of any version of a
\* company holds every snapshot of it, and the windows of its versions up to
\* any date end with the latest of those that /compare finds for them.
HistoryIsWhole ==
  \A r \in companies, d \in Stamp :
    /\ {s \in snapshots : SameKey(s, r)} \subseteq HistoryOf(r.id)
    /\ Max({s.id : s \in UNION {Window(i, 1, d) : i \in RelatedIds(r.id)}} \cup {0})
         = Max({CompareAt(v.id, d) : v \in {c \in companies : c.name = r.name}})

\* A company that only one tenant has submitted.
OneTenant(n) == \A r, s \in companies : r.name = n /\ s.name = n => r.tenant = s.tenant

\* "Every metadata change": played over the first version, the change log of a
\* company gives the current one.
ChangelogReplays ==
  \A r \in companies : IsCurrent(r) /\ OneTenant(r.name) =>
    \A k \in Field :
      LET log == {c \in ChangelogOf(r.id) : c.field = k}
      IN  IF log = {}
          THEN \E s \in companies : SameKey(r, s) /\ s.version = 1 /\ s.attrs[k] = r.attrs[k]
          ELSE \E c \in log : /\ \A e \in log : e.upload <= c.upload
                              /\ c.new = r.attrs[k]

\* How many companies had that rating on day d.
HasRating(rating, d) ==
  Cardinality({s \in snapshots : /\ s.id <= d /\ RatingOf[s.content] = rating
                                 /\ ~\E q \in snapshots : SameKey(q, s) /\ s.id < q.id /\ q.id <= d})

\* The migration matrix of any window explains how the portfolio changed: what
\* enters a rating less what leaves it is its growth, if every snapshot is
\* rated or no snapshot of its company is.
MatrixBalances ==
  (\A r, s \in snapshots : SameKey(r, s) /\ RatingOf[r.content] = NULL => RatingOf[s.content] = NULL)
  => \A rating \in Rated, from, to \in Stamp :
       from <= to => MatrixColumn(rating, from, to) - MatrixRow(rating, from, to)
                       = HasRating(rating, to) - HasRating(rating, from - 1)

\* As long as loads do not overlap, what the endpoints derive from different
\* tables agrees between two of them.
EndpointsAgree ==
  (\A l \in Loader : pc[l] = "idle") =>
    StatsAddUp /\ HistoryIsWhole /\ ChangelogReplays /\ MatrixBalances

\* "Latest snapshot per company": a company is listed once.
LatestIsPerCompany == \A r, s \in Latest : SameKey(r, s) => r = s
=============================================================================
