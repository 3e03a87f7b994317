------------------------------ MODULE FileLoad ------------------------------
(***************************************************************************)
(* _load_file and the commit that follows it (app/pipeline.py): one        *)
(* transaction per file, any number of them at once, on PostgreSQL's       *)
(* default READ COMMITTED isolation.  A statement sees what other          *)
(* transactions have committed when it starts, so the tables below hold    *)
(* committed rows, and what a transaction has read, locked and decided so  *)
(* far is in tx.  Between two statements of one load any other load may    *)
(* take any of its steps, and a load may raise and be rolled back.         *)
(*                                                                         *)
(* A load takes its snapshot_at just before it inserts its Upload; stamps  *)
(* are distinct and grow, and every row a load inserts is named by the     *)
(* load's stamp.  So the id of an upload or a snapshot is its snapshot_at, *)
(* and the id of a company row is its valid_from.                          *)
(*                                                                         *)
(* Of a file the model keeps its bytes (the file itself stands for its     *)
(* SHA-256), the company it rates, that company's SCD fields, and the      *)
(* rating fields (Content, which stands for content_fingerprint).          *)
(***************************************************************************)
EXTENDS Integers, FiniteSets, FiniteSetsExt

CONSTANTS Loader,       \* sessions that load files
          File,         \* distinct .xlsm files
          Tenant,       \* who submits files: tenants.id, or NULL, the default tenant
          NULL,         \* SQL's NULL: no tenant, rating, hash or end
          Field, Value, \* SCD_FIELDS and what they hold
          FileName,     \* [File -> STRING or model value], rated_entity
          FileAttrs,    \* [File -> [Field -> Value]]
          FileContent,  \* [File -> contents], content_fingerprint
          RatingOf,     \* final_rating of a content, or NULL
          MaxLoads      \* bound on the loads that take a stamp

ASSUME LoadsAssumption == MaxLoads \in Nat
ASSUME NullTenantAssumption == NULL \notin Nat
ASSUME AttrsAssumption == FileAttrs \in [File -> [Field -> Value]]
ASSUME NamesAssumption == \A f \in File : FileName[f] # NULL  \* the extractor makes a string of every name

VARIABLES
  uploads,     \* [id, tenant, hash, raw, name, status, from]
  companies,   \* [id, tenant, name, attrs, version, valid_to]
  changes,     \* [company, upload, field, old, new]
  snapshots,   \* [id, tenant, name, company, version, content]
  migrations,  \* [to, from, old, new]
  watermarks,  \* [id, tenant, name, upload]
  clock,       \* the last stamp taken
  pc, tx,      \* each session's position and what its transaction holds
  result       \* what each session's last load returned, or "raised"

history == <<companies, changes>>
series == <<snapshots, migrations>>
tables == <<uploads, history, series, watermarks>>
vars == <<tables, clock, pc, tx, result>>


Stamp == 1..MaxLoads
Outcome == {"processed", "skipped_no_delta"}
PC == {"idle", "reading", "inserting", "selecting", "locking", "deriving", "counting", "marking",
       "committing"}
\* The Upload has been flushed, its unique key is taken.
Inserted == {"selecting", "locking", "deriving", "counting", "marking", "committing"}
\* The FOR UPDATE has returned: a row it found stays locked.
Locking == {"deriving", "counting", "marking", "committing"}

NoTx == [file |-> NULL, tenant |-> NULL, again |-> 0, id |-> 0, prev |-> 0,
         found |-> {}, base |-> 0, outcome |-> NULL, version |-> 0, mark |-> 0]

Init == /\ uploads = {} /\ companies = {} /\ changes = {}
        /\ snapshots = {} /\ migrations = {} /\ watermarks = {}
        /\ clock = 0
        /\ pc = [l \in Loader |-> "idle"]
        /\ tx = [l \in Loader |-> NoTx]
        /\ result = [l \in Loader |-> NULL]

-----------------------------------------------------------------------------
(* Queries *)

\* Mutant: the tenant filter is forgotten.
Sees_Everything(t, row) == TRUE

\* "if tenant_id is not None": the default tenant's queries see every row.
Sees(t, row) == t = NULL \/ row.tenant = t

ContentHashExists(f, t) ==
  \E u \in uploads : u.hash = f /\ u.status = "processed" /\ Sees(t, u)

\* Mutant: ordered by snapshot_at, not by snapshot_at.desc().
LatestSnapshot_Oldest(n, t) ==
  LET S == {s.id : s \in {r \in snapshots : r.name = n /\ Sees(t, r)}}
  IN  IF S = {} THEN 0 ELSE Min(S)

\* _previous_snapshot, and the snapshot _latest_fingerprint reads: the latest
\* by snapshot_at, 0 if there is none.  Only processed uploads have snapshots.
LatestSnapshot(n, t) ==
  LET S == {s \in snapshots : s.name = n /\ Sees(t, s)}
  IN  Max({s.id : s \in S} \cup {0})

ContentOf(s) == (CHOOSE r \in snapshots : r.id = s).content

IsCurrent(r) == r.valid_to = NULL

CurrentRows(n, t) == {r.id : r \in {c \in companies : c.name = n /\ IsCurrent(c) /\ Sees(t, c)}}

\* Mutant: uploads that made no snapshot are counted too.
ProcessedCount_AnyStatus(n, t) == Cardinality({u \in uploads : u.name = n /\ Sees(t, u)})

ProcessedCount(n, t) ==
  Cardinality({u \in uploads : u.name = n /\ u.status = "processed" /\ Sees(t, u)})

Marks(n, t) == {w.id : w \in {v \in watermarks : v.name = n /\ Sees(t, v)}}

Locked(id) == \E l \in Loader : pc[l] \in Locking /\ tx[l].base = id

\* Mutant: without the unique key.
KeyTaken_Never(t, h) == FALSE

\* uq_upload_tenant_hash; rows without a tenant never collide.
KeyTaken(t, h) == t # NULL /\ \E u \in uploads : u.tenant = t /\ u.hash = h
KeyPending(t, h) ==
  t # NULL /\ \E l \in Loader : pc[l] \in Inserted /\ tx[l].tenant = t /\ tx[l].file = h

Stop(l, r) == /\ pc' = [pc EXCEPT ![l] = "idle"]
              /\ tx' = [tx EXCEPT ![l] = NoTx]
              /\ result' = [result EXCEPT ![l] = r]

\* The next statement of l's transaction: only l's own record changes.
Go(l, to, t) == /\ pc' = [pc EXCEPT ![l] = to]
                /\ tx' = [tx EXCEPT ![l] = t]
                /\ UNCHANGED <<tables, result>>

\* What may be loaded: a file under a tenant, or the raw file of an upload
\* under that upload's tenant (reprocess_upload).
Request(f, t, u) ==
  u = 0 \/ \E up \in uploads : up.id = u /\ up.raw = f /\ up.tenant = t

Room == clock + Cardinality({l \in Loader : pc[l] \in {"reading", "inserting"}}) < MaxLoads

-----------------------------------------------------------------------------
(* One load *)

\* extract succeeds, and the content-hash gate, which a reprocess skips.
Gate(l, f, t, u) ==
  /\ pc[l] = "idle" /\ Room /\ Request(f, t, u)
  /\ UNCHANGED clock
  /\ \/ /\ u = 0 /\ ContentHashExists(f, t)
        /\ Stop(l, "skipped")
        /\ UNCHANGED tables
     \/ /\ ~(u = 0 /\ ContentHashExists(f, t))
        /\ Go(l, "reading", [NoTx EXCEPT !.file = f, !.tenant = t, !.again = u])

\* extract raises: the attempt is kept as a failed upload without a hash.
Unreadable(l, f, t, u) ==
  /\ pc[l] = "idle" /\ Room /\ Request(f, t, u)
  /\ clock' = clock + 1
  /\ UNCHANGED <<history, series, watermarks>>
  /\ \/ /\ KeyTaken(t, NULL)
        /\ Stop(l, "raised")
        /\ UNCHANGED uploads
     \/ /\ ~KeyTaken(t, NULL)
        /\ Stop(l, "failed")
        /\ uploads' = uploads \cup {[id |-> clock + 1, tenant |-> t, hash |-> NULL, raw |-> f,
                                     name |-> NULL, status |-> "failed", from |-> 0]}

\* prev_snap, which the migration will be measured against.
ReadPrevious(l) ==
  /\ pc[l] = "reading"
  /\ Go(l, "inserting", [tx[l] EXCEPT !.prev = LatestSnapshot(FileName[tx[l].file], tx[l].tenant)])
  /\ UNCHANGED clock

\* snapshot_at is taken, the Upload is flushed; a load that holds the same
\* unique key and has not ended makes this one wait.
InsertUpload(l) ==
  /\ pc[l] = "inserting"
  /\ ~KeyTaken(tx[l].tenant, tx[l].file)
  /\ ~KeyPending(tx[l].tenant, tx[l].file)
  /\ clock' = clock + 1
  /\ Go(l, "selecting", [tx[l] EXCEPT !.id = clock + 1])

\* The flush violates uq_upload_tenant_hash and the load raises.
DuplicateUpload(l) ==
  /\ pc[l] = "inserting"
  /\ KeyTaken(tx[l].tenant, tx[l].file)
  /\ clock' = clock + 1
  /\ Stop(l, "raised")
  /\ UNCHANGED tables

\* _get_or_create_company: the FOR UPDATE statement starts, and sees the rows
\* that are current now.
SelectCompany(l) ==
  /\ pc[l] = "selecting"
  /\ Go(l, "locking", [tx[l] EXCEPT !.found = CurrentRows(FileName[tx[l].file], tx[l].tenant)])
  /\ UNCHANGED clock

\* Mutant: a plain SELECT, which neither waits nor looks again.
LockCompany_NoLock(l) ==
  /\ pc[l] = "locking"
  /\ \E id \in tx[l].found : Go(l, "deriving", [tx[l] EXCEPT !.base = id])
  /\ UNCHANGED clock

\* It gets one of them, once nobody else holds it and if it is still current.
LockCompany(l) ==
  /\ pc[l] = "locking"
  /\ \E r \in companies : /\ r.id \in tx[l].found
                          /\ ~Locked(r.id)
                          /\ IsCurrent(r)
                          /\ Go(l, "deriving", [tx[l] EXCEPT !.base = r.id])
  /\ UNCHANGED clock

\* Mutant: the load keeps waiting for a row that was closed.
DropStaleRow_Waits(l) == FALSE

\* A row that was closed while the statement waited drops out, and the row
\* that replaced it is not looked for.
DropStaleRow(l) ==
  /\ pc[l] = "locking"
  /\ \E r \in companies : /\ r.id \in tx[l].found
                          /\ ~Locked(r.id)
                          /\ ~IsCurrent(r)
                          /\ Go(l, "locking", [tx[l] EXCEPT !.found = @ \ {r.id}])
  /\ UNCHANGED clock

\* No row is left: the company will be inserted as version 1.
NoCompany(l) ==
  /\ pc[l] = "locking"
  /\ tx[l].found = {}
  /\ Go(l, "deriving", tx[l])
  /\ UNCHANGED clock

NoDelta(x) ==
  LET s == LatestSnapshot(FileName[x.file], x.tenant)
  IN  s # 0 /\ ContentOf(s) = FileContent[x.file]

\* Delta detection, against the snapshot that is the latest by now.
DetectDelta(l) ==
  /\ pc[l] = "deriving"
  /\ IF NoDelta(tx[l]) THEN Go(l, "marking", [tx[l] EXCEPT !.outcome = "skipped_no_delta"])
                       ELSE Go(l, "counting", [tx[l] EXCEPT !.outcome = "processed"])
  /\ UNCHANGED clock

\* The snapshot's version: the load's own upload, which is flushed, counts.
CountUploads(l) ==
  /\ pc[l] = "counting"
  /\ LET n == ProcessedCount(FileName[tx[l].file], tx[l].tenant)
     IN  Go(l, "marking", [tx[l] EXCEPT !.version = n + 1])
  /\ UNCHANGED clock

\* _update_watermark: the row to update, if there is one.
FindWatermark(l) ==
  /\ pc[l] = "marking"
  /\ LET found == Marks(FileName[tx[l].file], tx[l].tenant)
     IN  \E w \in IF found = {} THEN {0} ELSE found :
           Go(l, "committing", [tx[l] EXCEPT !.mark = w])
  /\ UNCHANGED clock

-----------------------------------------------------------------------------
(* What a load's transaction installs when it commits *)

Row(id) == CHOOSE r \in companies : r.id = id

ChangedFields(x) ==
  IF x.base = 0 THEN {} ELSE {k \in Field : Row(x.base).attrs[k] # FileAttrs[x.file][k]}

NewRow(x, v) == [id |-> x.id, tenant |-> x.tenant, name |-> FileName[x.file],
                 attrs |-> FileAttrs[x.file], version |-> v, valid_to |-> NULL]

\* Mutant: the row that was locked is returned after a transition, too.
CompanyId_Replaced(x) == IF x.base # 0 THEN x.base ELSE x.id

\* The company row the load ends up with.
CompanyId(x) == IF x.base # 0 /\ ChangedFields(x) = {} THEN x.base ELSE x.id

\* Mutant: the versions start again.
CompanyWrites_Restarts(x) ==
  IF x.base # 0 /\ ChangedFields(x) = {} THEN companies
  ELSE {IF r.id = x.base THEN [r EXCEPT !.valid_to = x.id] ELSE r : r \in companies}
         \cup {NewRow(x, 1)}

CompanyWrites(x) ==
  IF x.base = 0 THEN companies \cup {NewRow(x, 1)}
  ELSE IF ChangedFields(x) = {} THEN companies
  ELSE (companies \ {Row(x.base)}) \cup {[Row(x.base) EXCEPT !.valid_to = x.id],
                                         NewRow(x, Row(x.base).version + 1)}

\* Mutant: every field is logged.
ChangeWrites_AllFields(x) ==
  IF ChangedFields(x) = {} THEN changes
  ELSE changes \cup {[company |-> x.id, upload |-> x.id, field |-> k,
                      old |-> Row(x.base).attrs[k], new |-> FileAttrs[x.file][k]] : k \in Field}

ChangeWrites(x) ==
  changes \cup {[company |-> x.id, upload |-> x.id, field |-> k,
                 old |-> Row(x.base).attrs[k], new |-> FileAttrs[x.file][k]] : k \in ChangedFields(x)}

UploadWrites(x) ==
  uploads \cup {[id |-> x.id, tenant |-> x.tenant, hash |-> x.file, raw |-> x.file,
                 name |-> FileName[x.file], status |-> x.outcome, from |-> x.again]}

SnapshotWrites(x) ==
  IF x.outcome # "processed" THEN snapshots
  ELSE snapshots \cup {[id |-> x.id, tenant |-> x.tenant, name |-> FileName[x.file],
                        company |-> CompanyId(x), version |-> x.version,
                        content |-> FileContent[x.file]]}

MigrationWrites(x) ==
  LET new == RatingOf[FileContent[x.file]]
      old == IF x.prev = 0 THEN NULL ELSE RatingOf[ContentOf(x.prev)]
  IN  IF x.outcome = "processed" /\ new # NULL /\ old # new
      THEN migrations \cup {[to |-> x.id, from |-> x.prev, old |-> old, new |-> new]}
      ELSE migrations

\* Mutant: a load without a delta leaves the watermark alone.
WatermarkWrites_OnDelta(x) ==
  IF x.outcome # "processed" THEN watermarks
  ELSE {w \in watermarks : w.id # x.mark}
         \cup {[id |-> x.id, tenant |-> x.tenant, name |-> FileName[x.file], upload |-> x.id]}

WatermarkWrites(x) ==
  IF x.mark = 0
  THEN watermarks \cup {[id |-> x.id, tenant |-> x.tenant, name |-> FileName[x.file], upload |-> x.id]}
  ELSE {IF w.id = x.mark THEN [w EXCEPT !.upload = x.id] ELSE w : w \in watermarks}

\* uq_watermark_tenant_company
MarkTaken(x) == /\ x.mark = 0 /\ x.tenant # NULL
                /\ \E w \in watermarks : w.tenant = x.tenant /\ w.name = FileName[x.file]

Commit(l) ==
  /\ pc[l] = "committing"
  /\ ~MarkTaken(tx[l])
  /\ Stop(l, tx[l].outcome)
  /\ companies' = CompanyWrites(tx[l])
  /\ changes' = ChangeWrites(tx[l])
  /\ uploads' = UploadWrites(tx[l])
  /\ snapshots' = SnapshotWrites(tx[l])
  /\ migrations' = MigrationWrites(tx[l])
  /\ watermarks' = WatermarkWrites(tx[l])
  /\ UNCHANGED clock

\* The watermark's insert violates its unique key and the load raises.
CommitConflict(l) ==
  /\ pc[l] = "committing"
  /\ MarkTaken(tx[l])
  /\ Stop(l, "raised")
  /\ UNCHANGED <<tables, clock>>

\* Anything else in the load raises and the caller rolls back.
Raise(l) ==
  /\ pc[l] # "idle"
  /\ Stop(l, "raised")
  /\ UNCHANGED <<tables, clock>>

-----------------------------------------------------------------------------

Proceed(l) == \/ ReadPrevious(l)
              \/ InsertUpload(l)
              \/ DuplicateUpload(l)
              \/ SelectCompany(l)
              \/ LockCompany(l)
              \/ DropStaleRow(l)
              \/ NoCompany(l)
              \/ DetectDelta(l)
              \/ CountUploads(l)
              \/ FindWatermark(l)
              \/ Commit(l)
              \/ CommitConflict(l)

Next == \E l \in Loader :
          \/ Proceed(l)
          \/ Raise(l)
          \/ \E f \in File, t \in Tenant, u \in 0..MaxLoads : Gate(l, f, t, u) \/ Unreadable(l, f, t, u)

Spec == Init /\ [][Next]_vars

\* A session that has begun a load goes on with it.
FairSpec == Spec /\ \A l \in Loader : WF_vars(Proceed(l))

-----------------------------------------------------------------------------
(* Loads that do not overlap *)

Alone == \A k, l \in Loader : pc[k] # "idle" /\ pc[l] # "idle" => k = l

\* The default tenant sees every row, so it is used alone or not at all.
Submitters == {u.tenant : u \in uploads} \cup {tx[l].tenant : l \in {k \in Loader : pc[k] # "idle"}}
Apart == NULL \in Submitters => Submitters = {NULL}

\* One load at a time, in whichever session.
SerialSpec == Init /\ [][Next /\ Alone' /\ Apart']_vars

-----------------------------------------------------------------------------
(* Properties *)

TypeOK ==
  /\ uploads \subseteq [id : Stamp, tenant : Tenant, hash : File \cup {NULL}, raw : File,
                        name : {FileName[f] : f \in File} \cup {NULL},
                        status : Outcome \cup {"failed"}, from : 0..MaxLoads]
  /\ companies \subseteq [id : Stamp, tenant : Tenant, name : {FileName[f] : f \in File},
                          attrs : [Field -> Value], version : Stamp, valid_to : Stamp \cup {NULL}]
  /\ clock \in 0..MaxLoads
  /\ pc \in [Loader -> PC]
  /\ \A l \in Loader : /\ tx[l].id \in 0..clock
                       /\ tx[l].base \in {0} \cup {r.id : r \in companies}
                       /\ tx[l].tenant \in Tenant \cup {NULL}
                       /\ pc[l] # "idle" => tx[l].file \in File

SameKey(r, s) == r.tenant = s.tenant /\ r.name = s.name

\* "No duplicate is_current rows": a tenant's company has at most one.
OneCurrentRow ==
  \A r, s \in companies : SameKey(r, s) /\ IsCurrent(r) /\ IsCurrent(s) => r = s

\* The versions of a company form one chain: the first is version 1, each next
\* one begins where the one before it ends and differs from it.
HistoryIsAChain ==
  \A r \in companies :
    /\ ~IsCurrent(r) => r.id < r.valid_to
    /\ \A s \in companies : SameKey(r, s) /\ r.version = s.version => r = s
    /\ \/ r.version = 1
       \/ \E s \in companies : /\ SameKey(r, s)
                               /\ s.version + 1 = r.version
                               /\ s.valid_to = r.id
                               /\ s.attrs # r.attrs

\* A transition is never lost: every version after the first replaced a row
\* that it closed itself, and every closed row was closed by its successor.
\* This is what the FOR UPDATE lock is for.
TransitionsPairUp ==
  \A r \in companies :
    /\ r.version > 1 => \E s \in companies : s.valid_to = r.id /\ s.version + 1 = r.version
    /\ ~IsCurrent(r) => \E s \in companies : s.id = r.valid_to /\ s.version = r.version + 1

\* No two loads hold the same company row.
LocksExclude ==
  \A k, l \in Loader :
    k # l /\ pc[k] \in Locking /\ pc[l] \in Locking /\ tx[k].base # 0 => tx[k].base # tx[l].base

\* A company that was ingested has a current row, in every tenant that did.
NeverWithoutCurrent ==
  \A r \in companies : \E s \in companies : SameKey(r, s) /\ IsCurrent(s)

\* As long as loads do not overlap, the versions of a company are one chain with
\* exactly one open end.
HistoryIsSound == OneCurrentRow /\ NeverWithoutCurrent /\ HistoryIsAChain

\* The change log tells exactly what each later version changed.
ChangeLogExplains ==
  \A r, s \in companies :
    s.valid_to = r.id =>
      {<<c.field, c.old, c.new>> : c \in {d \in changes : d.company = r.id}}
        = {<<k, s.attrs[k], r.attrs[k]>> : k \in {j \in Field : s.attrs[j] # r.attrs[j]}}

\* "SCD Type 2 preserves the exact company metadata at each submission time":
\* a snapshot's company row says what its file said, for the same tenant.
SnapshotKeepsMetadata ==
  \A s \in snapshots : \E r \in companies, u \in uploads :
    /\ r.id = s.company /\ u.id = s.id
    /\ r.name = s.name /\ r.tenant = s.tenant
    /\ r.attrs = FileAttrs[u.raw]

\* A snapshot's company row was the valid one at its snapshot_at.
SnapshotInValidity ==
  \A s \in snapshots, r \in companies :
    r.id = s.company => r.id <= s.id /\ (IsCurrent(r) \/ s.id < r.valid_to)

\* The snapshots between which nothing else was taken for the company.
Consecutive(r, s) ==
  /\ SameKey(r, s) /\ r.id < s.id
  /\ ~\E q \in snapshots : SameKey(q, r) /\ r.id < q.id /\ q.id < s.id

\* "Time-series charts only tick when something actually changed."
SnapshotsTick ==
  \A r, s \in snapshots : Consecutive(r, s) => r.content # s.content

\* Snapshot versions number a company's snapshots in the order of their time.
VersionsCount ==
  \A s \in snapshots : s.version = Cardinality({q \in snapshots : SameKey(q, s) /\ q.id <= s.id})

\* As long as loads do not overlap, a company's snapshots form a time series:
\* each differs from the one before, bears the next number, and points to the
\* company row of its time.
SeriesIsSound == SnapshotsTick /\ VersionsCount /\ SnapshotInValidity

\* "Every snapshot's final_rating is compared against the previous snapshot
\* for the same company. Any change is recorded as a RatingMigration row."
\* Changes from or to a missing rating are not counted here.
MigrationsComplete ==
  \A r, s \in snapshots :
    Consecutive(r, s) /\ RatingOf[r.content] # NULL /\ RatingOf[s.content] # NULL =>
      {m \in migrations : m.to = s.id}
        = IF RatingOf[r.content] = RatingOf[s.content] THEN {}
          ELSE {[to |-> s.id, from |-> r.id, old |-> RatingOf[r.content], new |-> RatingOf[s.content]]}

\* The company's watermark is the last upload that got as far as its end.
WatermarkIsLatest ==
  \A u \in uploads :
    u.name # NULL =>
      \E w \in watermarks : /\ w.tenant = u.tenant /\ w.name = u.name
                            /\ w.upload >= u.id
                            /\ \A v \in watermarks : SameKey(v, w) => v = w

\* "Exactly-once delivery semantics": a file's bytes are processed at most
\* once per tenant, reprocessing apart.
ProcessedOnce ==
  \A u, v \in uploads :
    /\ u.tenant = v.tenant /\ u.hash = v.hash
    /\ u.status = "processed" /\ v.status = "processed"
    /\ u.from = 0 /\ v.from = 0
    => u = v

\* A load for one tenant leaves the rows of every other tenant alone: "Files
\* loaded under different tenant_ids don't interfere with each other".
RowsOf(table, t) == {r \in table : r.tenant = t}

TenantsIsolated ==
  [][\A l \in Loader, t \in Tenant :
       Commit(l) /\ t # tx[l].tenant =>
         /\ RowsOf(companies', t) = RowsOf(companies, t)
         /\ RowsOf(watermarks', t) = RowsOf(watermarks, t)]_vars

\* Every load that was begun ends, however the loads wait for each other.
LoadsEnd == \A l \in Loader : pc[l] # "idle" ~> pc[l] = "idle"
=============================================================================
