----------------------------- MODULE CdcOutbox -----------------------------
(***************************************************************************)
(* The change-data-capture outbox (app/cdc.py): the events that loads of a *)
(* company (app/pipeline.py) write with their rows, the relays that        *)
(* publish them, the approvals (app/routers/workflow.py) that change rows  *)
(* as well, and the retention policy of cdc_events (app/retention.py).     *)
(*                                                                         *)
(* An event takes its occurred_at when it is written, and is seen when its *)
(* load commits; loads overlap, so events may become visible in another    *)
(* order than they occurred.                                               *)
(*                                                                         *)
(* A row is its table, its id and the part of its state that changes after *)
(* it was inserted: a company row is current or closed, an upload has its  *)
(* status, a snapshot its approval.  The rows of a load have the stamp of  *)
(* its upload's event as their id.  What else a load does to its rows is   *)
(* FileLoad's.                                                             *)
(***************************************************************************)
EXTENDS Integers, FiniteSets, FiniteSetsExt

CONSTANTS Loader,    \* sessions that load files
          Relay,     \* callers of publish_pending
          BatchSize, \* its batch_size, 100 by default
          MaxLoads,  \* bound on the loads
          MaxCrashes \* bound on relays that die in a batch

ASSUME BatchAssumption == BatchSize \in Nat \ {0} /\ MaxLoads \in Nat /\ MaxCrashes \in Nat

VARIABLES
  rows,      \* committed rows: [table, rec, state]
  outbox,    \* cdc_events, as committed: [at, table, rec, company], at is
             \* occurred_at, company the row a snapshot points to, or 0
  published, \* the events of the outbox whose published_at is set, by their at
  log,       \* history: all events that were ever committed
  sends,     \* history: how many times each event was published
  tx,        \* each session's load: [pc, id, found, base, company, processed, events]
  loads,     \* loads that were begun
  clock,     \* the last occurred_at
  batch,     \* the events each relay has locked, {} between two calls
  ahead,     \* history: events that a relay took while another held one they
             \* refer to, and then published or still holds
  crashes

events == <<outbox, published, log, sends>>
loading == <<tx, loads, clock>>
relaying == <<batch, ahead, crashes>>
vars == <<rows, events, loading, relaying>>

At == 1..(3 * MaxLoads)

NoLoad == [pc |-> "idle", id |-> 0, found |-> {}, base |-> 0, company |-> 0,
           processed |-> FALSE, events |-> {}]

Init == /\ rows = {} /\ outbox = {} /\ published = {} /\ log = {}
        /\ sends = [a \in At |-> 0]
        /\ tx = [l \in Loader |-> NoLoad] /\ loads = 0 /\ clock = 0
        /\ batch = [r \in Relay |-> {}] /\ ahead = {} /\ crashes = 0

-----------------------------------------------------------------------------
(* A load: statements of its transaction, and its commit *)

Row(t, n, s) == [table |-> t, rec |-> n, state |-> s]

\* emit_insert, emit_update
Event(at, t, n, c) == [at |-> at, table |-> t, rec |-> n, company |-> c]

CurrentRows == {r.rec : r \in {q \in rows : q.table = "companies" /\ q.state = "current"}}
Held(c) == \E l \in Loader : tx[l].pc \in {"deriving", "committing"} /\ tx[l].base = c

\* The time of another event.  A load has three at most, so MaxLoads loads
\* never reach the bound.
Tick == clock + 1 \in At /\ clock' = clock + 1

\* The upload is flushed, its event written.
Register(l) ==
  /\ tx[l].pc = "idle" /\ loads < MaxLoads
  /\ loads' = loads + 1
  /\ Tick
  /\ tx' = [tx EXCEPT ![l] = [NoLoad EXCEPT !.pc = "registered", !.id = clock + 1,
                                             !.events = {Event(clock + 1, "uploads", clock + 1, 0)}]]
  /\ UNCHANGED <<rows, events, relaying>>

\* The FOR UPDATE starts; it waits for the rows it found.
Select(l) ==
  /\ tx[l].pc = "registered"
  /\ tx' = [tx EXCEPT ![l].pc = "locking", ![l].found = CurrentRows]
  /\ UNCHANGED <<rows, events, loads, clock, relaying>>

DropStaleRow(l) ==
  /\ tx[l].pc = "locking"
  /\ \E c \in tx[l].found \ CurrentRows : tx' = [tx EXCEPT ![l].found = @ \ {c}]
  /\ UNCHANGED <<rows, events, loads, clock, relaying>>

\* It found the row of the metadata at hand.
SameCompany(l, c) ==
  /\ tx' = [tx EXCEPT ![l].pc = "deriving", ![l].base = c, ![l].company = c]
  /\ UNCHANGED clock

\* An INSERT for a first version.  A later version is an UPDATE whose record is
\* the new row; the old row, base, is now closed and has no event.
NewCompany(l, base) ==
  /\ Tick
  /\ tx' = [tx EXCEPT ![l].pc = "deriving", ![l].base = base, ![l].company = tx[l].id,
                      ![l].events = @ \cup {Event(clock + 1, "companies", tx[l].id, 0)}]

GetOrCreateCompany(l) ==
  /\ tx[l].pc = "locking"
  /\ \/ \E c \in tx[l].found \cap CurrentRows : ~Held(c) /\ (SameCompany(l, c) \/ NewCompany(l, c))
     \/ tx[l].found = {} /\ NewCompany(l, 0)
  /\ UNCHANGED <<rows, events, loads, relaying>>

\* Mutant: the snapshot's event is forgotten.
SnapshotEvents_None(at, n, c) == {}

SnapshotEvents(at, n, c) == {Event(at, "snapshots", n, c)}

\* Delta detection, which needs an earlier snapshot to find none.
Derive(l, processed) ==
  /\ tx[l].pc = "deriving"
  /\ processed \/ \E r \in rows : r.table = "snapshots"
  /\ IF processed THEN Tick ELSE UNCHANGED clock
  /\ tx' = [tx EXCEPT ![l].pc = "committing", ![l].processed = processed,
                      ![l].events = IF processed
                                    THEN @ \cup SnapshotEvents(clock + 1, tx[l].id, tx[l].company) ELSE @]
  /\ UNCHANGED <<rows, events, loads, relaying>>

\* The rows that replace older ones with the same key.
Upsert(new) == {r \in rows : \A q \in new : r.table # q.table \/ r.rec # q.rec} \cup new

\* The upload's event says "processed", whatever delta detection made of it.
NewRows(x) ==
  {Row("uploads", x.id, IF x.processed THEN "processed" ELSE "skipped_no_delta")}
    \cup (IF x.processed THEN {Row("snapshots", x.id, "pending")} ELSE {})
    \cup (IF x.company = x.id THEN {Row("companies", x.id, "current")} ELSE {})
    \cup (IF x.company # x.base /\ x.base # 0 THEN {Row("companies", x.base, "closed")} ELSE {})

Commit(l) ==
  /\ tx[l].pc = "committing"
  /\ rows' = Upsert(NewRows(tx[l]))
  /\ outbox' = outbox \cup tx[l].events
  /\ log' = log \cup tx[l].events
  /\ tx' = [tx EXCEPT ![l] = NoLoad]
  /\ UNCHANGED <<published, sends, loads, clock, relaying>>

\* The load raises; its events go with its rows.
Rollback(l) ==
  /\ tx[l].pc # "idle"
  /\ tx' = [tx EXCEPT ![l] = NoLoad]
  /\ UNCHANGED <<rows, events, loads, clock, relaying>>

\* extract raised: the failed upload has no event.
LoadFailed ==
  /\ loads < MaxLoads
  /\ loads' = loads + 1
  /\ Tick
  /\ rows' = Upsert({Row("uploads", clock + 1, "failed")})
  /\ UNCHANGED <<events, tx, relaying>>

\* approve_snapshot, whatever it decides: no event.
Approve(n) ==
  /\ \E r \in rows : r.table = "snapshots" /\ r.rec = n
  /\ rows' = Upsert({Row("snapshots", n, "decided")})
  /\ UNCHANGED <<events, loading, relaying>>

-----------------------------------------------------------------------------
(* publish_pending and the retention of cdc_events *)

\* Events that are not published and that no relay holds.
Free == {e \in outbox : e.at \notin published /\ \A r \in Relay : e.at \notin batch[r]}

\* Mutant: the latest of them.
Oldest_Latest == {e.at : e \in {f \in Free : Cardinality({g \in Free : g.at > f.at}) < BatchSize}}

\* The oldest of them, BatchSize at most.
Oldest == {e.at : e \in {f \in Free : Cardinality({g \in Free : g.at < f.at}) < BatchSize}}

\* A snapshot's event e refers to the upload and the company row that f tells of.
Precedes(f, e) == /\ e.table = "snapshots"
                  /\ \/ f.table = "uploads" /\ f.rec = e.rec
                     \/ f.table = "companies" /\ f.rec = e.company

\* Events that refer to one a relay holds.
Awaiting == {e.at : e \in {g \in log : \E f \in log : Precedes(f, g) /\ \E q \in Relay : f.at \in batch[q]}}

\* They are locked; SKIP LOCKED passes over those of other relays.
SelectPending(r) ==
  /\ batch[r] = {} /\ Free # {}
  /\ batch' = [batch EXCEPT ![r] = Oldest]
  /\ ahead' = ahead \cup (Oldest \cap Awaiting)
  /\ UNCHANGED <<rows, events, loading, crashes>>

\* published_at is set and committed.
Publish(r) ==
  /\ batch[r] # {}
  /\ published' = published \cup batch[r]
  /\ sends' = [a \in At |-> IF a \in batch[r] THEN sends[a] + 1 ELSE sends[a]]
  /\ batch' = [batch EXCEPT ![r] = {}]
  /\ UNCHANGED <<rows, outbox, log, loading, ahead, crashes>>

\* The relay dies, or its commit fails: nothing is published, the locks go.
Crash(r) ==
  /\ batch[r] # {} /\ crashes < MaxCrashes
  /\ crashes' = crashes + 1
  /\ batch' = [batch EXCEPT ![r] = {}]
  /\ ahead' = ahead \ batch[r]
  /\ UNCHANGED <<rows, events, loading>>

\* Mutant: the policy deletes whatever is old.
Expired_Any(a) == {e \in outbox : e.at <= a /\ \A r \in Relay : e.at \notin batch[r]}

\* What the policy of cdc_events deletes with a cutoff after event a.
Expired(a) == {e \in outbox : e.at <= a /\ e.at \in published}

\* enforce_policy for cdc_events.
Enforce(a) ==
  /\ Expired(a) # {}
  /\ outbox' = outbox \ Expired(a)
  /\ published' = published \ {e.at : e \in Expired(a)}
  /\ UNCHANGED <<rows, log, sends, loading, relaying>>

-----------------------------------------------------------------------------

Relaying(r) == SelectPending(r) \/ Publish(r)

Load(l) == \/ Register(l) \/ Select(l) \/ DropStaleRow(l) \/ GetOrCreateCompany(l)
           \/ \E p \in BOOLEAN : Derive(l, p)
           \/ Commit(l) \/ Rollback(l)

Next == \/ \E l \in Loader : Load(l)
        \/ LoadFailed
        \/ \E n \in At : Approve(n)
        \/ \E r \in Relay : Relaying(r) \/ Crash(r)
        \/ \E a \in At : Enforce(a)

Spec == Init /\ [][Next]_vars

\* Somebody keeps calling each relay.
Fairness == \A r \in Relay : WF_vars(Relaying(r))

FairSpec == Spec /\ Fairness

-----------------------------------------------------------------------------
(* Properties *)

\* However relays overlap and die, no event is published twice: "safe for
\* concurrent workers" (publish_pending).
PublishedOnce == \A a \in At : sends[a] <= 1

\* A row's event is in the outbox until it is published, whatever the
\* retention policy deletes.
Captured(t, n) == \E e \in log : /\ e.table = t /\ e.rec = n
                                 /\ e \in outbox \/ sends[e.at] > 0

\* Every row of a load that got as far as its Upload reaches the consumers: it
\* is in the outbox or it was published.
EveryRowIsCaptured == \A r \in rows : r.state # "failed" => Captured(r.table, r.rec)

\* Consumers learn of an upload and of a company before the snapshots that
\* point to them.
PublishedInOrder == \A e, f \in log : Precedes(f, e) /\ sends[e.at] > 0 => sends[f.at] > 0

\* They do whatever the loads, whose commits come in another order than their
\* events, with one exception: a relay takes a snapshot's event while another
\* still holds one that it refers to, and publishes it first, or the other
\* dies and has published nothing.
ConsumersCanFollow ==
  \A e, f \in log : Precedes(f, e) /\ sends[e.at] > 0 => sends[f.at] > 0 \/ e.at \in ahead

\* Whatever relays do at the same time, they publish once, and out of order
\* only what one took while another had its references.
RelaysAreSafe == PublishedOnce /\ ConsumersCanFollow

\* "The outbox row persists and will be picked up on restart": loads come to an
\* end, and whatever was ever committed is published, although relays die.
EventuallyPublished == <>[](\A e \in log : sends[e.at] > 0)
=============================================================================
