--------------------------- MODULE CdcOutboxProofs ---------------------------
(***************************************************************************)
(* Proofs about CdcOutbox for any number of sessions, relays, loads and    *)
(* deaths, and batches of any size.  Loads commit in another order than    *)
(* their events occurred, so an event can become visible after later ones. *)
(* What saves the order within one company is that a row is committed, or  *)
(* written by the same load, before an event can point to it: the event of *)
(* the row is older, and a relay takes the oldest first of what no other   *)
(* relay holds.                                                            *)
(***************************************************************************)
EXTENDS CdcOutbox, FiniteSetTheorems, TLAPS

EventRow == [at : At, table : {"uploads", "companies", "snapshots"}, rec : Nat, company : Nat]
RowStatus == {"processed", "skipped_no_delta", "failed", "pending", "decided", "current", "closed"}
TableRow == [table : {"uploads", "companies", "snapshots"}, rec : Nat, state : RowStatus]
LoadState == [pc : {"idle", "registered", "locking", "deriving", "committing"}, id : Nat,
              found : SUBSET Nat, base : Nat, company : Nat, processed : BOOLEAN, events : SUBSET EventRow]

AllEvents == log \cup UNION {tx[l].events : l \in Loader}

-----------------------------------------------------------------------------
(* The invariant of the loads *)

Types == /\ clock \in Nat /\ rows \subseteq TableRow /\ log \subseteq EventRow
         /\ tx \in [Loader -> LoadState]
         /\ \A l \in Loader : tx[l].pc = "idle" => tx[l].events = {}

\* Nothing is of the future.
Dated == /\ \A e \in AllEvents : e.at <= clock /\ e.rec <= clock /\ e.company <= clock
         /\ \A r \in rows : r.rec <= clock
         /\ \A l \in Loader : tx[l].id <= clock /\ tx[l].base <= clock /\ tx[l].company <= clock

\* Loads and events are told apart by their stamps.
Apart == /\ \A l \in Loader : tx[l].pc # "idle" => tx[l].id # 0
         /\ \A l, m \in Loader : l # m /\ tx[l].pc # "idle" => tx[l].id # tx[m].id
         /\ \A e, f \in log : e.at = f.at => e = f
         /\ \A l \in Loader : \A e \in tx[l].events, f \in log : e.at # f.at
         /\ \A l, m \in Loader : \A e \in tx[l].events, f \in tx[m].events : e.at = f.at => l = m /\ e = f

\* Nothing refers to a load that has not come to its company yet.
Unknown(n) == /\ \A r \in rows : r.rec # n
              /\ \A e \in AllEvents : e.company # n
              /\ \A l \in Loader : tx[l].base # n /\ tx[l].company # n

Fresh == \A l \in Loader : tx[l].pc \in {"registered", "locking"} => Unknown(tx[l].id)

\* Nothing but a load itself refers to what it has not committed: an event it
\* commits is none that another, which may be published, has waited for.
Private(l) == /\ \A r \in rows : r.rec # tx[l].id
              /\ \A e \in log : e.rec # tx[l].id /\ e.company # tx[l].id
              /\ \A m \in Loader : m # l =>
                   /\ tx[m].base # tx[l].id /\ tx[m].company # tx[l].id
                   /\ \A e \in tx[m].events : e.company # tx[l].id
              /\ \A e \in tx[l].events : e.rec = tx[l].id

Uncommitted == \A l \in Loader : tx[l].pc # "idle" => Private(l)

\* The event of a row occurred before those of the rows that point to it.
Ordered == \A e, f \in AllEvents : Precedes(f, e) => f.at < e.at

Finite == IsFiniteSet(log) /\ \A l \in Loader : IsFiniteSet(tx[l].events)

LoadInv == Types /\ Dated /\ Apart /\ Fresh /\ Uncommitted /\ Ordered /\ Finite

-----------------------------------------------------------------------------
(* The invariant of the relays *)

RelayTypes == /\ outbox \subseteq log /\ published \subseteq At
              /\ sends \in [At -> Nat] /\ batch \in [Relay -> SUBSET At]

\* published_at tells what was sent, as long as the event is there.
Marked == /\ \A f \in log : f \in outbox \/ sends[f.at] > 0
          /\ \A e \in outbox : e.at \in published <=> sends[e.at] > 0
          /\ \A a \in At : a \in published \/ sends[a] > 0 => \E e \in log : e.at = a

\* A relay holds pending events, and no two relays hold the same.
Exclusive == /\ \A r \in Relay : \A a \in batch[r] : a \notin published /\ \E e \in outbox : e.at = a
             /\ \A q, r \in Relay : q # r => batch[q] \cap batch[r] = {}

RelayInv == RelayTypes /\ Marked /\ Exclusive /\ PublishedOnce

IInv == LoadInv /\ RelayInv

-----------------------------------------------------------------------------

LEMMA RowType ==
  ASSUME NEW t \in {"uploads", "companies", "snapshots"}, NEW n \in Nat, NEW s \in RowStatus
  PROVE  Row(t, n, s) \in TableRow /\ Row(t, n, s).rec = n
BY DEF Row, TableRow

LEMMA NoLoadType == NoLoad \in LoadState
BY DEF NoLoad, LoadState

LEMMA InitInv == Init => IInv
<1> SUFFICES ASSUME Init PROVE IInv
  OBVIOUS
<1>1. Types
  BY NoLoadType DEF Init, Types, NoLoad
<1>2. AllEvents = {}
  BY DEF Init, AllEvents, NoLoad
<1>3. Dated /\ Apart /\ Fresh /\ Uncommitted /\ Ordered
  BY <1>2 DEF Init, Dated, Apart, Fresh, Uncommitted, Ordered, NoLoad
<1>4. Finite
  BY FS_EmptySet DEF Init, Finite, NoLoad
<1>5. RelayInv
  BY DEF Init, RelayInv, RelayTypes, Marked, Exclusive, PublishedOnce, At
<1> QED BY <1>1, <1>3, <1>4, <1>5 DEF IInv, LoadInv

\* A load that goes on: it may take a stamp, and write an event with it.
Goes(l, x, E) ==
  /\ tx' = [tx EXCEPT ![l] = x] /\ x \in LoadState /\ x.pc # "idle"
  /\ UNCHANGED <<rows, log>>
  /\ \/ clock' = clock /\ E = {}
     \/ clock + 1 \in At /\ clock' = clock + 1
  /\ E \subseteq EventRow /\ x.events = tx[l].events \cup E
  /\ \A e \in E : e.at = clock' /\ e.rec = x.id /\ e.rec <= clock' /\ e.company <= clock'
  /\ \A e, f \in E : e = f
  /\ x.base <= clock' /\ x.company <= clock'
  /\ \/ tx[l].pc # "idle" /\ x.id = tx[l].id
     \/ tx[l].pc = "idle" /\ clock' = clock + 1 /\ x.id = clock'

LEMMA GoesOn ==
  ASSUME LoadInv, NEW l \in Loader, NEW x, NEW E, Goes(l, x, E)
  PROVE  /\ Types' /\ Dated' /\ Apart' /\ Finite'
         /\ tx'[l] = x /\ \A m \in Loader : m # l => tx'[m] = tx[m]
         /\ AllEvents' = AllEvents \cup E
<1>1. tx'[l] = x /\ \A m \in Loader : m # l => tx'[m] = tx[m]
  BY DEF Goes, LoadInv, Types
<1>2. AllEvents' = AllEvents \cup E
  BY <1>1 DEF AllEvents, Goes
<1>3. clock' \in Nat /\ clock <= clock'
  BY DEF Goes, LoadInv, Types
<1>4. Types'
  BY <1>1, <1>3 DEF Goes, LoadInv, Types
<1>5. Dated'
  <2>1. \A e \in AllEvents' : e.at <= clock' /\ e.rec <= clock' /\ e.company <= clock'
    <3> SUFFICES ASSUME NEW e \in AllEvents' PROVE e.at <= clock' /\ e.rec <= clock' /\ e.company <= clock'
      OBVIOUS
    <3>1. CASE e \in E
      BY <1>3, <3>1 DEF Goes
    <3>2. CASE e \in AllEvents
      <4>1. e \in EventRow /\ e.at <= clock /\ e.rec <= clock /\ e.company <= clock
        BY <3>2 DEF LoadInv, Types, Dated, AllEvents, LoadState
      <4> QED BY <1>3, <4>1 DEF EventRow, At, LoadInv, Types
    <3> QED BY <1>2, <3>1, <3>2
  <2>2. \A r \in rows' : r.rec <= clock'
    BY <1>3 DEF Goes, LoadInv, Types, Dated, TableRow
  <2>3. \A m \in Loader : tx'[m].id <= clock' /\ tx'[m].base <= clock' /\ tx'[m].company <= clock'
    BY <1>1, <1>3 DEF Goes, LoadInv, Types, Dated, LoadState
  <2> QED BY <2>1, <2>2, <2>3 DEF Dated
<1>6. \A e \in AllEvents, f \in E : e.at # f.at
  BY DEF Goes, LoadInv, Types, Dated, AllEvents, LoadState, EventRow, At
<1>7. Apart'
  <2>1. \A m \in Loader : tx'[m].pc # "idle" => tx'[m].id # 0
    BY <1>1 DEF Goes, LoadInv, Types, Apart
  <2>2. \A m, n \in Loader : m # n /\ tx'[m].pc # "idle" => tx'[m].id # tx'[n].id
    BY <1>1 DEF Goes, LoadInv, Types, Dated, Apart, LoadState
  <2>3. log' = log /\ x.events = tx[l].events \cup E
    BY DEF Goes
  <2>4. \A m \in Loader : \A e \in tx'[m].events : e \in tx[m].events \/ (m = l /\ e \in E)
    BY <1>1, <2>3
  <2>5. log \subseteq AllEvents /\ \A m \in Loader : tx[m].events \subseteq AllEvents
    BY DEF AllEvents
  <2>6. \A m \in Loader : \A e \in tx'[m].events, f \in log' : e.at # f.at
    BY <1>6, <2>3, <2>4, <2>5 DEF LoadInv, Apart
  <2>7. ASSUME NEW m \in Loader, NEW n \in Loader, NEW e \in tx'[m].events, NEW f \in tx'[n].events, e.at = f.at
        PROVE  m = n /\ e = f
    <3>1. CASE e \in tx[m].events /\ f \in tx[n].events
      BY <2>7, <3>1 DEF LoadInv, Apart
    <3>2. CASE e \in tx[m].events /\ f \in E
      BY <1>6, <2>5, <2>7, <3>2
    <3>3. CASE e \in E /\ f \in tx[n].events
      BY <1>6, <2>5, <2>7, <3>3
    <3>4. CASE m = l /\ e \in E /\ n = l /\ f \in E
      BY <3>4 DEF Goes
    <3> QED BY <2>4, <3>1, <3>2, <3>3, <3>4
  <2> QED BY <2>1, <2>2, <2>3, <2>6, <2>7 DEF LoadInv, Apart
<1>8. Finite'
  <2>1. E = {} \/ \E e \in E : E = {e}
    BY DEF Goes
  <2>2. IsFiniteSet(tx[l].events) /\ x.events = tx[l].events \cup E
    BY DEF Goes, LoadInv, Finite
  <2>3. \A e : IsFiniteSet(tx[l].events \cup {e})
    BY <2>2, FS_AddElement
  <2>4. IsFiniteSet(x.events)
    <3>1. CASE E = {}
      BY <2>2, <3>1
    <3>2. CASE \E e \in E : E = {e}
      BY <2>2, <2>3, <3>2
    <3> QED BY <2>1, <3>1, <3>2
  <2> QED BY <1>1, <2>4 DEF Goes, LoadInv, Finite
<1> QED BY <1>1, <1>2, <1>4, <1>5, <1>7, <1>8

\* It must refer to rows and loads that are known, and its event must not be
\* one that older events have been waiting for.
LEMMA GoesWell ==
  ASSUME LoadInv, NEW l \in Loader, NEW x, NEW E, Goes(l, x, E),
         \/ x.pc \notin {"registered", "locking"}
         \/ tx[l].pc \in {"registered", "locking"} /\ x.id = tx[l].id
         \/ x.id = clock' /\ clock' = clock + 1,
         x.pc \in {"registered", "locking"} => x.base # x.id /\ x.company # x.id /\ \A e \in E : e.company # x.id,
         \A m \in Loader : m # l /\ tx[m].pc # "idle" =>
           x.base # tx[m].id /\ x.company # tx[m].id /\ \A e \in E : e.company # tx[m].id,
         \A e \in AllEvents \cup E, f \in E : ~Precedes(f, e)
  PROVE  LoadInv'
<1>1. /\ Types' /\ Dated' /\ Apart' /\ Finite'
      /\ tx'[l] = x /\ \A m \in Loader : m # l => tx'[m] = tx[m]
      /\ AllEvents' = AllEvents \cup E
  BY GoesOn
<1>2. rows' = rows
  BY DEF Goes
<1>3. Ordered'
  <2> SUFFICES ASSUME NEW e \in AllEvents', NEW f \in AllEvents', Precedes(f, e) PROVE f.at < e.at
    BY DEF Ordered, Precedes
  <2>1. f \in AllEvents
    BY <1>1
  <2>2. CASE e \in AllEvents
    BY <2>1, <2>2 DEF LoadInv, Ordered
  <2>3. CASE e \in E
    <3>1. f \in EventRow /\ f.at <= clock
      BY <2>1 DEF LoadInv, Types, Dated, AllEvents, LoadState
    <3>2. e.at = clock' /\ clock' = clock + 1 /\ clock \in Nat
      BY <2>3 DEF Goes, LoadInv, Types
    <3> QED BY <3>1, <3>2 DEF EventRow, At
  <2> QED BY <1>1, <2>2, <2>3
<1>4. Fresh'
  <2> SUFFICES ASSUME NEW m \in Loader, tx'[m].pc \in {"registered", "locking"}
               PROVE  Unknown(tx[m].id)'
    BY DEF Fresh, Unknown
  <2>1. CASE m # l
    <3>1. tx'[m] = tx[m] /\ Unknown(tx[m].id)
      BY <1>1, <2>1 DEF LoadInv, Fresh
    <3>2. \A r \in rows' : r.rec # tx[m].id
      BY <1>2, <3>1 DEF Unknown
    <3>3. \A e \in AllEvents' : e.company # tx[m].id
      BY <1>1, <2>1, <3>1 DEF Unknown
    <3>4. \A n \in Loader : tx'[n].base # tx[m].id /\ tx'[n].company # tx[m].id
      BY <1>1, <2>1, <3>1 DEF Unknown
    <3> QED BY <3>1, <3>2, <3>3, <3>4 DEF Unknown
  <2>2. CASE m = l
    <3>1. tx'[m] = x /\ x.pc \in {"registered", "locking"}
      BY <1>1, <2>2
    <3>2. Unknown(x.id)
      <4>1. CASE tx[l].pc \in {"registered", "locking"} /\ x.id = tx[l].id
        BY <4>1 DEF LoadInv, Fresh
      <4>2. CASE x.id = clock' /\ clock' = clock + 1
        <5>1. clock \in Nat
          BY DEF LoadInv, Types
        <5>2. \A r \in rows : r.rec # x.id
          BY <4>2, <5>1 DEF LoadInv, Types, Dated, TableRow
        <5>3. \A e \in AllEvents : e.company # x.id
          BY <4>2, <5>1 DEF LoadInv, Dated
        <5>4. \A n \in Loader : tx[n].base # x.id /\ tx[n].company # x.id
          BY <4>2, <5>1 DEF LoadInv, Dated
        <5> QED BY <5>2, <5>3, <5>4 DEF Unknown
      <4> QED BY <3>1, <4>1, <4>2
    <3>3. \A r \in rows' : r.rec # x.id
      BY <1>2, <3>2 DEF Unknown
    <3>4. \A e \in AllEvents' : e.company # x.id
      BY <1>1, <3>1, <3>2 DEF Unknown
    <3>5. \A n \in Loader : tx'[n].base # x.id /\ tx'[n].company # x.id
      BY <1>1, <3>1, <3>2 DEF Unknown
    <3> QED BY <3>1, <3>3, <3>4, <3>5 DEF Unknown
  <2> QED BY <2>1, <2>2
<1>5. Uncommitted'
  <2> SUFFICES ASSUME NEW m \in Loader, tx'[m].pc # "idle" PROVE Private(m)'
    BY DEF Uncommitted
  <2>1. x.events = tx[l].events \cup E /\ log' = log
    BY DEF Goes
  <2>2. CASE m # l
    <3>1. tx'[m] = tx[m] /\ Private(m)
      BY <1>1, <2>2 DEF LoadInv, Uncommitted
    <3>2. \A n \in Loader : n # m =>
            /\ tx'[n].base # tx[m].id /\ tx'[n].company # tx[m].id
            /\ \A e \in tx'[n].events : e.company # tx[m].id
      BY <1>1, <2>1, <2>2, <3>1 DEF Private
    <3> QED BY <1>2, <2>1, <3>1, <3>2 DEF Private
  <2>3. CASE m = l /\ tx[l].pc # "idle" /\ x.id = tx[l].id
    <3>1. Private(l)
      BY <2>3 DEF LoadInv, Uncommitted
    <3>2. \A e \in x.events : e.rec = x.id
      BY <2>1, <2>3, <3>1 DEF Private, Goes
    <3> QED BY <1>1, <1>2, <2>1, <2>3, <3>1, <3>2 DEF Private
  <2>4. CASE m = l /\ tx[l].pc = "idle" /\ x.id = clock' /\ clock' = clock + 1
    <3>1. clock \in Nat /\ tx[l].events = {}
      BY <2>4 DEF LoadInv, Types
    <3>2. \A r \in rows : r.rec # x.id
      BY <2>4, <3>1 DEF LoadInv, Types, Dated, TableRow
    <3>3. \A e \in AllEvents : e.rec # x.id /\ e.company # x.id
      BY <2>4, <3>1 DEF LoadInv, Dated
    <3>4. \A n \in Loader : tx[n].base # x.id /\ tx[n].company # x.id
      BY <2>4, <3>1 DEF LoadInv, Dated
    <3>5. log \subseteq AllEvents /\ \A n \in Loader : tx[n].events \subseteq AllEvents
      BY DEF AllEvents
    <3>6. \A e \in x.events : e.rec = x.id
      BY <2>1, <3>1 DEF Goes
    <3> QED BY <1>1, <1>2, <2>1, <2>4, <3>2, <3>3, <3>4, <3>5, <3>6 DEF Private
  <2> QED BY <2>2, <2>3, <2>4 DEF Goes
<1> QED BY <1>1, <1>3, <1>4, <1>5 DEF LoadInv

LEMMA RegisterStep ==
  ASSUME LoadInv, NEW l \in Loader, Register(l)
  PROVE  LoadInv'
<1> DEFINE e == Event(clock + 1, "uploads", clock + 1, 0)
           x == [NoLoad EXCEPT !.pc = "registered", !.id = clock + 1, !.events = {e}]
<1>1. clock \in Nat /\ clock + 1 \in At /\ clock' = clock + 1 /\ UNCHANGED <<rows, log>>
  BY DEF Register, Tick, LoadInv, Types, events
<1>2. tx' = [tx EXCEPT ![l] = x] /\ tx[l].pc = "idle" /\ tx[l].events = {}
  BY DEF Register, LoadInv, Types
<1>3. e \in EventRow /\ e.at = clock + 1 /\ e.rec = clock + 1 /\ e.company = 0 /\ e.table = "uploads"
  BY <1>1 DEF Event, EventRow
<1> HIDE DEF e
<1>4. x.pc = "registered" /\ x.id = clock + 1 /\ x.base = 0 /\ x.company = 0 /\ x.events = {e} /\ x \in LoadState
  <2>1. NoLoad \in LoadState /\ NoLoad.base = 0 /\ NoLoad.company = 0
    BY NoLoadType DEF NoLoad
  <2>2. clock + 1 \in Nat /\ {e} \in SUBSET EventRow
    BY <1>1, <1>3
  <2> QED BY <2>1, <2>2 DEF LoadState
<1> HIDE DEF x
<1>5. Goes(l, x, {e})
  BY <1>1, <1>2, <1>3, <1>4 DEF Goes
<1>6. \A f \in AllEvents \cup {e} : ~Precedes(e, f)
  <2>1. \A f \in AllEvents : f.rec # clock + 1
    BY <1>1 DEF LoadInv, Types, Dated, AllEvents, LoadState, EventRow
  <2> QED BY <1>3, <2>1 DEF Precedes
<1>7. \A m \in Loader : m # l /\ tx[m].pc # "idle" =>
           x.base # tx[m].id /\ x.company # tx[m].id /\ \A f \in {e} : f.company # tx[m].id
  BY <1>3, <1>4 DEF LoadInv, Apart
<1> QED BY <1>1, <1>3, <1>4, <1>5, <1>6, <1>7, GoesWell

\* The statement that looks for the company, and its wait.
LEMMA WaitStep ==
  ASSUME LoadInv, NEW l \in Loader, Select(l) \/ DropStaleRow(l)
  PROVE  LoadInv'
<1>1. PICK F \in SUBSET Nat : tx' = [tx EXCEPT ![l] = [tx[l] EXCEPT !.pc = "locking", !.found = F]]
  <2>1. CASE Select(l)
    <3>1. CurrentRows \in SUBSET Nat
      BY DEF CurrentRows, LoadInv, Types, TableRow
    <3> QED BY <2>1, <3>1 DEF Select, LoadInv, Types
  <2>2. CASE DropStaleRow(l)
    <3>1. PICK c \in tx[l].found : tx' = [tx EXCEPT ![l].found = tx[l].found \ {c}]
      BY <2>2 DEF DropStaleRow, LoadInv, Types
    <3>2. tx[l] \in LoadState /\ tx[l].pc = "locking"
      BY <2>2 DEF DropStaleRow, LoadInv, Types
    <3>3. tx[l].found \ {c} \in SUBSET Nat
      BY <3>2 DEF LoadState
    <3>4. [tx[l] EXCEPT !.found = tx[l].found \ {c}] = [tx[l] EXCEPT !.pc = "locking", !.found = tx[l].found \ {c}]
      BY <3>2 DEF LoadState
    <3> QED BY <3>1, <3>3, <3>4
  <2> QED BY <2>1, <2>2
<1> DEFINE x == [tx[l] EXCEPT !.pc = "locking", !.found = F]
<1>2. UNCHANGED <<rows, log, clock>> /\ tx[l].pc \in {"registered", "locking"} /\ tx[l] \in LoadState
  BY DEF Select, DropStaleRow, events, LoadInv, Types
<1>3. /\ x \in LoadState /\ x.pc = "locking" /\ x.id = tx[l].id /\ x.base = tx[l].base /\ x.company = tx[l].company
      /\ x.events = tx[l].events
  BY <1>2 DEF LoadState
<1>4. tx' = [tx EXCEPT ![l] = x]
  BY <1>1
<1> HIDE DEF x
<1>5. Goes(l, x, {})
  BY <1>2, <1>3, <1>4 DEF Goes, LoadInv, Dated
<1>6. x.base # x.id /\ x.company # x.id
  BY <1>2, <1>3 DEF LoadInv, Fresh, Unknown
<1>7. \A m \in Loader : m # l /\ tx[m].pc # "idle" => x.base # tx[m].id /\ x.company # tx[m].id
  BY <1>3 DEF LoadInv, Uncommitted, Private
<1> QED BY <1>2, <1>3, <1>5, <1>6, <1>7, GoesWell

\* Rows are known.
LEMMA KnownRow ==
  ASSUME LoadInv, NEW c \in CurrentRows \cup {0}, NEW m \in Loader, tx[m].pc # "idle"
  PROVE  c # tx[m].id
BY DEF LoadInv, Uncommitted, Private, CurrentRows, Apart

LEMMA SameCompanyStep ==
  ASSUME LoadInv, NEW l \in Loader, tx[l].pc = "locking", NEW c \in CurrentRows, SameCompany(l, c),
         UNCHANGED <<rows, log>>
  PROVE  LoadInv'
<1> DEFINE x == [tx[l] EXCEPT !.pc = "deriving", !.base = c, !.company = c]
<1>1. tx' = [tx EXCEPT ![l] = x] /\ clock' = clock /\ tx[l] \in LoadState
  BY DEF SameCompany, LoadInv, Types
<1>2. c \in Nat /\ c <= clock
  BY DEF CurrentRows, LoadInv, Types, Dated, TableRow
<1>3. /\ x \in LoadState /\ x.pc = "deriving" /\ x.id = tx[l].id /\ x.base = c /\ x.company = c
      /\ x.events = tx[l].events
  BY <1>1, <1>2 DEF LoadState
<1> HIDE DEF x
<1>4. Goes(l, x, {})
  BY <1>1, <1>2, <1>3 DEF Goes
<1> QED BY <1>3, <1>4, KnownRow, GoesWell

\* The event of a company is written before anything can point to it.
LEMMA NewCompanyStep ==
  ASSUME LoadInv, NEW l \in Loader, tx[l].pc = "locking", NEW b \in CurrentRows \cup {0}, NewCompany(l, b),
         UNCHANGED <<rows, log>>
  PROVE  LoadInv'
<1> DEFINE e == Event(clock + 1, "companies", tx[l].id, 0)
           x == [tx[l] EXCEPT !.pc = "deriving", !.base = b, !.company = tx[l].id, !.events = tx[l].events \cup {e}]
<1>1. tx' = [tx EXCEPT ![l] = x] /\ tx[l] \in LoadState
  BY DEF NewCompany, LoadInv, Types
<1>2. clock \in Nat /\ clock + 1 \in At /\ clock' = clock + 1
  BY DEF NewCompany, Tick, LoadInv, Types
<1>3. b \in Nat /\ b <= clock' /\ tx[l].id \in Nat /\ tx[l].id <= clock'
  BY <1>1, <1>2 DEF CurrentRows, LoadInv, Types, Dated, TableRow, LoadState
<1>4. e \in EventRow /\ e.at = clock + 1 /\ e.rec = tx[l].id /\ e.company = 0 /\ e.table = "companies"
  BY <1>2, <1>3 DEF Event, EventRow
<1> HIDE DEF e
<1>5. tx[l].events \cup {e} \in SUBSET EventRow
  BY <1>1, <1>4 DEF LoadState
<1>6. /\ x \in LoadState /\ x.pc = "deriving" /\ x.id = tx[l].id /\ x.base = b /\ x.company = tx[l].id
      /\ x.events = tx[l].events \cup {e}
  BY <1>1, <1>3, <1>5 DEF LoadState
<1> HIDE DEF x
<1>7. Goes(l, x, {e})
  BY <1>1, <1>2, <1>3, <1>4, <1>6 DEF Goes
<1>8. \A f \in AllEvents \cup {e} : ~Precedes(e, f)
  <2>1. \A f \in AllEvents : f.company # tx[l].id
    BY DEF LoadInv, Fresh, Unknown
  <2> QED BY <1>4, <2>1 DEF Precedes
<1>9. \A m \in Loader : m # l /\ tx[m].pc # "idle" =>
        x.base # tx[m].id /\ x.company # tx[m].id /\ \A f \in {e} : f.company # tx[m].id
  BY <1>4, <1>6, KnownRow DEF LoadInv, Apart
<1> QED BY <1>6, <1>7, <1>8, <1>9, GoesWell

LEMMA GetOrCreateCompanyStep ==
  ASSUME LoadInv, NEW l \in Loader, GetOrCreateCompany(l)
  PROVE  LoadInv'
<1>1. tx[l].pc = "locking" /\ UNCHANGED <<rows, log>>
  BY DEF GetOrCreateCompany, events
<1>2. CASE \E c \in tx[l].found \cap CurrentRows : SameCompany(l, c) \/ NewCompany(l, c)
  BY <1>1, <1>2, SameCompanyStep, NewCompanyStep
<1>3. CASE NewCompany(l, 0)
  BY <1>1, <1>3, NewCompanyStep
<1> QED BY <1>2, <1>3 DEF GetOrCreateCompany

\* The event of a snapshot is the latest there is.
LEMMA DeriveStep ==
  ASSUME LoadInv, NEW l \in Loader, NEW p \in BOOLEAN, Derive(l, p)
  PROVE  LoadInv'
<1> DEFINE e == Event(clock + 1, "snapshots", tx[l].id, tx[l].company)
           E == IF p THEN {e} ELSE {}
           x == [tx[l] EXCEPT !.pc = "committing", !.processed = p, !.events = tx[l].events \cup E]
<1>1. tx[l] \in LoadState /\ tx[l].pc = "deriving" /\ UNCHANGED <<rows, log>> /\ clock \in Nat
  BY DEF Derive, events, LoadInv, Types
<1>2. tx' = [tx EXCEPT ![l] = x]
  <2>1. CASE p
    BY <2>1 DEF Derive, SnapshotEvents, LoadInv, Types
  <2>2. CASE ~p
    <3>1. tx' = [tx EXCEPT ![l] = [tx[l] EXCEPT !.pc = "committing", !.processed = p, !.events = tx[l].events]]
      BY <2>2 DEF Derive, LoadInv, Types
    <3>2. tx[l].events \cup E = tx[l].events
      BY <2>2
    <3> QED BY <3>1, <3>2
  <2> QED BY <2>1, <2>2
<1>3. IF p THEN clock + 1 \in At /\ clock' = clock + 1 ELSE clock' = clock
  BY DEF Derive, Tick
<1>4. /\ tx[l].id \in Nat /\ tx[l].id <= clock /\ tx[l].company \in Nat /\ tx[l].company <= clock
      /\ tx[l].base \in Nat /\ tx[l].base <= clock
  BY <1>1 DEF LoadInv, Dated, LoadState
<1>5. /\ p => e \in EventRow
      /\ e.at = clock + 1 /\ e.rec = tx[l].id /\ e.company = tx[l].company /\ e.table = "snapshots"
  BY <1>3, <1>4 DEF Event, EventRow
<1> HIDE DEF e
<1>6. E \subseteq EventRow /\ (\A f \in E : f = e) /\ (p \/ E = {})
  BY <1>5
<1> HIDE DEF E
<1>7. tx[l].events \cup E \in SUBSET EventRow
  BY <1>1, <1>6 DEF LoadState
<1>8. /\ x \in LoadState /\ x.pc = "committing" /\ x.id = tx[l].id /\ x.base = tx[l].base
      /\ x.company = tx[l].company /\ x.events = tx[l].events \cup E
  BY <1>1, <1>7 DEF LoadState
<1> HIDE DEF x
<1>9. Goes(l, x, E)
  <2>1. clock' \in Nat /\ clock <= clock'
    BY <1>1, <1>3
  <2>2. \A f \in E : f.at = clock' /\ f.rec = x.id /\ f.rec <= clock' /\ f.company <= clock'
    BY <1>1, <1>3, <1>4, <1>5, <1>6, <1>8
  <2>3. x.base <= clock' /\ x.company <= clock'
    BY <1>1, <1>4, <1>8, <2>1
  <2>4. \/ clock' = clock /\ E = {}
        \/ clock + 1 \in At /\ clock' = clock + 1
    BY <1>3, <1>6
  <2> QED BY <1>1, <1>2, <1>6, <1>8, <2>2, <2>3, <2>4 DEF Goes
<1>10. \A f \in AllEvents \cup E, g \in E : ~Precedes(g, f)
  BY <1>5, <1>6 DEF Precedes
<1>11. \A m \in Loader : m # l /\ tx[m].pc # "idle" =>
         x.base # tx[m].id /\ x.company # tx[m].id /\ \A f \in E : f.company # tx[m].id
  BY <1>5, <1>6, <1>8 DEF LoadInv, Uncommitted, Private
<1> QED BY <1>8, <1>9, <1>10, <1>11, GoesWell

\* A load ends, with or without its events.
LEMMA Ends ==
  ASSUME LoadInv, NEW l \in Loader, tx' = [tx EXCEPT ![l] = NoLoad], clock' = clock,
         log' = log \/ log' = log \cup tx[l].events,
         rows' \subseteq TableRow,
         \A r \in rows' : /\ r.rec <= clock
                          /\ \A m \in Loader : m # l /\ tx[m].pc # "idle" => r.rec # tx[m].id
  PROVE  LoadInv'
<1>1. /\ tx'[l] = NoLoad /\ \A m \in Loader : m # l => tx'[m] = tx[m]
      /\ tx[l] \in LoadState
  BY DEF LoadInv, Types
<1>2. AllEvents' \subseteq AllEvents
  BY <1>1 DEF AllEvents, NoLoad
<1>3. NoLoad.pc = "idle" /\ NoLoad.events = {} /\ NoLoad.id = 0 /\ NoLoad.base = 0 /\ NoLoad.company = 0
  BY DEF NoLoad
<1>4. Types'
  <2>1. log' \subseteq EventRow
    BY <1>1 DEF LoadInv, Types, LoadState
  <2> QED BY <1>1, <1>3, <2>1, NoLoadType DEF LoadInv, Types
<1>5. Dated'
  <2>1. clock \in Nat
    BY DEF LoadInv, Types
  <2>2. \A e \in AllEvents' : e.at <= clock' /\ e.rec <= clock' /\ e.company <= clock'
    BY <1>2 DEF LoadInv, Dated
  <2>3. \A m \in Loader : tx'[m].id <= clock' /\ tx'[m].base <= clock' /\ tx'[m].company <= clock'
    BY <1>1, <1>3, <2>1 DEF LoadInv, Dated
  <2> QED BY <2>2, <2>3 DEF Dated
<1>6. Apart'
  <2>1. \A m \in Loader : tx'[m].pc # "idle" => tx'[m].id # 0
    BY <1>1, <1>3 DEF LoadInv, Apart
  <2>2. \A m, n \in Loader : m # n /\ tx'[m].pc # "idle" => tx'[m].id # tx'[n].id
    BY <1>1, <1>3 DEF LoadInv, Apart
  <2>3. \A e, f \in log' : e.at = f.at => e = f
    BY DEF LoadInv, Apart
  <2>4. \A m \in Loader : \A e \in tx'[m].events, f \in log' : e.at # f.at
    <3> SUFFICES ASSUME NEW m \in Loader, NEW e \in tx'[m].events, NEW f \in log' PROVE e.at # f.at
      OBVIOUS
    <3>1. m # l /\ e \in tx[m].events
      BY <1>1, <1>3
    <3>2. f \in log \/ f \in tx[l].events
      OBVIOUS
    <3> QED BY <3>1, <3>2 DEF LoadInv, Apart
  <2>5. \A m, n \in Loader : \A e \in tx'[m].events, f \in tx'[n].events : e.at = f.at => m = n /\ e = f
    BY <1>1, <1>3 DEF LoadInv, Apart
  <2> QED BY <2>1, <2>2, <2>3, <2>4, <2>5 DEF Apart
<1>7. Fresh'
  <2> SUFFICES ASSUME NEW m \in Loader, tx'[m].pc \in {"registered", "locking"}
               PROVE  Unknown(tx[m].id)' /\ tx'[m] = tx[m]
    BY DEF Fresh, Unknown
  <2>1. m # l /\ tx'[m] = tx[m] /\ Unknown(tx[m].id) /\ tx[m].id # 0
    BY <1>1, <1>3 DEF LoadInv, Fresh, Apart
  <2>2. \A r \in rows' : r.rec # tx[m].id
    BY <2>1
  <2>3. \A e \in AllEvents' : e.company # tx[m].id
    BY <1>2, <2>1 DEF Unknown
  <2>4. \A n \in Loader : tx'[n].base # tx[m].id /\ tx'[n].company # tx[m].id
    BY <1>1, <1>3, <2>1 DEF Unknown
  <2> QED BY <2>1, <2>2, <2>3, <2>4 DEF Unknown
<1>8. Ordered'
  BY <1>2 DEF LoadInv, Ordered, Precedes
<1>9. Finite'
  <2>1. IsFiniteSet(log \cup tx[l].events)
    BY FS_Union DEF LoadInv, Finite
  <2>2. IsFiniteSet(NoLoad.events)
    BY <1>3, FS_EmptySet
  <2> QED BY <1>1, <2>1, <2>2 DEF LoadInv, Finite
<1>10. Uncommitted'
  <2> SUFFICES ASSUME NEW m \in Loader, tx'[m].pc # "idle" PROVE Private(m)'
    BY DEF Uncommitted
  <2>1. m # l /\ tx'[m] = tx[m] /\ Private(m) /\ tx[m].id # 0
    BY <1>1, <1>3 DEF LoadInv, Uncommitted, Apart
  <2>2. \A r \in rows' : r.rec # tx[m].id
    BY <2>1
  <2>3. \A e \in log' : e.rec # tx[m].id /\ e.company # tx[m].id
    <3>1. tx[l].pc # "idle" \/ tx[l].events = {}
      BY DEF LoadInv, Types
    <3>2. \A e \in tx[l].events : e.rec = tx[l].id /\ tx[l].id # tx[m].id
      BY <2>1, <3>1 DEF LoadInv, Uncommitted, Private, Apart
    <3> QED BY <2>1, <3>2 DEF Private
  <2>4. \A n \in Loader : n # m =>
          /\ tx'[n].base # tx[m].id /\ tx'[n].company # tx[m].id
          /\ \A e \in tx'[n].events : e.company # tx[m].id
    BY <1>1, <1>3, <2>1 DEF Private
  <2> QED BY <2>1, <2>2, <2>3, <2>4 DEF Private
<1> QED BY <1>4, <1>5, <1>6, <1>7, <1>8, <1>9, <1>10 DEF LoadInv

\* A row of an ended load has the id of the load or of the row it closed.
LEMMA CommitStep ==
  ASSUME LoadInv, NEW l \in Loader, Commit(l)
  PROVE  LoadInv'
<1>1. tx[l] \in LoadState /\ tx[l].pc = "committing"
  BY DEF Commit, LoadInv, Types
<1>2. rows' \subseteq rows \cup NewRows(tx[l])
  BY DEF Commit, Upsert
<1>3. NewRows(tx[l]) \subseteq TableRow /\ \A r \in NewRows(tx[l]) : r.rec = tx[l].id \/ r.rec = tx[l].base
  <2> SUFFICES ASSUME NEW r \in NewRows(tx[l]) PROVE r \in TableRow /\ (r.rec = tx[l].id \/ r.rec = tx[l].base)
    OBVIOUS
  <2>1. \/ r = Row("uploads", tx[l].id, IF tx[l].processed THEN "processed" ELSE "skipped_no_delta")
        \/ r = Row("snapshots", tx[l].id, "pending")
        \/ r = Row("companies", tx[l].id, "current")
        \/ r = Row("companies", tx[l].base, "closed")
    BY DEF NewRows
  <2>2. tx[l].id \in Nat /\ tx[l].base \in Nat
    BY <1>1 DEF LoadState
  <2>3. {"processed", "skipped_no_delta", "pending", "current", "closed"} \subseteq RowStatus
    BY DEF RowStatus
  <2> QED BY <2>1, <2>2, <2>3, RowType
<1>4. rows' \subseteq TableRow
  BY <1>2, <1>3 DEF LoadInv, Types
<1>5. ASSUME NEW r \in rows'
      PROVE  /\ r.rec <= clock
             /\ \A m \in Loader : m # l /\ tx[m].pc # "idle" => r.rec # tx[m].id
  <2>1. CASE r \in rows
    BY <2>1 DEF LoadInv, Dated, Uncommitted, Private
  <2>2. CASE r \in NewRows(tx[l])
    <3>1. r.rec = tx[l].id \/ r.rec = tx[l].base
      BY <1>3, <2>2
    <3> QED BY <1>1, <3>1 DEF LoadInv, Dated, Uncommitted, Private, Apart
  <2> QED BY <1>2, <2>1, <2>2
<1> QED BY <1>4, <1>5, Ends DEF Commit

LEMMA RollbackStep ==
  ASSUME LoadInv, NEW l \in Loader, Rollback(l)
  PROVE  LoadInv'
<1>1. /\ rows' \subseteq TableRow
      /\ \A r \in rows' : r.rec <= clock /\ \A m \in Loader : tx[m].pc # "idle" => r.rec # tx[m].id
  BY DEF Rollback, LoadInv, Types, Dated, Uncommitted, Private
<1> QED BY <1>1, Ends DEF Rollback, events

\* Other rows, or none, change, and no load.
LEMMA Aside ==
  ASSUME LoadInv, UNCHANGED <<tx, log>>, clock' = clock \/ clock' = clock + 1, rows' \subseteq TableRow,
         \A r \in rows' : \/ /\ r.rec <= clock
                             /\ \A m \in Loader : tx[m].pc # "idle" => r.rec # tx[m].id
                          \/ r.rec = clock' /\ clock' = clock + 1
  PROVE  LoadInv'
<1>1. AllEvents' = AllEvents /\ clock \in Nat /\ clock' \in Nat /\ clock <= clock'
  BY DEF AllEvents, LoadInv, Types
<1>2. Types' /\ Apart' /\ Ordered' /\ Finite'
  BY <1>1 DEF LoadInv, Types, Apart, Ordered, Precedes, Finite
<1>3. Dated'
  <2>1. \A e \in AllEvents : e \in EventRow
    BY DEF AllEvents, LoadInv, Types, LoadState
  <2>2. \A e \in AllEvents' : e.at <= clock' /\ e.rec <= clock' /\ e.company <= clock'
    BY <1>1, <2>1 DEF LoadInv, Dated, EventRow, At
  <2>3. \A r \in rows' : r.rec <= clock'
    BY <1>1 DEF TableRow
  <2>4. \A m \in Loader : tx'[m].id <= clock' /\ tx'[m].base <= clock' /\ tx'[m].company <= clock'
    BY <1>1 DEF LoadInv, Types, Dated, LoadState
  <2> QED BY <2>2, <2>3, <2>4 DEF Dated
<1>4. \A l \in Loader : tx[l].pc # "idle" => \A r \in rows' : r.rec # tx[l].id
  BY <1>1 DEF LoadInv, Types, Dated, LoadState
<1>5. Fresh'
  <2> SUFFICES ASSUME NEW m \in Loader, tx[m].pc \in {"registered", "locking"}
               PROVE  Unknown(tx[m].id)'
    BY DEF Fresh, Unknown
  <2>1. Unknown(tx[m].id)
    BY DEF LoadInv, Fresh
  <2> QED BY <1>1, <1>4, <2>1 DEF Unknown
<1>6. Uncommitted'
  BY <1>4 DEF LoadInv, Uncommitted, Private
<1> QED BY <1>2, <1>3, <1>5, <1>6 DEF LoadInv

LEMMA LoadFailedStep == LoadInv /\ LoadFailed => LoadInv'
<1> SUFFICES ASSUME LoadInv, LoadFailed PROVE LoadInv'
  OBVIOUS
<1>1. clock' = clock + 1 /\ tx' = tx /\ log' = log /\ clock \in Nat
  BY DEF LoadFailed, Tick, events, LoadInv, Types
<1>2. rows' \subseteq rows \cup {Row("uploads", clock + 1, "failed")}
  BY DEF LoadFailed, Upsert
<1>3. Row("uploads", clock + 1, "failed") \in TableRow /\ Row("uploads", clock + 1, "failed").rec = clock + 1
  BY <1>1, RowType DEF RowStatus
<1>4. \A r \in rows : r.rec <= clock /\ \A m \in Loader : tx[m].pc # "idle" => r.rec # tx[m].id
  BY DEF LoadInv, Dated, Uncommitted, Private
<1> QED BY <1>1, <1>2, <1>3, <1>4, Aside DEF LoadInv, Types

LEMMA ApproveStep == ASSUME LoadInv, NEW n \in At, Approve(n) PROVE LoadInv'
<1>1. UNCHANGED <<tx, log, clock>>
  BY DEF Approve, events, loading
<1>2. rows' \subseteq rows \cup {Row("snapshots", n, "decided")}
  BY DEF Approve, Upsert
<1>3. Row("snapshots", n, "decided") \in TableRow /\ \E r \in rows : r.rec = Row("snapshots", n, "decided").rec
  <2>1. n \in Nat /\ "decided" \in RowStatus
    BY DEF At, RowStatus
  <2>2. \E r \in rows : r.rec = n
    BY DEF Approve
  <2> QED BY <2>1, <2>2, RowType
<1>4. \A r \in rows : r.rec <= clock /\ \A m \in Loader : tx[m].pc # "idle" => r.rec # tx[m].id
  BY DEF LoadInv, Dated, Uncommitted, Private
<1>5. \A r \in rows' : r.rec <= clock /\ \A m \in Loader : tx[m].pc # "idle" => r.rec # tx[m].id
  BY <1>2, <1>3, <1>4
<1>6. rows' \subseteq TableRow
  BY <1>2, <1>3 DEF LoadInv, Types
<1> QED BY <1>1, <1>5, <1>6, Aside

LEMMA RelaysKeepLoads == LoadInv /\ UNCHANGED <<rows, log, tx, clock>> => LoadInv'
<1> SUFFICES ASSUME LoadInv, UNCHANGED <<rows, log, tx, clock>> PROVE LoadInv'
  OBVIOUS
<1>1. \A r \in rows : r.rec <= clock /\ \A m \in Loader : tx[m].pc # "idle" => r.rec # tx[m].id
  BY DEF LoadInv, Dated, Uncommitted, Private
<1> QED BY <1>1, Aside DEF LoadInv, Types

-----------------------------------------------------------------------------
(* The steps and the invariant of the relays *)

LEMMA RelayUndisturbed == RelayInv /\ UNCHANGED <<outbox, published, log, sends, batch>> => RelayInv'
BY DEF RelayInv, RelayTypes, Marked, Exclusive, PublishedOnce

\* The events of a load are new when it commits: nobody has marked them.
LEMMA CommitKeepsRelays ==
  ASSUME IInv, NEW l \in Loader, Commit(l)
  PROVE  RelayInv'
<1>1. /\ outbox' = outbox \cup tx[l].events /\ log' = log \cup tx[l].events
      /\ published' = published /\ sends' = sends /\ batch' = batch
  BY DEF Commit, relaying
<1>2. \A e \in tx[l].events, f \in log : e.at # f.at
  BY DEF IInv, LoadInv, Apart
<1>3. tx[l].events \subseteq EventRow /\ log \subseteq EventRow
  BY DEF IInv, LoadInv, Types, LoadState
<1>4. RelayTypes'
  BY <1>1 DEF IInv, RelayInv, RelayTypes
<1>5. \A e \in tx[l].events : e.at \in At /\ e.at \notin published /\ ~(sends[e.at] > 0)
  BY <1>2, <1>3 DEF IInv, RelayInv, Marked, EventRow
<1>6. Marked'
  <2>1. \A f \in log' : f \in outbox' \/ sends'[f.at] > 0
    BY <1>1 DEF IInv, RelayInv, Marked
  <2>2. \A e \in outbox' : e.at \in published' <=> sends'[e.at] > 0
    BY <1>1, <1>5 DEF IInv, RelayInv, Marked
  <2>3. \A a \in At : a \in published' \/ sends'[a] > 0 => \E e \in log' : e.at = a
    BY <1>1 DEF IInv, RelayInv, Marked
  <2> QED BY <2>1, <2>2, <2>3 DEF Marked
<1>7. Exclusive' /\ PublishedOnce'
  BY <1>1 DEF IInv, RelayInv, Exclusive, PublishedOnce
<1> QED BY <1>4, <1>6, <1>7 DEF RelayInv

LEMMA OldestAreFree == \A a \in Oldest : \E e \in Free : e.at = a
BY DEF Oldest

LEMMA SelectPendingStep ==
  ASSUME IInv, NEW r \in Relay, SelectPending(r)
  PROVE  RelayInv'
<1>1. batch' = [batch EXCEPT ![r] = Oldest] /\ UNCHANGED <<outbox, published, log, sends>>
  BY DEF SelectPending, events
<1>2. \A a \in Oldest : /\ a \in At /\ a \notin published
                        /\ \E e \in outbox : e.at = a
                        /\ \A q \in Relay : a \notin batch[q]
  BY OldestAreFree DEF Free, IInv, LoadInv, Types, RelayInv, RelayTypes, EventRow
<1>3. batch'[r] = Oldest /\ \A q \in Relay : q # r => batch'[q] = batch[q]
  BY <1>1 DEF IInv, RelayInv, RelayTypes
<1>4. RelayTypes'
  BY <1>1, <1>2 DEF IInv, RelayInv, RelayTypes
<1>5. Exclusive'
  <2>1. \A q \in Relay : \A a \in batch'[q] : a \notin published' /\ \E e \in outbox' : e.at = a
    BY <1>1, <1>2, <1>3 DEF IInv, RelayInv, Exclusive
  <2>2. \A p, q \in Relay : p # q => batch'[p] \cap batch'[q] = {}
    BY <1>2, <1>3 DEF IInv, RelayInv, Exclusive
  <2> QED BY <2>1, <2>2 DEF Exclusive
<1>6. Marked' /\ PublishedOnce'
  BY <1>1 DEF IInv, RelayInv, Marked, PublishedOnce
<1> QED BY <1>4, <1>5, <1>6 DEF RelayInv

\* What a relay holds has not been sent.
LEMMA PublishStep ==
  ASSUME IInv, NEW r \in Relay, Publish(r)
  PROVE  RelayInv'
<1>1. /\ published' = published \cup batch[r] /\ batch' = [batch EXCEPT ![r] = {}]
      /\ sends' = [a \in At |-> IF a \in batch[r] THEN sends[a] + 1 ELSE sends[a]]
      /\ outbox' = outbox /\ log' = log
  BY DEF Publish
<1>2. batch[r] \subseteq At /\ sends \in [At -> Nat] /\ outbox \subseteq log /\ \A e \in log : e.at \in At
  BY DEF IInv, LoadInv, Types, EventRow, RelayInv, RelayTypes
<1>3. \A a \in batch[r] : sends[a] = 0 /\ \E e \in log : e.at = a
  BY <1>2 DEF IInv, RelayInv, Marked, Exclusive
<1>4. \A a \in At : sends'[a] = IF a \in batch[r] THEN 1 ELSE sends[a]
  BY <1>1, <1>2, <1>3
<1>5. RelayTypes'
  BY <1>1, <1>2 DEF IInv, RelayInv, RelayTypes
<1>6. Marked'
  <2>1. \A f \in log' : f \in outbox' \/ sends'[f.at] > 0
    BY <1>1, <1>2, <1>4 DEF IInv, RelayInv, Marked
  <2>2. \A e \in outbox' : e.at \in published' <=> sends'[e.at] > 0
    BY <1>1, <1>2, <1>4 DEF IInv, RelayInv, Marked
  <2>3. \A a \in At : a \in published' \/ sends'[a] > 0 => \E e \in log' : e.at = a
    BY <1>1, <1>3, <1>4 DEF IInv, RelayInv, Marked
  <2> QED BY <2>1, <2>2, <2>3 DEF Marked
<1>7. PublishedOnce'
  BY <1>2, <1>4 DEF IInv, RelayInv, PublishedOnce
<1>8. Exclusive'
  <2>1. batch'[r] = {} /\ \A q \in Relay : q # r => batch'[q] = batch[q]
    BY <1>1 DEF IInv, RelayInv, RelayTypes
  <2>2. \A q \in Relay : \A a \in batch'[q] : a \notin published' /\ \E e \in outbox' : e.at = a
    BY <1>1, <2>1 DEF IInv, RelayInv, Exclusive
  <2>3. \A p, q \in Relay : p # q => batch'[p] \cap batch'[q] = {}
    BY <2>1 DEF IInv, RelayInv, Exclusive
  <2> QED BY <2>2, <2>3 DEF Exclusive
<1> QED BY <1>5, <1>6, <1>7, <1>8 DEF RelayInv

LEMMA CrashStep ==
  ASSUME IInv, NEW r \in Relay, Crash(r)
  PROVE  RelayInv'
<1>1. batch' = [batch EXCEPT ![r] = {}] /\ UNCHANGED <<outbox, published, log, sends>>
  BY DEF Crash, events
<1>2. batch'[r] = {} /\ \A q \in Relay : q # r => batch'[q] = batch[q]
  BY <1>1 DEF IInv, RelayInv, RelayTypes
<1>3. RelayTypes' /\ Marked' /\ PublishedOnce'
  BY <1>1 DEF IInv, RelayInv, RelayTypes, Marked, PublishedOnce
<1>4. Exclusive'
  BY <1>1, <1>2 DEF IInv, RelayInv, Exclusive
<1> QED BY <1>3, <1>4 DEF RelayInv

\* The retention of events deletes what has been sent, and its mark.
LEMMA EnforceStep ==
  ASSUME IInv, NEW x \in At, Enforce(x)
  PROVE  RelayInv'
<1> DEFINE gone == {e.at : e \in Expired(x)}
<1>1. /\ outbox' = outbox \ Expired(x) /\ published' = published \ gone
      /\ UNCHANGED <<log, sends, batch>>
  BY DEF Enforce, relaying
<1>2. \A e \in Expired(x) : e \in outbox /\ e.at \in published
  BY DEF Expired
<1>3. \A e, f \in log : e.at = f.at => e = f
  BY DEF IInv, LoadInv, Apart
<1>4. \A e \in outbox' : e.at \notin gone
  BY <1>1, <1>2, <1>3 DEF IInv, RelayInv, RelayTypes
<1>5. RelayTypes' /\ PublishedOnce'
  BY <1>1 DEF IInv, RelayInv, RelayTypes, PublishedOnce
<1>6. Marked'
  <2>1. \A f \in log' : f \in outbox' \/ sends'[f.at] > 0
    BY <1>1, <1>2 DEF IInv, RelayInv, Marked
  <2>2. \A e \in outbox' : e.at \in published' <=> sends'[e.at] > 0
    BY <1>1, <1>4 DEF IInv, RelayInv, Marked
  <2>3. \A a \in At : a \in published' \/ sends'[a] > 0 => \E e \in log' : e.at = a
    BY <1>1 DEF IInv, RelayInv, Marked
  <2> QED BY <2>1, <2>2, <2>3 DEF Marked
<1>7. Exclusive'
  <2>1. \A r \in Relay : \A a \in batch'[r] : a \notin published' /\ \E e \in outbox' : e.at = a
    BY <1>1, <1>2 DEF IInv, RelayInv, Exclusive
  <2> QED BY <1>1, <2>1 DEF IInv, RelayInv, Exclusive
<1> QED BY <1>5, <1>6, <1>7 DEF RelayInv

-----------------------------------------------------------------------------
(* The theorem *)

LEMMA LoadStep ==
  ASSUME IInv, NEW l \in Loader, Load(l)
  PROVE  IInv' /\ batch' = batch
<1>1. CASE Commit(l)
  <2>1. batch' = batch
    BY <1>1 DEF Commit, relaying
  <2> QED BY <1>1, <2>1, CommitStep, CommitKeepsRelays DEF IInv
<1>2. CASE Register(l) \/ Select(l) \/ DropStaleRow(l) \/ GetOrCreateCompany(l)
             \/ (\E p \in BOOLEAN : Derive(l, p)) \/ Rollback(l)
  <2>1. UNCHANGED <<outbox, published, log, sends, batch>>
    BY <1>2 DEF Register, Select, DropStaleRow, GetOrCreateCompany, Derive, Rollback, events, relaying
  <2>2. LoadInv'
    BY <1>2, RegisterStep, WaitStep, GetOrCreateCompanyStep, DeriveStep, RollbackStep DEF IInv
  <2> QED BY <2>1, <2>2, RelayUndisturbed DEF IInv
<1> QED BY <1>1, <1>2 DEF Load

LEMMA RelayStep ==
  ASSUME IInv, NEW r \in Relay, SelectPending(r) \/ Publish(r) \/ Crash(r)
  PROVE  IInv'
<1>1. UNCHANGED <<rows, log, tx, clock>>
  BY DEF SelectPending, Publish, Crash, events, loading
<1>2. LoadInv'
  BY <1>1, RelaysKeepLoads DEF IInv
<1> QED BY <1>2, SelectPendingStep, PublishStep, CrashStep DEF IInv

LEMMA OtherStep ==
  ASSUME IInv, LoadFailed \/ (\E n \in At : Approve(n)) \/ (\E a \in At : Enforce(a))
  PROVE  IInv' /\ batch' = batch
<1>1. CASE LoadFailed \/ \E n \in At : Approve(n)
  <2>1. UNCHANGED <<outbox, published, log, sends, batch>>
    BY <1>1 DEF LoadFailed, Approve, events, relaying
  <2> QED BY <1>1, <2>1, LoadFailedStep, ApproveStep, RelayUndisturbed DEF IInv
<1>2. CASE \E a \in At : Enforce(a)
  <2>1. UNCHANGED <<rows, log, tx, clock, batch>>
    BY <1>2 DEF Enforce, loading, relaying
  <2> QED BY <1>2, <2>1, RelaysKeepLoads, EnforceStep DEF IInv
<1> QED BY <1>1, <1>2

LEMMA StepInv == IInv /\ [Next]_vars => IInv'
<1> SUFFICES ASSUME IInv, [Next]_vars PROVE IInv'
  OBVIOUS
<1>1. CASE UNCHANGED vars
  <2>1. UNCHANGED <<rows, log, tx, clock>> /\ UNCHANGED <<outbox, published, log, sends, batch>>
    BY <1>1 DEF vars, events, loading, relaying
  <2> QED BY <2>1, RelaysKeepLoads, RelayUndisturbed DEF IInv
<1> QED BY <1>1, LoadStep, RelayStep, OtherStep DEF Next, Relaying

\* A free event that is older than one of the oldest is one of them.
LEMMA OldestFirst ==
  ASSUME IInv, NEW e \in Free, NEW f \in Free, e.at \in Oldest, f.at < e.at
  PROVE  f.at \in Oldest
<1>1. PICK g \in Free : g.at = e.at /\ Cardinality({h \in Free : h.at < g.at}) < BatchSize
  BY DEF Oldest
<1> DEFINE F == {h \in Free : h.at < f.at}
           G == {h \in Free : h.at < g.at}
<1>2. Free \subseteq log /\ log \subseteq EventRow /\ IsFiniteSet(log)
  BY DEF Free, IInv, LoadInv, Types, Finite, RelayInv, RelayTypes
<1>3. IsFiniteSet(G) /\ Cardinality(G) \in Nat
  BY <1>2, FS_Subset, FS_CardinalityType
<1>4. F \in SUBSET G
  BY <1>1, <1>2 DEF EventRow, At
<1>5. Cardinality(F) <= Cardinality(G)
  BY <1>3, <1>4, FS_Subset
<1>6. Cardinality(F) \in Nat
  BY <1>3, <1>4, FS_Subset, FS_CardinalityType
<1>7. Cardinality(F) < BatchSize
  <2>1. Cardinality(G) < BatchSize
    BY <1>1
  <2> HIDE DEF F, G
  <2> QED BY <1>3, <1>5, <1>6, <2>1, BatchAssumption
<1> QED BY <1>7 DEF Oldest

-----------------------------------------------------------------------------
(* The order of publication *)

\* An event that no relay took ahead is published, and locked, after those it
\* refers to, or with them.
Follows(e, f) ==
  /\ sends[e.at] > 0 => sends[f.at] > 0
  /\ \A r \in Relay : e.at \in batch[r] => sends[f.at] > 0 \/ f.at \in batch[r]

OrderInv == \A e, f \in log : Precedes(f, e) /\ e.at \notin ahead => Follows(e, f)

\* What a load commits is pending, and nothing that is there refers to it.
LEMMA CommitOrder ==
  ASSUME IInv, OrderInv, NEW l \in Loader, Commit(l)
  PROVE  OrderInv'
<1>1. /\ log' = log \cup tx[l].events /\ tx[l].pc = "committing"
      /\ UNCHANGED <<sends, batch, ahead>>
  BY DEF Commit, relaying
<1> SUFFICES ASSUME NEW e \in log', NEW f \in log', Precedes(f, e), e.at \notin ahead
             PROVE  Follows(e, f)'
  BY <1>1 DEF OrderInv, Precedes
<1>2. CASE e \in tx[l].events
  <2>1. e.at \in At /\ \A g \in log : g.at # e.at
    BY <1>2 DEF IInv, LoadInv, Types, Apart, LoadState, EventRow
  <2>2. ~(sends[e.at] > 0) /\ \A r \in Relay : e.at \notin batch[r]
    BY <2>1 DEF IInv, RelayInv, RelayTypes, Marked, Exclusive
  <2> QED BY <1>1, <2>2 DEF Follows
<1>3. CASE e \in log /\ f \in log
  BY <1>1, <1>3 DEF OrderInv, Follows
<1>4. CASE e \in log /\ f \in tx[l].events
  <2>1. Private(l) /\ f.rec = tx[l].id
    BY <1>1, <1>4 DEF IInv, LoadInv, Uncommitted, Private
  <2>2. e.rec # f.rec /\ e.company # f.rec
    BY <1>4, <2>1 DEF Private
  <2> QED BY <2>2 DEF Precedes
<1> QED BY <1>1, <1>2, <1>3, <1>4

\* What is older than a free event of the batch is in the batch too, unless it
\* was published or another relay has it.
LEMMA SelectOrder ==
  ASSUME IInv, OrderInv, NEW r \in Relay, SelectPending(r)
  PROVE  OrderInv'
<1>1. /\ batch'[r] = Oldest /\ batch[r] = {}
      /\ \A q \in Relay : q # r => batch'[q] = batch[q]
      /\ ahead' = ahead \cup (Oldest \cap Awaiting)
      /\ UNCHANGED <<log, outbox, published, sends>>
  BY DEF SelectPending, events, IInv, RelayInv, RelayTypes
<1> SUFFICES ASSUME NEW e \in log, NEW f \in log, Precedes(f, e), e.at \notin ahead'
             PROVE  Follows(e, f)'
  BY <1>1 DEF OrderInv, Precedes
<1>2. Follows(e, f)
  BY <1>1 DEF OrderInv
<1>3. ASSUME e.at \in Oldest, ~(sends[f.at] > 0) PROVE f.at \in Oldest
  <2>1. \A q \in Relay : f.at \notin batch[q]
    BY <1>1, <1>3 DEF Awaiting
  <2>2. f \in outbox /\ f.at \notin published
    BY <1>3 DEF IInv, RelayInv, Marked
  <2>3. f \in Free
    BY <2>1, <2>2 DEF Free
  <2>4. e \in Free
    <3>1. PICK g \in Free : g.at = e.at
      BY <1>3, OldestAreFree
    <3>2. g \in log
      BY DEF Free, IInv, RelayInv, RelayTypes
    <3> QED BY <3>1, <3>2 DEF IInv, LoadInv, Apart
  <2>5. f.at < e.at
    BY DEF IInv, LoadInv, Ordered, AllEvents
  <2> QED BY <1>3, <2>3, <2>4, <2>5, OldestFirst
<1> QED BY <1>1, <1>2, <1>3 DEF Follows

\* A batch is published as a whole.
LEMMA PublishOrder ==
  ASSUME IInv, OrderInv, NEW r \in Relay, Publish(r)
  PROVE  OrderInv'
<1>1. /\ sends' = [a \in At |-> IF a \in batch[r] THEN sends[a] + 1 ELSE sends[a]]
      /\ batch' = [batch EXCEPT ![r] = {}] /\ log' = log /\ ahead' = ahead
  BY DEF Publish
<1>2. /\ sends \in [At -> Nat] /\ \A e \in log : e.at \in At
      /\ batch'[r] = {} /\ \A q \in Relay : q # r => batch'[q] = batch[q]
  BY <1>1 DEF IInv, LoadInv, Types, EventRow, RelayInv, RelayTypes
<1>3. \A e \in log : sends'[e.at] > 0 <=> sends[e.at] > 0 \/ e.at \in batch[r]
  BY <1>1, <1>2
<1> SUFFICES ASSUME NEW e \in log, NEW f \in log, Precedes(f, e), e.at \notin ahead
             PROVE  Follows(e, f)'
  BY <1>1 DEF OrderInv, Precedes
<1>4. Follows(e, f)
  BY DEF OrderInv
<1> QED BY <1>2, <1>3, <1>4 DEF Follows

\* What a relay that dies held ahead is pending again.
LEMMA CrashOrder ==
  ASSUME IInv, OrderInv, NEW r \in Relay, Crash(r)
  PROVE  OrderInv'
<1>1. /\ batch' = [batch EXCEPT ![r] = {}] /\ UNCHANGED <<outbox, published, sends, log>>
      /\ ahead' = ahead \ batch[r]
  BY DEF Crash, events
<1>2. batch'[r] = {} /\ \A q \in Relay : q # r => batch'[q] = batch[q] /\ batch[q] \cap batch[r] = {}
  BY <1>1 DEF IInv, RelayInv, RelayTypes, Exclusive
<1> SUFFICES ASSUME NEW e \in log, NEW f \in log, Precedes(f, e), e.at \notin ahead'
             PROVE  Follows(e, f)'
  BY <1>1 DEF OrderInv, Precedes
<1>3. CASE e.at \in batch[r]
  <2>1. ~(sends[e.at] > 0)
    BY <1>3 DEF IInv, RelayInv, RelayTypes, Marked, Exclusive
  <2> QED BY <1>1, <1>2, <1>3, <2>1 DEF Follows
<1>4. CASE e.at \notin batch[r]
  <2>1. Follows(e, f)
    BY <1>1, <1>4 DEF OrderInv
  <2> QED BY <1>1, <1>2, <2>1 DEF Follows
<1> QED BY <1>3, <1>4

LEMMA OrderStep == IInv /\ OrderInv /\ [Next]_vars => OrderInv'
<1> SUFFICES ASSUME IInv, OrderInv, [Next]_vars PROVE OrderInv'
  OBVIOUS
<1>1. CASE UNCHANGED <<log, sends, batch, ahead>>
  BY <1>1 DEF OrderInv, Follows, Precedes
<1>2. ASSUME NEW l \in Loader, Load(l), ~Commit(l) PROVE UNCHANGED <<log, sends, batch, ahead>>
  BY <1>2 DEF Load, Register, Select, DropStaleRow, GetOrCreateCompany, Derive, Rollback, events, relaying
<1>3. CASE LoadFailed \/ (\E n \in At : Approve(n)) \/ (\E a \in At : Enforce(a)) \/ UNCHANGED vars
  <2>1. UNCHANGED <<log, sends, batch, ahead>>
    BY <1>3 DEF LoadFailed, Approve, Enforce, vars, events, relaying
  <2> QED BY <1>1, <2>1
<1> QED BY <1>1, <1>2, <1>3, CommitOrder, SelectOrder, PublishOrder, CrashOrder DEF Next, Relaying

LEMMA OrderInit == Init => OrderInv
BY DEF Init, OrderInv

\* However loads and relays overlap, roll back and die, whatever is approved
\* or purged meanwhile, publish_pending publishes no event twice, and a
\* snapshot before its upload or its company only from a batch that was taken
\* while another relay held theirs.
THEOREM Relays == Spec => []RelaysAreSafe
<1>1. IInv /\ OrderInv => RelaysAreSafe
  BY DEF IInv, RelayInv, RelaysAreSafe, ConsumersCanFollow, OrderInv, Follows
<1> QED BY <1>1, InitInv, StepInv, OrderInit, OrderStep, PTL DEF Spec

\* A single caller of publish_pending, which may die and be called again,
\* publishes every upload and every company before the snapshots that point to
\* them, however loads overlap.
THEOREM OneRelay == Spec => []((\A q, r \in Relay : q = r) => PublishedInOrder)
<1> DEFINE Alone == \A q, r \in Relay : q = r
<1>1. Init => ahead = {}
  BY DEF Init
<1>2. (Alone => ahead = {}) /\ [Next]_vars => (Alone => ahead = {})'
  <2> SUFFICES ASSUME Alone, ahead = {}, [Next]_vars PROVE ahead' = {}
    OBVIOUS
  <2>1. ASSUME NEW r \in Relay, SelectPending(r) PROVE ahead' = {}
    <3>1. \A q \in Relay : batch[q] = {}
      BY <2>1 DEF SelectPending
    <3>2. Awaiting = {}
      BY <3>1 DEF Awaiting
    <3> QED BY <2>1, <3>2 DEF SelectPending
  <2>2. ASSUME NEW r \in Relay, Publish(r) \/ Crash(r) PROVE ahead' = {}
    BY <2>2 DEF Publish, Crash
  <2>3. ASSUME NEW l \in Loader, Load(l) PROVE ahead' = ahead
    BY <2>3 DEF Load, Register, Select, DropStaleRow, GetOrCreateCompany, Derive, Commit, Rollback, relaying
  <2>4. CASE LoadFailed \/ (\E n \in At : Approve(n)) \/ (\E a \in At : Enforce(a)) \/ UNCHANGED vars
    BY <2>4 DEF LoadFailed, Approve, Enforce, vars, relaying
  <2> QED BY <2>1, <2>2, <2>3, <2>4 DEF Next, Relaying
<1>3. (Alone => ahead = {}) /\ OrderInv => (Alone => PublishedInOrder)
  BY DEF PublishedInOrder, OrderInv, Follows
<1> QED BY <1>1, <1>2, <1>3, InitInv, StepInv, OrderInit, OrderStep, PTL DEF Spec

-----------------------------------------------------------------------------
(* No row without its event *)

Tells(E, t, n) == \E e \in E : e.table = t /\ e.rec = n

\* A load has written the events of what it will commit, and the row it closes
\* has an event from the load that inserted it.
Telling(x) ==
  /\ x.pc # "idle" => Tells(x.events, "uploads", x.id)
  /\ x.pc \in {"deriving", "committing"} /\ x.company = x.id => Tells(x.events, "companies", x.id)
  /\ x.pc = "committing" /\ x.processed => Tells(x.events, "snapshots", x.id)

LogInv ==
  /\ \A r \in rows : (r.table = "uploads" /\ r.state = "failed") \/ Tells(log, r.table, r.rec)
  /\ \A l \in Loader : Telling(tx[l]) /\ (tx[l].base # 0 => Tells(log, "companies", tx[l].base))

LEMMA CurrentRowsAreTold == ASSUME LogInv, NEW c \in CurrentRows PROVE Tells(log, "companies", c)
BY DEF LogInv, CurrentRows

LEMMA LogStep ==
  ASSUME IInv, LogInv, NEW l \in Loader, Load(l)
  PROVE  LogInv'
<1>1. tx \in [Loader -> LoadState] /\ tx[l] \in LoadState
  BY DEF IInv, LoadInv, Types
<1>2. CASE Commit(l)
  <2>1. /\ tx' = [tx EXCEPT ![l] = NoLoad] /\ log' = log \cup tx[l].events /\ tx[l].pc = "committing"
        /\ rows' \subseteq rows \cup NewRows(tx[l])
    BY <1>2 DEF Commit, Upsert
  <2>2. ASSUME NEW r \in NewRows(tx[l]) PROVE Tells(log', r.table, r.rec)
    <3>1. CASE r.table = "uploads" /\ r.rec = tx[l].id
      BY <2>1, <3>1 DEF LogInv, Telling, Tells
    <3>2. CASE tx[l].processed /\ r.table = "snapshots" /\ r.rec = tx[l].id
      BY <2>1, <3>2 DEF LogInv, Telling, Tells
    <3>3. CASE tx[l].company = tx[l].id /\ r.table = "companies" /\ r.rec = tx[l].id
      BY <2>1, <3>3 DEF LogInv, Telling, Tells
    <3>4. CASE tx[l].base # 0 /\ r.table = "companies" /\ r.rec = tx[l].base
      BY <2>1, <3>4 DEF LogInv, Tells
    <3>5. \A t, n, s : Row(t, n, s).table = t /\ Row(t, n, s).rec = n
      BY DEF Row
    <3> QED BY <3>1, <3>2, <3>3, <3>4, <3>5 DEF NewRows
  <2>3. \A r \in rows' : (r.table = "uploads" /\ r.state = "failed") \/ Tells(log', r.table, r.rec)
    BY <2>1, <2>2 DEF LogInv, Tells
  <2>4. Telling(NoLoad) /\ NoLoad.base = 0
    BY DEF Telling, NoLoad
  <2>5. \A m \in Loader : Telling(tx'[m]) /\ (tx'[m].base # 0 => Tells(log', "companies", tx'[m].base))
    BY <1>1, <2>1, <2>4 DEF LogInv, Tells
  <2> QED BY <2>3, <2>5 DEF LogInv, Telling
<1>3. ASSUME NEW x, tx' = [tx EXCEPT ![l] = x], log' = log, rows' = rows, Telling(x),
             x.base # 0 => Tells(log, "companies", x.base)
      PROVE  LogInv'
  <2>1. tx'[l] = x /\ \A m \in Loader : m # l => tx'[m] = tx[m]
    BY <1>1, <1>3
  <2>2. \A m \in Loader : Telling(tx'[m]) /\ (tx'[m].base # 0 => Tells(log', "companies", tx'[m].base))
    BY <1>3, <2>1 DEF LogInv
  <2> QED BY <1>3, <2>2 DEF LogInv, Telling
<1>4. CASE Register(l)
  <2> DEFINE e == Event(clock + 1, "uploads", clock + 1, 0)
             x == [NoLoad EXCEPT !.pc = "registered", !.id = clock + 1, !.events = {e}]
  <2>1. tx' = [tx EXCEPT ![l] = x] /\ log' = log /\ rows' = rows
    BY <1>4 DEF Register, events
  <2>2. x.pc = "registered" /\ x.id = clock + 1 /\ x.events = {e} /\ x.base = 0
    BY DEF NoLoad
  <2>3. e.table = "uploads" /\ e.rec = clock + 1
    BY DEF Event
  <2> HIDE DEF x, e
  <2> QED BY <1>3, <2>1, <2>2, <2>3 DEF Telling, Tells
<1>5. CASE Select(l) \/ DropStaleRow(l)
  <2>1. PICK F : tx' = [tx EXCEPT ![l] = [tx[l] EXCEPT !.pc = "locking", !.found = F]]
    <3>1. CASE Select(l)
      BY <1>1, <3>1 DEF Select
    <3>2. CASE DropStaleRow(l)
      <4>1. PICK c \in tx[l].found : tx' = [tx EXCEPT ![l].found = tx[l].found \ {c}]
        BY <3>2 DEF DropStaleRow
      <4>2. tx[l].pc = "locking"
        BY <3>2 DEF DropStaleRow
      <4>3. [tx[l] EXCEPT !.found = tx[l].found \ {c}] = [tx[l] EXCEPT !.pc = "locking", !.found = tx[l].found \ {c}]
        BY <1>1, <4>2 DEF LoadState
      <4> QED BY <1>1, <4>1, <4>3
    <3> QED BY <1>5, <3>1, <3>2
  <2> DEFINE x == [tx[l] EXCEPT !.pc = "locking", !.found = F]
  <2>2. x.pc = "locking" /\ x.id = tx[l].id /\ x.base = tx[l].base /\ x.events = tx[l].events /\ tx[l].pc # "idle"
    BY <1>1, <1>5 DEF LoadState, Select, DropStaleRow
  <2>3. tx' = [tx EXCEPT ![l] = x] /\ log' = log /\ rows' = rows
    BY <1>5, <2>1 DEF Select, DropStaleRow, events
  <2> HIDE DEF x
  <2> QED BY <1>3, <2>2, <2>3 DEF LogInv, Telling
<1>6. CASE GetOrCreateCompany(l)
  <2>0. tx[l].pc = "locking" /\ log' = log /\ rows' = rows
    BY <1>6 DEF GetOrCreateCompany, events
  <2>1. ASSUME NEW c \in CurrentRows, SameCompany(l, c) PROVE LogInv'
    <3> DEFINE x == [tx[l] EXCEPT !.pc = "deriving", !.base = c, !.company = c]
    <3>1. tx' = [tx EXCEPT ![l] = x]
      BY <1>1, <2>1 DEF SameCompany
    <3>2. x.pc = "deriving" /\ x.id = tx[l].id /\ x.base = c /\ x.company = c /\ x.events = tx[l].events
      BY <1>1 DEF LoadState
    <3>3. c # tx[l].id
      BY <2>0, KnownRow DEF IInv
    <3> HIDE DEF x
    <3> QED BY <1>3, <2>0, <3>1, <3>2, <3>3, CurrentRowsAreTold DEF LogInv, Telling
  <2>2. ASSUME NEW b \in CurrentRows \cup {0}, NewCompany(l, b) PROVE LogInv'
    <3> DEFINE e == Event(clock + 1, "companies", tx[l].id, 0)
               x == [tx[l] EXCEPT !.pc = "deriving", !.base = b, !.company = tx[l].id, !.events = tx[l].events \cup {e}]
    <3>1. tx' = [tx EXCEPT ![l] = x]
      BY <1>1, <2>2 DEF NewCompany
    <3>2. x.pc = "deriving" /\ x.id = tx[l].id /\ x.base = b /\ x.company = tx[l].id /\ x.events = tx[l].events \cup {e}
      BY <1>1 DEF LoadState
    <3>3. e.table = "companies" /\ e.rec = tx[l].id
      BY DEF Event
    <3> HIDE DEF x, e
    <3>4. Tells(x.events, "uploads", x.id) /\ Tells(x.events, "companies", x.id)
      BY <2>0, <3>2, <3>3 DEF LogInv, Telling, Tells
    <3> QED BY <1>3, <2>0, <3>1, <3>2, <3>4, CurrentRowsAreTold DEF Telling
  <2> QED BY <1>6, <2>1, <2>2 DEF GetOrCreateCompany
<1>7. ASSUME NEW p \in BOOLEAN, Derive(l, p) PROVE LogInv'
  <2> DEFINE e == Event(clock + 1, "snapshots", tx[l].id, tx[l].company)
  <2> DEFINE E == IF p THEN tx[l].events \cup {e} ELSE tx[l].events
  <2>1. tx' = [tx EXCEPT ![l] = [tx[l] EXCEPT !.pc = "committing", !.processed = p, !.events = E]]
          /\ tx[l].events \subseteq E /\ (p => e \in E)
    BY <1>1, <1>7 DEF Derive, SnapshotEvents
  <2> DEFINE x == [tx[l] EXCEPT !.pc = "committing", !.processed = p, !.events = E]
  <2>2. tx[l].pc = "deriving" /\ log' = log /\ rows' = rows
    BY <1>7 DEF Derive, events
  <2>3. /\ x.pc = "committing" /\ x.id = tx[l].id /\ x.base = tx[l].base /\ x.company = tx[l].company
        /\ x.processed = p /\ x.events = E
    BY <1>1 DEF LoadState
  <2>4. e.table = "snapshots" /\ e.rec = tx[l].id
    BY DEF Event
  <2>5. tx' = [tx EXCEPT ![l] = x]
    BY <2>1
  <2> HIDE DEF x, e, E
  <2> QED BY <1>3, <2>1, <2>2, <2>3, <2>4, <2>5 DEF LogInv, Telling, Tells
<1>8. CASE Rollback(l)
  <2>1. Telling(NoLoad) /\ NoLoad.base = 0
    BY DEF Telling, NoLoad
  <2> QED BY <1>3, <1>8, <2>1 DEF Rollback, events
<1> QED BY <1>2, <1>4, <1>5, <1>6, <1>7, <1>8 DEF Load

LEMMA LogOtherStep ==
  ASSUME LogInv, tx' = tx, log' = log, NEW new, rows' \subseteq rows \cup new,
         \A r \in new : (r.table = "uploads" /\ r.state = "failed") \/ Tells(log, r.table, r.rec)
  PROVE  LogInv'
BY DEF LogInv, Telling, Tells

LEMMA LogStepInv == IInv /\ LogInv /\ [Next]_vars => LogInv'
<1> SUFFICES ASSUME IInv, LogInv, [Next]_vars PROVE LogInv'
  OBVIOUS
<1>1. \A t, n, s : Row(t, n, s).table = t /\ Row(t, n, s).rec = n /\ Row(t, n, s).state = s
  BY DEF Row
<1>2. CASE LoadFailed
  <2> DEFINE new == {Row("uploads", clock + 1, "failed")}
  <2>1. tx' = tx /\ log' = log /\ rows' \subseteq rows \cup new
    BY <1>2 DEF LoadFailed, Upsert, events
  <2>2. \A r \in new : (r.table = "uploads" /\ r.state = "failed") \/ Tells(log, r.table, r.rec)
    BY <1>1
  <2> HIDE DEF new
  <2> QED BY <2>1, <2>2, LogOtherStep
<1>3. ASSUME NEW n \in At, Approve(n) PROVE LogInv'
  <2> DEFINE new == {Row("snapshots", n, "decided")}
  <2>1. tx' = tx /\ log' = log /\ rows' \subseteq rows \cup new
    BY <1>3 DEF Approve, Upsert, events, loading
  <2>2. PICK q \in rows : q.table = "snapshots" /\ q.rec = n
    BY <1>3 DEF Approve
  <2>3. Tells(log, "snapshots", n)
    BY <2>2 DEF LogInv
  <2>4. \A r \in new : (r.table = "uploads" /\ r.state = "failed") \/ Tells(log, r.table, r.rec)
    BY <1>1, <2>3
  <2> HIDE DEF new
  <2> QED BY <2>1, <2>4, LogOtherStep
<1>4. CASE UNCHANGED <<rows, tx, log>>
  BY <1>4 DEF LogInv, Telling, Tells
<1>5. ASSUME NEW r \in Relay, Relaying(r) \/ Crash(r) PROVE UNCHANGED <<rows, tx, log>>
  BY <1>5 DEF Relaying, SelectPending, Publish, Crash, events, loading
<1>6. ASSUME NEW a \in At, Enforce(a) PROVE UNCHANGED <<rows, tx, log>>
  BY <1>6 DEF Enforce, loading
<1>7. CASE UNCHANGED vars
  BY <1>4, <1>7 DEF vars, events, loading
<1> QED BY <1>2, <1>3, <1>4, <1>5, <1>6, <1>7, LogStep DEF Next

\* Every row that _load_file inserts, and every change approve_snapshot makes
\* to one, is of a record whose event waits in the outbox or was published,
\* whatever retention deletes.
THEOREM Capture == Spec => []EveryRowIsCaptured
<1>1. Init => LogInv
  BY DEF Init, LogInv, Telling, NoLoad
<1>2. IInv /\ LogInv => EveryRowIsCaptured
  BY DEF IInv, RelayInv, RelayTypes, Marked, LogInv, EveryRowIsCaptured, Captured, Tells
<1> QED BY <1>1, <1>2, InitInv, StepInv, LogStepInv, PTL DEF Spec
=============================================================================
