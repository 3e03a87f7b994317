------------------------------- MODULE Startup -------------------------------
(***************************************************************************)
(* The start of service instances over one database (lifespan in           *)
(* app/main.py) and the seeding of FX rates (app/fx.py), which an          *)
(* administrator can ask for as well (POST /fx/seed-defaults), as can      *)
(* single rates be added (POST /fx).  A request is one to an instance that *)
(* serves, which is after its start, and ends with it.  The seedings look  *)
(* first and insert later, without a lock: seed_v1 under                   *)
(* uq_schema_subject_version, the rates of all currencies in one commit    *)
(* under uq_fx_triple.  An error ends the start, and the process with it;  *)
(* whoever runs the service starts it again.  Rates are those to USD, and  *)
(* days are counted.                                                       *)
(***************************************************************************)
EXTENDS Integers, FiniteSets, Sequences

CONSTANTS Instance,    \* processes of the service
          Request,     \* concurrent requests to seed the rates
          Host,        \* the instance each of them is made to
          Currencies,  \* sequence of the keys of DEFAULT_RATES_USD
          Days,        \* bound on the days
          MaxManual,   \* bound on the rates that are entered by hand
          MaxFailures  \* bound on the errors that no conflict explains

\* What the constants have to be; the instance assumes it.
StartupAssumption == /\ Days \in Nat \ {0} /\ {MaxManual, MaxFailures} \subseteq Nat
                     /\ Instance \cap Request = {} /\ Host \in [Request -> Instance]
                     /\ Currencies \in Seq(STRING)

Ccy == {Currencies[i] : i \in DOMAIN Currencies}

VARIABLES
  today,
  v1,       \* whether schema_versions has version 1 of MASTER
  rates,    \* fx_rates: [ccy, day, source]
  pc,       \* where each instance or request is
  seeding,  \* its seeding: [found, day, pos, new]; found is whether v1 was there
  failures

vars == <<today, v1, rates, pc, seeding, failures>>

NoSeeding == [found |-> FALSE, day |-> 0, pos |-> 0, new |-> {}]

Init == /\ today = 1 /\ v1 = FALSE /\ rates = {} /\ failures = 0
        /\ pc = [p \in Instance \cup Request |-> IF p \in Instance THEN "down" ELSE "idle"]
        /\ seeding = [p \in Instance \cup Request |-> NoSeeding]

Goto(p, l) == pc' = [pc EXCEPT ![p] = l]

NextDay == /\ today < Days
           /\ today' = today + 1
           /\ UNCHANGED <<v1, rates, pc, seeding, failures>>

Has(c, d) == \E r \in rates : r.ccy = c /\ r.day = d

\* POST /fx of some instance, which the unique key may refuse.
AddRate(c, d) == /\ \E i \in Instance : pc[i] = "serving"
                 /\ ~Has(c, d) /\ Cardinality({r \in rates : r.source = "manual"}) < MaxManual
                 /\ rates' = rates \cup {[ccy |-> c, day |-> d, source |-> "manual"]}
                 /\ UNCHANGED <<today, v1, pc, seeding, failures>>

-----------------------------------------------------------------------------
(* seed_v1 *)

Start(i) == /\ pc[i] = "down"
            /\ Goto(i, "seed_v1")
            /\ seeding' = [seeding EXCEPT ![i] = [NoSeeding EXCEPT !.found = v1]]
            /\ UNCHANGED <<today, v1, rates, failures>>

\* What the processes and requests P have not committed is lost.
Rollback(P) ==
  /\ pc' = [p \in Instance \cup Request |-> IF p \notin P THEN pc[p] ELSE IF p \in Instance THEN "down" ELSE "idle"]
  /\ seeding' = [p \in Instance \cup Request |-> IF p \in P THEN NoSeeding ELSE seeding[p]]

\* The insert of version 1, which nobody else may have inserted since.
SeedV1(i) ==
  /\ pc[i] = "seed_v1"
  /\ IF v1 /\ ~seeding[i].found
     THEN Rollback({i}) /\ UNCHANGED v1
     ELSE /\ v1' = TRUE
          /\ Goto(i, "seed_rates")
          /\ seeding' = [seeding EXCEPT ![i].day = today, ![i].pos = 1]
  /\ UNCHANGED <<today, rates, failures>>

-----------------------------------------------------------------------------
(* seed_default_rates *)

Ask(r) == /\ pc[r] = "idle" /\ pc[Host[r]] = "serving"
          /\ Goto(r, "seed_rates")
          /\ seeding' = [seeding EXCEPT ![r] = [NoSeeding EXCEPT !.day = today, !.pos = 1]]
          /\ UNCHANGED <<today, v1, rates, failures>>

\* Mutant: rates that are there already are seeded as well.
LookUp_All(p) ==
  LET s == seeding[p]
  IN  /\ pc[p] = "seed_rates" /\ s.pos <= Len(Currencies)
      /\ seeding' = [seeding EXCEPT ![p].pos = s.pos + 1, ![p].new = s.new \cup {Currencies[s.pos]}]
      /\ UNCHANGED <<today, v1, rates, pc, failures>>

LookUp(p) ==
  LET s == seeding[p]
      c == Currencies[s.pos]
  IN  /\ pc[p] = "seed_rates" /\ s.pos <= Len(Currencies)
      /\ seeding' = [seeding EXCEPT ![p].pos = s.pos + 1,
                                    ![p].new = IF Has(c, s.day) THEN s.new ELSE s.new \cup {c}]
      /\ UNCHANGED <<today, v1, rates, pc, failures>>

SeedRows(p) == {[ccy |-> c, day |-> seeding[p].day, source |-> "seed"] : c \in seeding[p].new}
Seeded(p) == pc[p] = "seed_rates" /\ seeding[p].pos > Len(Currencies)
Conflict(p) == \E c \in seeding[p].new : Has(c, seeding[p].day)

\* Mutant: a conflict is taken for the work of another seeding.
Store_Shrugs(p) ==
  /\ Seeded(p)
  /\ rates' = IF Conflict(p) THEN rates ELSE rates \cup SeedRows(p)
  /\ Goto(p, IF p \in Instance THEN "pipeline" ELSE "idle")
  /\ UNCHANGED <<today, v1, seeding, failures>>

\* One commit for all currencies.
Store(p) ==
  /\ Seeded(p)
  /\ IF Conflict(p) THEN Rollback({p}) /\ UNCHANGED rates
     ELSE /\ rates' = rates \cup SeedRows(p)
          /\ Goto(p, IF p \in Instance THEN "pipeline" ELSE "idle")
          /\ seeding' = [seeding EXCEPT ![p].new = {}]
  /\ UNCHANGED <<today, v1, failures>>

-----------------------------------------------------------------------------

\* run_pipeline over the data directory (BatchRun), then the requests.
Serve(i) == /\ pc[i] = "pipeline"
            /\ Goto(i, "serving")
            /\ UNCHANGED <<today, v1, rates, seeding, failures>>

\* The database fails a start or a request, or an instance is stopped, and
\* its requests with it.
Fail(p) == /\ pc[p] \notin {"down", "idle"} /\ failures < MaxFailures
           /\ failures' = failures + 1
           /\ Rollback({p} \cup {r \in Request : Host[r] = p})
           /\ UNCHANGED <<today, v1, rates>>

Step(p) == \/ p \in Instance /\ (Start(p) \/ SeedV1(p) \/ Serve(p))
           \/ LookUp(p) \/ Store(p)

Next == \/ NextDay
        \/ \E c \in Ccy, d \in 1..Days : AddRate(c, d)
        \/ \E r \in Request : Ask(r)
        \/ \E p \in Instance \cup Request : Step(p) \/ Fail(p)

\* Whatever has begun goes on, and an instance that is down is started.
Fairness == \A p \in Instance \cup Request : WF_vars(Step(p))

Spec == Init /\ [][Next]_vars /\ Fairness

-----------------------------------------------------------------------------
(* Properties *)

TypeOK == /\ today \in 1..Days /\ v1 \in BOOLEAN /\ failures \in 0..MaxFailures
          /\ rates \subseteq [ccy : Ccy, day : 1..Days, source : {"seed", "manual"}]
          /\ pc \in [Instance \cup Request -> {"down", "idle", "seed_v1", "seed_rates", "pipeline", "serving"}]

\* Whoever gets past the seeding has the schema and a rate of that day for
\* every currency, whatever others seeded, added or failed to seed meanwhile.
SeedsAreComplete ==
  \A i \in Instance :
    pc[i] \in {"pipeline", "serving"} => v1 /\ \A c \in Ccy : Has(c, seeding[i].day)

\* latest_rate has one answer: no currency has two rates of one day.
RatesAreUnique == \A r \in rates : \A q \in rates : r.ccy = q.ccy /\ r.day = q.day => r = q

\* Seeding leaves a complete and unambiguous reference table.
SeedingIsSound == SeedsAreComplete /\ RatesAreUnique

\* Instances that are started together can end each other's start, but each
\* conflict leaves less to seed: all of them come to serve.
AllServe == \A i \in Instance : <>[](pc[i] = "serving")

\* The rate that latest_rate chooses.
LatestOf(c) == CHOOSE r \in rates : r.ccy = c /\ \A q \in rates : q.ccy = c => q.day <= r.day

\* "Seed FX rates for testing / first-run": a currency that has a rate is not
\* seeded again, so a rate that was entered by hand stays the latest one until
\* somebody enters another.
SeedsAreForFirstRun ==
  [][\A c \in Ccy : (\E r \in rates : r.ccy = c) /\ LatestOf(c).source = "manual"
                      => LatestOf(c)'.source = "manual"]_vars
=============================================================================
