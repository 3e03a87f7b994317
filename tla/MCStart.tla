------------------------------- MODULE MCStart -------------------------------
(***************************************************************************)
(* An instance for TLC of what happens at the start of the service: the    *)
(* seeding of schema and rates by instances that start together, and the   *)
(* run over the data directory that follows it in each of them.  The two   *)
(* share no state, so a behaviour is about one of them.                    *)
(***************************************************************************)
EXTENDS BatchRun

CONSTANTS f1, f2, i1, Instance, SeedRequest, Host, Currencies, Days, MaxManual, MaxFailures

VARIABLES topic,                                   \* "seed" or "run"
          today, v1, rates, at, seeding, failures  \* of Startup

Seeds == INSTANCE Startup WITH Request <- SeedRequest, pc <- at

ASSUME StartConstants == Seeds!StartupAssumption

MCFiles == <<f1, f2>>
MCCurrencies == <<"EUR", "CHF">>
MCHost == [r \in SeedRequest |-> i1]

seedVars == <<today, v1, rates, at, seeding, failures>>
allVars == <<topic, vars, seedVars>>

StartInit == topic \in {"seed", "run"} /\ Init /\ Seeds!Init

StartNext == /\ UNCHANGED topic
             /\ \/ topic = "seed" /\ Seeds!Next /\ UNCHANGED vars
                \/ topic = "run" /\ Next /\ UNCHANGED seedVars

\* A run that has begun goes on, and so does a seeding; an instance that is
\* down is started again.
StartSpec == /\ StartInit /\ [][StartNext]_allVars
             /\ WF_vars(topic = "run" /\ Step)
             /\ \A p \in Instance \cup SeedRequest : WF_seedVars(topic = "seed" /\ Seeds!Step(p))

-----------------------------------------------------------------------------
(* Properties of the parts *)

\* Whoever gets past the seeding has the schema and a rate of that day for
\* every currency, and no currency has two.
SeedingIsSound == Seeds!SeedingIsSound

\* Instances that are started together all come to serve.
AllServe == topic = "seed" => Seeds!AllServe

\* A rate that was entered by hand stays the latest one until somebody enters
\* another.
SeedsAreForFirstRun == Seeds!SeedsAreForFirstRun
=============================================================================
