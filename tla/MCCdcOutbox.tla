---------------------------- MODULE MCCdcOutbox ----------------------------
(***************************************************************************)
(* An instance of CdcOutbox for TLC.  It begins in two states that one     *)
(* load leads to, so that two more can meet at a company that is there and *)
(* at one that is not.                                                     *)
(***************************************************************************)
EXTENDS CdcOutbox

CONSTANTS r1, r2

\* The load has failed and left nothing.
AfterRollback == /\ rows = {} /\ outbox = {} /\ log = {}
                 /\ sends = [a \in At |-> 0]
                 /\ clock = 1

\* It was approved, its events were published and their policy deleted them.
AfterRetention == /\ rows = {Row("uploads", 1, "processed"), Row("companies", 1, "current"),
                             Row("snapshots", 1, "decided")}
                  /\ outbox = {}
                  /\ log = {Event(1, "uploads", 1, 0), Event(2, "companies", 1, 0), Event(3, "snapshots", 1, 1)}
                  /\ sends = [a \in At |-> IF a \in 1..3 THEN 1 ELSE 0]
                  /\ clock = 3

OutboxInit == /\ AfterRollback \/ AfterRetention
              /\ published = {} /\ loads = 1 /\ crashes = 0
              /\ tx = [l \in Loader |-> NoLoad]
              /\ batch = [r \in Relay |-> {}] /\ ahead = {}

OutboxSpec == OutboxInit /\ [][Next]_vars /\ Fairness
=============================================================================
