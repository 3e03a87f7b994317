-------------------------- MODULE MCIngestionQueue --------------------------
(* Instances of IngestionQueue for TLC. *)
EXTENDS IngestionQueue, TLC

CONSTANTS t1, t2, w1, w2

\* Order of arrival decides, or t2 is the more urgent task.
MCEqualPriority == [t \in Task |-> 5]
MCUrgentPriority == [t \in Task |-> IF t = t2 THEN 1 ELSE 5]
=============================================================================
