---------------------------- MODULE TaskDelivery ----------------------------
(***************************************************************************)
(* What the DB-backed queue of app/queue.py promises, with no worker, no   *)
(* row lock, no lease and no session in sight: a task is handed out at     *)
(* most MaxAttempts times, work on it is committed only while it is handed *)
(* out and at most once per handout, it is settled as delivered only after *)
(* some work was committed, and it is given up only when every handout has *)
(* been used.  A forgetful queue may not learn that a task was delivered,  *)
(* and then treats it as undelivered.  IngestionQueue is shown to          *)
(* implement this specification.                                           *)
(***************************************************************************)
EXTENDS Naturals

CONSTANTS Task,         \* ids of ingestion_tasks rows
          MaxAttempts,  \* handouts a task may use
          Forgetful     \* may the news of a delivery be lost?

VARIABLES phase,        \* where a task is
          handouts,     \* how often it was handed out
          work          \* how often work on it was committed

vars == <<phase, handouts, work>>

Init == /\ phase = [t \in Task |-> "absent"]
        /\ handouts = [t \in Task |-> 0]
        /\ work = [t \in Task |-> 0]

Move(t, from, to) == phase[t] = from /\ phase' = [phase EXCEPT ![t] = to]

Submit(t) == Move(t, "absent", "waiting") /\ UNCHANGED <<handouts, work>>

HandOut(t) == /\ Move(t, "waiting", "inflight")
              /\ handouts[t] < MaxAttempts
              /\ handouts' = [handouts EXCEPT ![t] = @ + 1]
              /\ UNCHANGED work

Work(t) == /\ phase[t] = "inflight"
           /\ work[t] < handouts[t]
           /\ work' = [work EXCEPT ![t] = @ + 1]
           /\ UNCHANGED <<phase, handouts>>

Deliver(t) == /\ Move(t, "inflight", "delivered")
              /\ work[t] > 0
              /\ UNCHANGED <<handouts, work>>

Undelivered == {"inflight"} \cup (IF Forgetful THEN {"delivered"} ELSE {})

GiveBack(t) == /\ \E from \in Undelivered : Move(t, from, "waiting")
               /\ handouts[t] < MaxAttempts
               /\ UNCHANGED <<handouts, work>>

GiveUp(t) == /\ \E from \in Undelivered : Move(t, from, "dead")
             /\ handouts[t] = MaxAttempts
             /\ UNCHANGED <<handouts, work>>

Next == \E t \in Task : \/ Submit(t)
                        \/ HandOut(t)
                        \/ Work(t)
                        \/ Deliver(t)
                        \/ GiveBack(t)
                        \/ GiveUp(t)

Spec == Init /\ [][Next]_vars
=============================================================================
