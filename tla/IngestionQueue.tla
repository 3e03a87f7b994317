--------------------------- MODULE IngestionQueue ---------------------------
(***************************************************************************)
(* The DB-backed ingestion queue (app/queue.py) and the worker loop that   *)
(* drains it (run_pipeline_from_queue, app/pipeline.py).                   *)
(*                                                                         *)
(* A worker is one call of run_pipeline_from_queue after another, each     *)
(* with a session of its own.  A session's changes become visible to other *)
(* workers when it commits, so the variables below are committed columns,  *)
(* and what a session has only flushed is in its pc.  claim_next takes the *)
(* row's lock (FOR UPDATE SKIP LOCKED) when it flushes and keeps it until  *)
(* the commit.  A worker may die between any two steps (this also stands   *)
(* for an exception outside the try block, which ends the call).           *)
(*                                                                         *)
(* _load_file is one step here, with the ways it can end that the queue    *)
(* tells apart: its transaction commits and it returns, it raises with     *)
(* nothing committed, or the commit reaches the server and the worker sees *)
(* an exception all the same (the acknowledgement is lost).                *)
(***************************************************************************)
EXTENDS Integers, FiniteSets

CONSTANTS Task,          \* ids of ingestion_tasks rows
          Worker,        \* processes or threads running the worker loop
          Priority,      \* [Task -> Nat], lower is more urgent
          MaxAttempts,   \* MAX_ATTEMPTS
          MaxCrashes,    \* bound on worker deaths
          AckLoss,       \* may a commit succeed and raise?
          NoTask,        \* a worker's job when it has none
          NoWorker       \* claimed_by is NULL

ASSUME AttemptsAssumption == MaxAttempts \in Nat \ {0} /\ MaxCrashes \in Nat
ASSUME NullAssumption == NoTask \notin Task /\ NoWorker \notin Worker
ASSUME FiniteAssumption == IsFiniteSet(Task) /\ IsFiniteSet(Worker)
ASSUME SwitchAssumption == AckLoss \in BOOLEAN
ASSUME PriorityAssumption == Priority \in [Task -> Nat]

VARIABLES
  status,      \* [Task -> Status], "absent" before the row exists
  claimed_by,  \* the worker that claimed the task last
  lease,       \* claimed_until: NULL ("none"), in the future, or in the past
  attempts,    \* ingestion_tasks.attempts
  enqueued_at, \* order of arrival, 0 before the row exists
  loads,       \* loads of the task's file that committed
  pc, job,     \* each worker's position and the task it holds
  processed,   \* the local counter of the worker's current run
  attempted,   \* files_attempted, summed over the worker's committed runs
  reported,    \* files_processed, summed over the worker's committed runs
  crashes      \* worker deaths so far

taskVars == <<status, claimed_by, lease, attempts, enqueued_at>>
runVars  == <<processed, attempted, reported>>
vars     == <<taskVars, loads, pc, job, runVars, crashes>>

Status == {"absent", "pending", "claimed", "done", "failed"}
Lease  == {"none", "running", "expired"}
\* "claiming": claim flushed, row locked.  "loading": claim committed.
\* "loaded": the load has committed.  "failing": in the except block.
Holding == {"loading", "loaded", "failing"}
Busy    == Holding \cup {"claiming"}
PC      == Busy \cup {"stopped", "polling"}

TypeOK == /\ status \in [Task -> Status]
          /\ claimed_by \in [Task -> Worker \cup {NoWorker}]
          /\ lease \in [Task -> Lease]
          /\ attempts \in [Task -> 0..MaxAttempts]
          /\ enqueued_at \in [Task -> Nat]
          /\ loads \in [Task -> Nat]
          /\ pc \in [Worker -> PC]
          /\ job \in [Worker -> Task \cup {NoTask}]
          /\ processed \in [Worker -> Nat]
          /\ attempted \in [Worker -> Nat]
          /\ reported \in [Worker -> Nat]
          /\ crashes \in 0..MaxCrashes

Init == /\ status = [t \in Task |-> "absent"]
        /\ claimed_by = [t \in Task |-> NoWorker]
        /\ lease = [t \in Task |-> "none"]
        /\ attempts = [t \in Task |-> 0]
        /\ enqueued_at = [t \in Task |-> 0]
        /\ loads = [t \in Task |-> 0]
        /\ pc = [w \in Worker |-> "stopped"]
        /\ job = [w \in Worker |-> NoTask]
        /\ processed = [w \in Worker |-> 0]
        /\ attempted = [w \in Worker |-> 0]
        /\ reported = [w \in Worker |-> 0]
        /\ crashes = 0

-----------------------------------------------------------------------------
(* Helpers *)

\* A row whose claim is flushed and not yet committed is locked.
Locked(t) == \E w \in Worker : pc[w] = "claiming" /\ job[w] = t

\* Mutant: no row lock between the claim's flush and its commit.
Claimable_NoRowLock(t) ==
  status[t] = "pending" /\ attempts[t] < MaxAttempts /\ lease[t] \in {"none", "expired"}

\* Mutant: a claimed task is handed out again when its claimed_until has passed.
Claimable_AfterTimeout(t) ==
  /\ status[t] = "pending" \/ (status[t] = "claimed" /\ lease[t] = "expired")
  /\ attempts[t] < MaxAttempts
  /\ ~Locked(t)

\* The filters of claim_next, and rows SKIP LOCKED leaves in.
Claimable(t) == /\ status[t] = "pending"
                /\ attempts[t] < MaxAttempts
                /\ lease[t] \in {"none", "expired"}
                /\ ~Locked(t)

\* ORDER BY priority, enqueued_at
Before(s, t) == \/ Priority[s] < Priority[t]
                \/ Priority[s] = Priority[t] /\ enqueued_at[s] < enqueued_at[t]

\* GET /admin/queue/stats, for one status.
QueueStats(s) == Cardinality({t \in Task : status[t] = s})

\* The sum of a counter over S, as the number of its units: <<x, 1>> up to
\* <<x, counter[x]>> for each x in S.
Units(S, counter) == UNION {{x} \X (1..counter[x]) : x \in S}
Total(S, counter) == Cardinality(Units(S, counter))

Goto(w, to) == pc' = [pc EXCEPT ![w] = to]
Leave(w, to) == Goto(w, to) /\ job' = [job EXCEPT ![w] = NoTask]

RecordLoad(w) == loads' = [loads EXCEPT ![job[w]] = @ + 1]

-----------------------------------------------------------------------------
(* Actions *)

\* POST /admin/queue/enqueue: insert the row, notify, commit.
Enqueue(t) ==
  /\ status[t] = "absent"
  /\ status' = [status EXCEPT ![t] = "pending"]
  /\ enqueued_at' = [enqueued_at EXCEPT ![t] = 1 + Cardinality(Task) - QueueStats("absent")]
  /\ UNCHANGED <<claimed_by, lease, attempts, loads, pc, job, runVars, crashes>>

\* VISIBILITY_TIMEOUT_SECONDS pass after a claim.
LeaseExpire(t) ==
  /\ lease[t] = "running"
  /\ lease' = [lease EXCEPT ![t] = "expired"]
  /\ UNCHANGED <<status, claimed_by, attempts, enqueued_at, loads, pc, job, runVars, crashes>>

\* A call of the worker loop begins: new session, new run.
Start(w) ==
  /\ pc[w] = "stopped"
  /\ Goto(w, "polling")
  /\ processed' = [processed EXCEPT ![w] = 0]
  /\ UNCHANGED <<taskVars, loads, job, attempted, reported, crashes>>

\* claim_next finds a task, locks it and flushes its new values.
ClaimFlush(w, t) ==
  /\ pc[w] = "polling"
  /\ Claimable(t)
  /\ \A s \in Task : Claimable(s) => ~Before(s, t)
  /\ Goto(w, "claiming")
  /\ job' = [job EXCEPT ![w] = t]
  /\ UNCHANGED <<taskVars, loads, runVars, crashes>>

\* The commit that makes the claim and files_attempted durable.
ClaimCommit(w) ==
  /\ pc[w] = "claiming"
  /\ Goto(w, "loading")
  /\ LET t == job[w] IN
     /\ status' = [status EXCEPT ![t] = "claimed"]
     /\ claimed_by' = [claimed_by EXCEPT ![t] = w]
     /\ lease' = [lease EXCEPT ![t] = "running"]
     /\ attempts' = [attempts EXCEPT ![t] = @ + 1]
  /\ attempted' = [attempted EXCEPT ![w] = @ + 1]
  /\ UNCHANGED <<enqueued_at, loads, job, processed, reported, crashes>>

\* claim_next returns None: the run is completed and committed, the call ends.
Finish(w) ==
  /\ pc[w] = "polling"
  /\ \A t \in Task : ~Claimable(t)
  /\ Goto(w, "stopped")
  /\ reported' = [reported EXCEPT ![w] = @ + processed[w]]
  /\ UNCHANGED <<taskVars, loads, job, processed, attempted, crashes>>

\* _load_file returns (whatever its result) and its transaction is committed.
LoadCommit(w) ==
  /\ pc[w] = "loading"
  /\ Goto(w, "loaded")
  /\ RecordLoad(w)
  /\ UNCHANGED <<taskVars, job, runVars, crashes>>

\* The file is missing or the load raises; its transaction is rolled back.
LoadRaise(w) ==
  /\ pc[w] = "loading"
  /\ Goto(w, "failing")
  /\ UNCHANGED <<taskVars, loads, job, runVars, crashes>>

\* The load's commit takes effect, and the worker sees an exception.
LoadAckLost(w) ==
  /\ AckLoss
  /\ pc[w] = "loading"
  /\ Goto(w, "failing")
  /\ RecordLoad(w)
  /\ UNCHANGED <<taskVars, job, runVars, crashes>>

\* complete and its commit.
Complete(w) ==
  /\ pc[w] = "loaded"
  /\ Leave(w, "polling")
  /\ status' = [status EXCEPT ![job[w]] = "done"]
  /\ processed' = [processed EXCEPT ![w] = @ + 1]
  /\ UNCHANGED <<claimed_by, lease, attempts, enqueued_at, loads, attempted, reported, crashes>>

\* complete or its commit raises and nothing of it is durable.
CompleteRaise(w) ==
  /\ pc[w] = "loaded"
  /\ Goto(w, "failing")
  /\ UNCHANGED <<taskVars, loads, job, runVars, crashes>>

\* complete's commit takes effect, and the worker sees an exception.
CompleteAckLost(w) ==
  /\ AckLoss
  /\ pc[w] = "loaded"
  /\ Goto(w, "failing")
  /\ status' = [status EXCEPT ![job[w]] = "done"]
  /\ UNCHANGED <<claimed_by, lease, attempts, enqueued_at, loads, job, runVars, crashes>>

\* Mutants of the except block: it counts the file as processed; one attempt
\* too many.
Requeue(w, newStatus, newLease, newAttempts, counted) ==
  /\ pc[w] = "failing"
  /\ Leave(w, "polling")
  /\ status' = [status EXCEPT ![job[w]] = newStatus]
  /\ lease' = [lease EXCEPT ![job[w]] = newLease]
  /\ attempts' = [attempts EXCEPT ![job[w]] = newAttempts]
  /\ processed' = [processed EXCEPT ![w] = @ + counted]
  /\ UNCHANGED <<claimed_by, enqueued_at, loads, attempted, reported, crashes>>

NextStatus(t, limit) == IF attempts[t] >= limit THEN "failed" ELSE "pending"

FailTask_Counts(w) ==
  Requeue(w, NextStatus(job[w], MaxAttempts), "none", attempts[job[w]], 1)
FailTask_OneTooMany(w) ==
  Requeue(w, NextStatus(job[w], MaxAttempts + 1), "none", attempts[job[w]], 0)

\* The except block: fail_task and its commit.
FailTask(w) ==
  /\ pc[w] = "failing"
  /\ Leave(w, "polling")
  /\ LET t == job[w] IN
     \/ /\ attempts[t] >= MaxAttempts
        /\ status' = [status EXCEPT ![t] = "failed"]
        /\ UNCHANGED lease
     \/ /\ attempts[t] < MaxAttempts
        /\ status' = [status EXCEPT ![t] = "pending"]
        /\ lease' = [lease EXCEPT ![t] = "none"]
  /\ UNCHANGED <<claimed_by, attempts, enqueued_at, loads, runVars, crashes>>

\* The worker dies: what it has not committed is gone, its locks are released.
Crash(w) ==
  /\ crashes < MaxCrashes
  /\ pc[w] # "stopped"
  /\ crashes' = crashes + 1
  /\ Leave(w, "stopped")
  /\ UNCHANGED <<taskVars, loads, runVars>>

WorkerStep(w) == \/ Start(w)
                 \/ \E t \in Task : ClaimFlush(w, t)
                 \/ ClaimCommit(w)
                 \/ Finish(w)
                 \/ LoadCommit(w)
                 \/ LoadRaise(w)
                 \/ LoadAckLost(w)
                 \/ Complete(w)
                 \/ CompleteRaise(w)
                 \/ CompleteAckLost(w)
                 \/ FailTask(w)

Next == \/ \E t \in Task : Enqueue(t) \/ LeaseExpire(t)
        \/ \E w \in Worker : WorkerStep(w) \/ Crash(w)

Spec == Init /\ [][Next]_vars

\* Somebody starts the worker loop again after it ends, and a started call
\* runs on; nothing obliges a task to be enqueued or a worker to die.
Fairness == /\ \A w \in Worker : WF_vars(WorkerStep(w))
            /\ \A t \in Task : WF_vars(LeaseExpire(t))

FairSpec == Spec /\ Fairness

-----------------------------------------------------------------------------
(* Properties *)

\* Two workers never hold the same task at the same time, whatever the
\* interleaving of claims, commits, deaths and retries: "ensures only one
\* worker gets each task" (claim_next).
MutualExclusion ==
  \A v, w \in Worker :
    v # w /\ pc[v] \in Busy /\ pc[w] \in Busy => job[v] # job[w]

\* From the commit of its claim until it settles the task, a worker finds the
\* row as it left it: complete and fail_task write it unconditionally, so
\* nobody else may have claimed or settled it in between.
HolderOwnsRow ==
  \A w \in Worker :
    pc[w] \in Holding =>
      /\ claimed_by[job[w]] = w
      /\ status[job[w]] = "claimed" \/ (AckLoss /\ pc[w] = "failing" /\ status[job[w]] = "done")

\* Claims are exclusive from their flush to the settlement of the task.
ClaimsAreExclusive == MutualExclusion /\ HolderOwnsRow

\* Every committed load was charged to an attempt before it began, so deaths
\* and lost acknowledgements cannot make a file be loaded more than
\* MAX_ATTEMPTS times.
LoadsPaidFor == \A t \in Task : loads[t] <= attempts[t] /\ attempts[t] <= MaxAttempts

\* A task is done only if its file was loaded, and failed only after all
\* attempts (complete after the load's commit; the branch of fail_task).
SettledHonestly ==
  \A t \in Task : /\ status[t] = "done" => loads[t] > 0
                  /\ status[t] = "failed" => attempts[t] = MaxAttempts

\* A pending task can be claimed at once: the attempts and claimed_until
\* filters of claim_next never hide one that fail_task or enqueue left there.
NoPendingLimbo ==
  \A t \in Task : status[t] = "pending" => attempts[t] < MaxAttempts /\ lease[t] = "none"

Orphaned(t) == status[t] = "claimed" /\ \A w \in Worker : pc[w] \in Busy => job[w] # t

\* A claimed task without a worker is the trace of a worker's death, at most
\* one per death: no path through the loop forgets a task it claimed.
OrphansAreDeaths == Cardinality({t \in Task : Orphaned(t)}) <= crashes

\* The attempts charged to the tasks are the files_attempted of the runs: both
\* are written by the commit that follows the claim.
ChargesMatchRuns == Total(Task, attempts) = Total(Worker, attempted)

\* The runs never report more processed files than there are done tasks.
ReportedIsDone == Total(Worker, reported) <= QueueStats("done")

\* The counters of the tasks and those of the runs, which are written by
\* different commits of the same loop, tell the same story.
CountersAgree == ChargesMatchRuns /\ ReportedIsDone

\* Nothing the loop has begun is forgotten: what is written of tasks and runs
\* adds up, and a task that hangs is the trace of a death.
LedgerIsHonest == CountersAgree /\ OrphansAreDeaths

Settled(t) == status[t] \in {"done", "failed"}

\* Done and failed are final, although complete and fail_task test nothing
\* before they write: failed always, and done unless the commit of complete
\* raised, whose worker is then about to undo it.
Undoing(t) == AckLoss /\ status[t] = "done" /\ \E w \in Worker : pc[w] = "failing" /\ job[w] = t

SettledIsFinal ==
  [][\A t \in Task : Settled(t) => status'[t] = status[t] \/ Undoing(t)]_vars

\* The queue implements the abstract delivery specification.
Phase(s) == CASE s = "pending" -> "waiting"
              [] s = "claimed" -> "inflight"
              [] s = "done"    -> "delivered"
              [] s = "failed"  -> "dead"
              [] OTHER         -> "absent"

Delivery == INSTANCE TaskDelivery WITH phase <- [t \in Task |-> Phase(status[t])],
                                       handouts <- attempts,
                                       work <- loads,
                                       Forgetful <- AckLoss

ImplementsDelivery == Delivery!Spec

\* "At-least-once delivery with visibility timeout" (IngestionTask): every
\* pending task is eventually done, or failed after all its attempts.
AtLeastOnceDelivery == \A t \in Task : status[t] = "pending" ~> Settled(t)

\* The weaker guarantee that survives the death of workers: a pending task is
\* eventually settled, unless the worker that claimed it died.
SettledOrOrphaned == \A t \in Task : status[t] = "pending" ~> (Settled(t) \/ Orphaned(t))

\* A call of the worker loop ends: it retries failing tasks without a pause,
\* but only until their attempts are used up.
RunsEnd == \A w \in Worker : pc[w] = "polling" ~> pc[w] = "stopped"

\* However loads fail and workers die, tasks and calls come to an end.
WorkEnds == SettledOrOrphaned /\ RunsEnd
=============================================================================
