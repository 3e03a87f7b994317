------------------------ MODULE IngestionQueueProofs ------------------------
(***************************************************************************)
(* Proofs about the ingestion queue, for any finite set of tasks, any set  *)
(* of workers, any bound on attempts and deaths, and with or without lost  *)
(* acknowledgements.                                                       *)
(***************************************************************************)
EXTENDS IngestionQueue, FiniteSetTheorems, TLAPS

USE DEF PC, Busy, Holding, Status, Lease

(***************************************************************************)
(* Type correctness                                                        *)
(***************************************************************************)

\* The stamp enqueue gives a task is a number (used for TypeOK).
LEMMA StampType == 1 + Cardinality(Task) - QueueStats("absent") \in Nat
<1> DEFINE A == {t \in Task : status[t] = "absent"}
<1>1. IsFiniteSet(A) /\ Cardinality(A) <= Cardinality(Task)
  BY FiniteAssumption, FS_Subset, A \subseteq Task
<1>2. Cardinality(A) \in Nat /\ Cardinality(Task) \in Nat
  BY <1>1, FiniteAssumption, FS_CardinalityType
<1> QED BY <1>1, <1>2 DEF QueueStats

\* A worker has a task exactly while it is busy.
JobsMatch == \A w \in Worker : /\ pc[w] \in Busy => job[w] \in Task
                               /\ pc[w] \notin Busy => job[w] = NoTask

TypeInv == TypeOK /\ JobsMatch

\* The initial state has the declared types (Init models the empty tables).
LEMMA TypeInit == Init => TypeInv
BY AttemptsAssumption, NullAssumption DEF Init, TypeInv, TypeOK, JobsMatch

\* Every step keeps the declared types; the attempts stay within MAX_ATTEMPTS
\* because claim_next only takes rows below it, and a flushed claim's row is
\* still one of those when the claim commits (the first conjunct of FlushInv).
FlushInv == \A w \in Worker :
              pc[w] = "claiming" => status[job[w]] = "pending" /\ attempts[job[w]] < MaxAttempts

LEMMA TypeNext == TypeInv /\ FlushInv /\ [Next]_vars => TypeInv'
<1> SUFFICES ASSUME TypeInv, FlushInv, [Next]_vars PROVE TypeInv'
  OBVIOUS
<1> USE AttemptsAssumption, NullAssumption, PriorityAssumption DEF TypeInv, TypeOK, JobsMatch, taskVars, runVars
<1>1. CASE UNCHANGED vars
  BY <1>1 DEF vars
<1>2. ASSUME NEW t \in Task, Enqueue(t) PROVE TypeInv'
  BY <1>2, StampType DEF Enqueue
<1>3. ASSUME NEW t \in Task, LeaseExpire(t) PROVE TypeInv'
  BY <1>3 DEF LeaseExpire
<1>4. ASSUME NEW w \in Worker, Start(w) \/ Finish(w) PROVE TypeInv'
  BY <1>4 DEF Start, Finish, Goto
<1>5. ASSUME NEW w \in Worker, NEW t \in Task, ClaimFlush(w, t) PROVE TypeInv'
  BY <1>5 DEF ClaimFlush, Goto
<1>6. ASSUME NEW w \in Worker, ClaimCommit(w) PROVE TypeInv'
  <2>1. job[w] \in Task /\ attempts[job[w]] + 1 \in 0..MaxAttempts
    BY <1>6 DEF ClaimCommit, FlushInv
  <2> QED BY <1>6, <2>1 DEF ClaimCommit, Goto
<1>7. ASSUME NEW w \in Worker, LoadCommit(w) \/ LoadAckLost(w) PROVE TypeInv'
  BY <1>7 DEF LoadCommit, LoadAckLost, RecordLoad, Goto
<1>8. ASSUME NEW w \in Worker, LoadRaise(w) \/ CompleteRaise(w) PROVE TypeInv'
  BY <1>8 DEF LoadRaise, CompleteRaise, Goto
<1>9. ASSUME NEW w \in Worker, Complete(w) \/ CompleteAckLost(w) PROVE TypeInv'
  BY <1>9 DEF Complete, CompleteAckLost, Leave, Goto
<1>10. ASSUME NEW w \in Worker, FailTask(w) PROVE TypeInv'
  BY <1>10 DEF FailTask, Leave, Goto
<1>11. ASSUME NEW w \in Worker, Crash(w) PROVE TypeInv'
  BY <1>11 DEF Crash, Leave, Goto
<1> QED
  BY <1>1, <1>2, <1>3, <1>4, <1>5, <1>6, <1>7, <1>8, <1>9, <1>10, <1>11 DEF Next, WorkerStep

(***************************************************************************)
(* The inductive invariant                                                 *)
(***************************************************************************)

\* No column but the id of an unborn task differs from its default.
AbsentIsFresh ==
  \A t \in Task : status[t] = "absent" => attempts[t] = 0 /\ lease[t] = "none"

\* A load that has not committed yet still has its attempt to itself, and one
\* that has committed is counted.
ChargeCoversLoad ==
  \A w \in Worker : /\ pc[w] = "loading" => loads[job[w]] < attempts[job[w]]
                    /\ pc[w] = "loaded" => loads[job[w]] > 0

IInv == /\ TypeInv
        /\ FlushInv
        /\ MutualExclusion
        /\ HolderOwnsRow
        /\ LoadsPaidFor
        /\ SettledHonestly
        /\ NoPendingLimbo
        /\ AbsentIsFresh
        /\ ChargeCoversLoad

LEMMA IInvInit == Init => IInv
<1> SUFFICES ASSUME Init PROVE IInv
  OBVIOUS
<1>1. TypeInv
  BY TypeInit
<1> QED
  BY <1>1, AttemptsAssumption
  DEF Init, IInv, FlushInv, MutualExclusion, HolderOwnsRow, LoadsPaidFor, SettledHonestly,
      NoPendingLimbo, AbsentIsFresh, ChargeCoversLoad

\* Every step preserves the invariant, one action at a time: a step disturbs
\* the row of at most one task, and nobody but the acting worker works on it.
LEMMA IInvNext == IInv /\ [Next]_vars => IInv'
<1> SUFFICES ASSUME IInv, [Next]_vars PROVE IInv'
  OBVIOUS
<1> USE AttemptsAssumption, NullAssumption
<1>t. TypeInv /\ TypeInv'
  BY TypeNext DEF IInv
<1> USE <1>t DEF IInv, TypeInv, TypeOK, JobsMatch, taskVars, runVars,
                 FlushInv, MutualExclusion, HolderOwnsRow, LoadsPaidFor, SettledHonestly,
                 NoPendingLimbo, AbsentIsFresh, ChargeCoversLoad
<1>1. CASE UNCHANGED vars
  BY <1>1 DEF vars
<1>2. ASSUME NEW t \in Task, Enqueue(t) PROVE IInv'
  BY <1>2 DEF Enqueue
<1>3. ASSUME NEW t \in Task, LeaseExpire(t) PROVE IInv'
  BY <1>3 DEF LeaseExpire
<1>4. ASSUME NEW w \in Worker, Start(w) \/ Finish(w) PROVE IInv'
  BY <1>4 DEF Start, Finish, Goto
<1>5. ASSUME NEW w \in Worker, NEW t \in Task, ClaimFlush(w, t) PROVE IInv'
  \* The row is pending and unlocked, so no other worker is busy with it.
  <2>1. \A v \in Worker : pc[v] \in Busy => job[v] # t
    BY <1>5 DEF ClaimFlush, Claimable, Locked
  <2> QED BY <1>5, <2>1 DEF ClaimFlush, Claimable, Goto
<1>6. ASSUME NEW w \in Worker, ClaimCommit(w) PROVE IInv'
  BY <1>6 DEF ClaimCommit, Goto
<1>7. ASSUME NEW w \in Worker, LoadCommit(w) \/ LoadAckLost(w) PROVE IInv'
  BY <1>7 DEF LoadCommit, LoadAckLost, RecordLoad, Goto
<1>8. ASSUME NEW w \in Worker, LoadRaise(w) \/ CompleteRaise(w) PROVE IInv'
  BY <1>8 DEF LoadRaise, CompleteRaise, Goto
<1>9. ASSUME NEW w \in Worker, Complete(w) \/ CompleteAckLost(w) PROVE IInv'
  BY <1>9 DEF Complete, CompleteAckLost, Leave, Goto
<1>10. ASSUME NEW w \in Worker, FailTask(w) PROVE IInv'
  <2> DEFINE t == job[w]
  <2>1. pc[w] = "failing"
    BY <1>10 DEF FailTask
  <2>2. t \in Task /\ status[t] \in {"claimed", "done"}
    BY <2>1
  <2>3. \A v \in Worker \ {w} : pc[v] \in Busy => job[v] # t
    BY <2>1
  <2>4. CASE attempts[t] >= MaxAttempts
    <3>1. attempts[t] = MaxAttempts
      <4> HIDE DEF t
      <4>1. attempts[t] \in 0..MaxAttempts /\ MaxAttempts \in Nat
        BY <2>2
      <4> QED BY ONLY <4>1, <2>4
    <3>2. status' = [status EXCEPT ![t] = "failed"]
      BY <1>10, <3>1 DEF FailTask
    <3>3. FlushInv' /\ MutualExclusion' /\ HolderOwnsRow'
      BY <1>10, <2>2, <2>3, <3>1, <3>2 DEF FailTask, Leave, Goto
    <3>4. LoadsPaidFor' /\ SettledHonestly'
      BY <1>10, <2>2, <2>3, <3>1, <3>2 DEF FailTask, Leave, Goto
    <3>5. NoPendingLimbo' /\ AbsentIsFresh' /\ ChargeCoversLoad'
      BY <1>10, <2>2, <2>3, <2>4, <3>1, <3>2 DEF FailTask, Leave, Goto
    <3> QED BY <3>3, <3>4, <3>5
  <2>5. CASE attempts[t] < MaxAttempts
    BY <1>10, <2>2, <2>3, <2>5 DEF FailTask, Leave, Goto
  <2> QED BY <2>2, <2>4, <2>5
<1>11. ASSUME NEW w \in Worker, Crash(w) PROVE IInv'
  BY <1>11 DEF Crash, Leave, Goto
<1> QED
  BY <1>1, <1>2, <1>3, <1>4, <1>5, <1>6, <1>7, <1>8, <1>9, <1>10, <1>11 DEF Next, WorkerStep

\* The invariant holds of every reachable state.
THEOREM Invariance == Spec => []IInv
<1> QED BY IInvInit, IInvNext, PTL DEF Spec

\* The types hold in every reachable state; in particular attempts never
\* exceeds MAX_ATTEMPTS.
THEOREM TypeCorrect == Spec => []TypeOK
<1>1. IInv => TypeOK
  BY DEF IInv, TypeInv
<1> QED BY <1>1, Invariance, PTL

\* One worker at a time holds a task, for any number of workers and tasks, and
\* it finds the row of that task as it left it.
THEOREM ClaimsExclude == Spec => []ClaimsAreExclusive
<1>1. IInv => ClaimsAreExclusive
  BY DEF IInv, ClaimsAreExclusive
<1> QED BY <1>1, Invariance, PTL

\* Committed loads never outnumber the attempts charged, nor MAX_ATTEMPTS.
THEOREM LoadsBounded == Spec => []LoadsPaidFor
<1>1. IInv => LoadsPaidFor
  BY DEF IInv
<1> QED BY <1>1, Invariance, PTL

\* Done tasks were loaded, failed tasks have used all their attempts, and
\* pending ones can be claimed at once.
THEOREM OutcomesHonest == Spec => [](SettledHonestly /\ NoPendingLimbo)
<1>1. IInv => SettledHonestly /\ NoPendingLimbo
  BY DEF IInv
<1> QED BY <1>1, Invariance, PTL

(***************************************************************************)
(* The ledger: tasks, runs and deaths add up                               *)
(***************************************************************************)

\* To count one more in one counter adds one to the sum (used for the charges
\* of ClaimCommit and the files that Complete counts).
LEMMA TotalAddsOne ==
  ASSUME NEW S, NEW f \in [S -> Nat], NEW x \in S, IsFiniteSet(Units(S, f))
  PROVE  /\ IsFiniteSet(Units(S, [f EXCEPT ![x] = @ + 1]))
         /\ Total(S, [f EXCEPT ![x] = @ + 1]) = Total(S, f) + 1
<1> DEFINE g == [f EXCEPT ![x] = @ + 1]
           u == <<x, f[x] + 1>>
<1>1. \A n \in Nat : 1..(n + 1) = (1..n) \cup {n + 1}
  OBVIOUS
<1>2. ASSUME NEW y \in S PROVE {y} \X (1..g[y]) = {y} \X (1..f[y]) \cup {p \in {u} : y = x}
  <2>1. CASE y = x
    <3>1. 1..g[y] = (1..f[y]) \cup {f[x] + 1}
      BY <2>1, <1>1
    <3> QED BY <2>1, <3>1
  <2>2. CASE y # x
    BY <2>2
  <2> QED BY <2>1, <2>2
<1>3. Units(S, g) = Units(S, f) \cup {u}
  <2> HIDE DEF g, u
  <2> QED BY <1>2 DEF Units
<1>4. u \notin Units(S, f)
  <2> SUFFICES ASSUME NEW y \in S, u \in {y} \X (1..f[y]) PROVE FALSE
    BY DEF Units
  <2>1. y = x /\ f[x] + 1 \in 1..f[x] /\ f[x] \in Nat
    OBVIOUS
  <2> QED BY ONLY <2>1
<1> HIDE DEF g, u
<1>5. /\ IsFiniteSet(Units(S, f) \cup {u})
      /\ Cardinality(Units(S, f) \cup {u}) = Cardinality(Units(S, f)) + 1
  BY <1>4, FS_AddElement, Zenon
<1>6. IsFiniteSet(Units(S, g)) /\ Total(S, g) = Total(S, f) + 1
  BY <1>3, <1>5 DEF Total
<1> QED BY <1>6 DEF g

\* A sum is no larger than one of counters that are no smaller.
LEMMA TotalIsMonotone ==
  ASSUME NEW S, NEW f \in [S -> Nat], NEW g \in [S -> Nat],
         \A x \in S : g[x] <= f[x], IsFiniteSet(Units(S, f))
  PROVE  IsFiniteSet(Units(S, g)) /\ Total(S, g) <= Total(S, f)
<1>1. \A m, n \in Nat : m <= n => 1..m \subseteq 1..n
  OBVIOUS
<1>2. \A x \in S : 1..g[x] \subseteq 1..f[x]
  BY <1>1
<1>3. Units(S, g) \subseteq Units(S, f)
  BY <1>2 DEF Units
<1> QED BY <1>3, FS_Subset DEF Total

\* The files a worker has counted, in the runs it committed and in the one it
\* is in: what is reported lags behind by what a death would lose.
Counted == [w \in Worker |-> reported[w] + (IF pc[w] = "stopped" THEN 0 ELSE processed[w])]

\* Done tasks that nobody is about to take back.
DoneForGood == {t \in Task : status[t] = "done" /\ ~Undoing(t)}

Orphans == {t \in Task : Orphaned(t)}

ChargesAdded == /\ IsFiniteSet(Units(Task, attempts)) /\ IsFiniteSet(Units(Worker, attempted))
                /\ ChargesMatchRuns
CountsAdded  == /\ IsFiniteSet(Units(Worker, Counted))
                /\ Total(Worker, Counted) <= Cardinality(DoneForGood)

LedgerInv == ChargesAdded /\ CountsAdded /\ OrphansAreDeaths

LEMMA CountedType == TypeOK => Counted \in [Worker -> Nat]
BY DEF TypeOK, Counted

LEMMA LedgerInit == Init => LedgerInv
<1> SUFFICES ASSUME Init PROVE LedgerInv
  OBVIOUS
<1>1. \A S : Units(S, [x \in S |-> 0]) = {}
  BY DEF Units
<1>2. IsFiniteSet({}) /\ Cardinality({}) = 0
  BY FS_EmptySet
<1>3. ChargesAdded
  BY <1>1, <1>2 DEF Init, ChargesAdded, ChargesMatchRuns, Total
<1>4. Counted = [w \in Worker |-> 0]
  BY DEF Init, Counted
<1>5. DoneForGood = {} /\ {t \in Task : Orphaned(t)} = {}
  BY DEF Init, DoneForGood, Orphaned
<1>6. CountsAdded
  BY <1>1, <1>2, <1>4, <1>5 DEF CountsAdded, Total
<1>7. OrphansAreDeaths
  BY <1>2, <1>5 DEF Init, OrphansAreDeaths
<1> QED BY <1>3, <1>6, <1>7 DEF LedgerInv

\* The commit of a claim charges the task and the run, and no other step
\* touches either column.
LEMMA ChargesNext == ASSUME IInv, [Next]_vars, ChargesAdded PROVE ChargesAdded'
<1> USE DEF IInv, TypeInv, TypeOK, JobsMatch, taskVars, runVars
<1>1. ASSUME NEW w \in Worker, ClaimCommit(w) PROVE ChargesAdded'
  <2>1. /\ job[w] \in Task
        /\ attempts' = [attempts EXCEPT ![job[w]] = @ + 1]
        /\ attempted' = [attempted EXCEPT ![w] = @ + 1]
    BY <1>1 DEF ClaimCommit
  <2>2. attempts \in [Task -> Nat] /\ attempted \in [Worker -> Nat]
    BY AttemptsAssumption
  <2>3. IsFiniteSet(Units(Task, attempts')) /\ Total(Task, attempts') = Total(Task, attempts) + 1
    BY ONLY <2>1, <2>2, ChargesAdded, TotalAddsOne DEF ChargesAdded
  <2>4. IsFiniteSet(Units(Worker, attempted')) /\ Total(Worker, attempted') = Total(Worker, attempted) + 1
    BY ONLY <2>1, <2>2, ChargesAdded, TotalAddsOne DEF ChargesAdded
  <2> QED BY ONLY <2>3, <2>4, ChargesAdded DEF ChargesAdded, ChargesMatchRuns, Total, Units
<1>2. CASE UNCHANGED <<attempts, attempted>>
  BY ONLY <1>2, ChargesAdded DEF ChargesAdded, ChargesMatchRuns, Total, Units
<1> QED
  BY <1>1, <1>2
  DEF Next, WorkerStep, vars, Enqueue, LeaseExpire, Start, ClaimFlush, Finish, LoadCommit, LoadRaise,
      LoadAckLost, Complete, CompleteRaise, CompleteAckLost, FailTask, Crash

\* Complete counts one more file and leaves one more task done; a worker whose
\* completion was committed unheard counts nothing and takes the task back, or
\* dies.  A run that ends only moves its count.
LEMMA CountsNext == ASSUME IInv, [Next]_vars, CountsAdded PROVE CountsAdded'
<1> USE DEF IInv, TypeInv, TypeOK, JobsMatch, HolderOwnsRow, taskVars, runVars
<1>t. TypeOK /\ TypeOK'
  BY TypeNext
<1>f. IsFiniteSet(DoneForGood) /\ IsFiniteSet(DoneForGood') /\ Cardinality(DoneForGood) \in Nat
  <2>1. \A D \in SUBSET Task : IsFiniteSet(D)
    BY FiniteAssumption, FS_Subset
  <2>2. DoneForGood \subseteq Task /\ DoneForGood' \subseteq Task
    BY DEF DoneForGood
  <2> QED BY <2>1, <2>2, FS_CardinalityType
<1>c. Counted \in [Worker -> Nat] /\ Counted' \in [Worker -> Nat]
  BY <1>t DEF Counted
<1>1. ASSUME \A w \in Worker : Counted'[w] <= Counted[w], DoneForGood \subseteq DoneForGood'
      PROVE  CountsAdded'
  <2>1. IsFiniteSet(Units(Worker, Counted')) /\ Total(Worker, Counted') <= Total(Worker, Counted)
    BY ONLY <1>1, <1>c, CountsAdded, TotalIsMonotone DEF CountsAdded
  <2>2. Cardinality(DoneForGood) <= Cardinality(DoneForGood')
    BY ONLY <1>1, <1>f, FS_Subset
  <2>3. /\ Total(Worker, Counted) \in Nat /\ Total(Worker, Counted') \in Nat
        /\ Cardinality(DoneForGood) \in Nat /\ Cardinality(DoneForGood') \in Nat
    BY ONLY <1>f, <2>1, CountsAdded, FS_CardinalityType DEF CountsAdded, Total
  <2>4. Total(Worker, Counted') <= Cardinality(DoneForGood')
    BY ONLY <2>1, <2>2, <2>3, CountsAdded DEF CountsAdded
  <2> QED BY ONLY <2>1, <2>4 DEF CountsAdded, Units, Total
<1>2. ASSUME NEW w \in Worker, Complete(w) PROVE CountsAdded'
  <2>1. Counted' = [Counted EXCEPT ![w] = @ + 1]
    <3>1. /\ pc[w] = "loaded" /\ pc' = [pc EXCEPT ![w] = "polling"]
          /\ processed' = [processed EXCEPT ![w] = @ + 1] /\ reported' = reported
      BY <1>2 DEF Complete, Leave, Goto
    <3>2. Counted'[w] = Counted[w] + 1
      BY <3>1, <1>t DEF Counted
    <3>3. \A v \in Worker \ {w} : Counted'[v] = Counted[v]
      BY <3>1 DEF Counted
    <3> QED BY ONLY <3>2, <3>3, <1>c
  <2>2. job[w] \in Task /\ job[w] \notin DoneForGood
    BY <1>2 DEF Complete, DoneForGood
  <2>3. DoneForGood' = DoneForGood \cup {job[w]}
    BY <1>2, <2>2 DEF Complete, DoneForGood, Undoing, Leave, Goto, MutualExclusion
  <2>4. Cardinality(DoneForGood') = Cardinality(DoneForGood) + 1
    BY ONLY <2>2, <2>3, <1>f, FS_AddElement
  <2>5. IsFiniteSet(Units(Worker, Counted')) /\ Total(Worker, Counted') = Total(Worker, Counted) + 1
    BY ONLY <2>1, <1>c, CountsAdded, TotalAddsOne DEF CountsAdded
  <2>6. Total(Worker, Counted) \in Nat
    BY ONLY CountsAdded, FS_CardinalityType DEF CountsAdded, Total
  <2>7. Total(Worker, Counted') <= Cardinality(DoneForGood')
    BY ONLY <2>4, <2>5, <2>6, <1>f, CountsAdded DEF CountsAdded
  <2> QED BY ONLY <2>5, <2>7 DEF CountsAdded, Units, Total
<1>3. CASE UNCHANGED vars
  <2>1. Counted' = Counted /\ DoneForGood' = DoneForGood
    BY <1>3 DEF vars, Counted, DoneForGood, Undoing
  <2> QED BY ONLY <2>1, CountsAdded DEF CountsAdded, Units, Total
<1>4. ASSUME NEW t \in Task, Enqueue(t) \/ LeaseExpire(t) PROVE CountsAdded'
  BY <1>1, <1>4, <1>c DEF Enqueue, LeaseExpire, Counted, DoneForGood, Undoing
<1>5. ASSUME NEW w \in Worker, Start(w) \/ Finish(w) \/ ClaimCommit(w) PROVE CountsAdded'
  <2>1. \A v \in Worker : Counted'[v] <= Counted[v]
    BY <1>5 DEF Start, Finish, ClaimCommit, Goto, Counted
  <2>2. DoneForGood \subseteq DoneForGood'
    BY <1>5 DEF Start, Finish, ClaimCommit, Goto, DoneForGood, Undoing, FlushInv
  <2> QED BY <1>1, <2>1, <2>2
<1>6. ASSUME NEW w \in Worker, NEW t \in Task, ClaimFlush(w, t) PROVE CountsAdded'
  <2>1. \A v \in Worker : Counted'[v] <= Counted[v]
    BY <1>6 DEF ClaimFlush, Goto, Counted
  <2>2. DoneForGood \subseteq DoneForGood'
    BY <1>6 DEF ClaimFlush, Goto, DoneForGood, Undoing
  <2> QED BY <1>1, <2>1, <2>2
<1>7. ASSUME NEW w \in Worker, LoadCommit(w) \/ LoadAckLost(w) \/ LoadRaise(w) \/ CompleteRaise(w)
                               \/ CompleteAckLost(w)
      PROVE CountsAdded'
  <2>1. \A v \in Worker : Counted'[v] <= Counted[v]
    BY <1>7 DEF LoadCommit, LoadAckLost, LoadRaise, CompleteRaise, CompleteAckLost, Goto, Counted
  <2>2. DoneForGood \subseteq DoneForGood'
    BY <1>7 DEF LoadCommit, LoadAckLost, LoadRaise, CompleteRaise, CompleteAckLost, Goto, DoneForGood, Undoing
  <2> QED BY <1>1, <2>1, <2>2
<1>8. ASSUME NEW w \in Worker, FailTask(w) PROVE CountsAdded'
  <2>1. \A v \in Worker : Counted'[v] <= Counted[v]
    BY <1>8 DEF FailTask, Leave, Goto, Counted
  <2>2. job[w] \in Task \ DoneForGood
    BY <1>8 DEF FailTask, DoneForGood, Undoing
  <2>3. \A t \in Task \ {job[w]} : status'[t] = status[t]
    BY <1>8, <2>2 DEF FailTask
  <2>4. \A t \in Task : Undoing(t)' /\ status[t] = "done" => Undoing(t)
    BY <1>8 DEF FailTask, Undoing, Leave, Goto
  <2>5. DoneForGood \subseteq DoneForGood'
    BY ONLY <2>2, <2>3, <2>4 DEF DoneForGood
  <2> QED BY <1>1, <2>1, <2>5
<1>9. ASSUME NEW w \in Worker, Crash(w) PROVE CountsAdded'
  <2>1. \A v \in Worker : Counted'[v] <= Counted[v]
    BY <1>9 DEF Crash, Leave, Goto, Counted
  <2>2. DoneForGood \subseteq DoneForGood'
    BY <1>9 DEF Crash, Leave, Goto, DoneForGood, Undoing
  <2> QED BY <1>1, <2>1, <2>2
<1> QED
  BY <1>2, <1>3, <1>4, <1>5, <1>6, <1>7, <1>8, <1>9 DEF Next, WorkerStep

\* No step but a death leaves a claimed task without a worker, and a death
\* leaves one at most.
LEMMA OrphansNext == ASSUME IInv, [Next]_vars, OrphansAreDeaths PROVE OrphansAreDeaths'
<1> USE DEF IInv, TypeInv, TypeOK, JobsMatch, taskVars, runVars
<1>f. /\ IsFiniteSet(Orphans) /\ IsFiniteSet(Orphans')
      /\ Cardinality(Orphans) \in Nat /\ Cardinality(Orphans') \in Nat
  <2>1. \A O \in SUBSET Task : IsFiniteSet(O)
    BY FiniteAssumption, FS_Subset
  <2>2. Orphans \subseteq Task /\ Orphans' \subseteq Task
    BY DEF Orphans
  <2> QED BY <2>1, <2>2, FS_CardinalityType
<1>o. Cardinality(Orphans) <= crashes /\ crashes \in Nat
  BY DEF OrphansAreDeaths, Orphans
<1>1. ASSUME Orphans' \subseteq Orphans, crashes' = crashes PROVE OrphansAreDeaths'
  <2>1. Cardinality(Orphans') <= Cardinality(Orphans)
    BY ONLY <1>1, <1>f, FS_Subset
  <2>2. Cardinality(Orphans') <= crashes'
    BY ONLY <2>1, <1>1, <1>f, <1>o
  <2> QED BY ONLY <2>2 DEF OrphansAreDeaths, Orphans
<1>2. ASSUME NEW w \in Worker, Crash(w) PROVE OrphansAreDeaths'
  <2>1. crashes' = crashes + 1
    BY <1>2 DEF Crash
  <2>2. Orphans' \subseteq Orphans \cup {job[w]}
    BY <1>2 DEF Crash, Leave, Goto, Orphans, Orphaned
  <2>3. /\ IsFiniteSet(Orphans \cup {job[w]})
        /\ Cardinality(Orphans \cup {job[w]}) <= Cardinality(Orphans) + 1
    BY ONLY <1>f, FS_AddElement
  <2>4. Cardinality(Orphans') <= Cardinality(Orphans \cup {job[w]})
    BY ONLY <2>2, <2>3, FS_Subset
  <2>5. Cardinality(Orphans \cup {job[w]}) \in Nat
    BY ONLY <2>3, FS_CardinalityType
  <2>6. Cardinality(Orphans') <= crashes'
    BY ONLY <2>1, <2>3, <2>4, <2>5, <1>f, <1>o
  <2> QED BY ONLY <2>6 DEF OrphansAreDeaths, Orphans
<1>3. CASE UNCHANGED vars
  BY <1>1, <1>3 DEF vars, Orphans, Orphaned
<1>4. ASSUME NEW t \in Task, Enqueue(t) \/ LeaseExpire(t) PROVE OrphansAreDeaths'
  BY <1>1, <1>4 DEF Enqueue, LeaseExpire, Orphans, Orphaned
<1>5. ASSUME NEW w \in Worker, Start(w) \/ Finish(w) \/ ClaimCommit(w) PROVE OrphansAreDeaths'
  <2>1. Orphans' \subseteq Orphans /\ crashes' = crashes
    BY <1>5 DEF Start, Finish, ClaimCommit, Goto, Orphans, Orphaned
  <2> QED BY <1>1, <2>1
<1>6. ASSUME NEW w \in Worker, NEW t \in Task, ClaimFlush(w, t) PROVE OrphansAreDeaths'
  <2>1. Orphans' \subseteq Orphans /\ crashes' = crashes
    BY <1>6 DEF ClaimFlush, Goto, Orphans, Orphaned
  <2> QED BY <1>1, <2>1
<1>7. ASSUME NEW w \in Worker, LoadCommit(w) \/ LoadAckLost(w) \/ LoadRaise(w) \/ CompleteRaise(w)
                               \/ CompleteAckLost(w)
      PROVE OrphansAreDeaths'
  <2>1. Orphans' \subseteq Orphans /\ crashes' = crashes
    BY <1>7 DEF LoadCommit, LoadAckLost, LoadRaise, CompleteRaise, CompleteAckLost, Goto, Orphans, Orphaned
  <2> QED BY <1>1, <2>1
<1>8. ASSUME NEW w \in Worker, Complete(w) \/ FailTask(w) PROVE OrphansAreDeaths'
  <2>1. /\ job[w] \in Task /\ status'[job[w]] # "claimed"
        /\ \A t \in Task \ {job[w]} : status'[t] = status[t]
    BY <1>8 DEF Complete, FailTask
  <2>2. \A t \in Task \ {job[w]} : Orphaned(t)' => Orphaned(t)
    BY <1>8, <2>1 DEF Complete, FailTask, Leave, Goto, Orphaned
  <2>3. Orphans' \subseteq Orphans
    BY ONLY <2>1, <2>2 DEF Orphans, Orphaned
  <2> QED BY <1>1, <1>8, <2>3 DEF Complete, FailTask
<1> QED
  BY <1>2, <1>3, <1>4, <1>5, <1>6, <1>7, <1>8 DEF Next, WorkerStep

\* Nothing the loop has begun is forgotten, whatever dies or is not heard of:
\* the attempts of the tasks are the files attempted by the runs, the runs
\* report no file that is not done, and a task that hangs is a worker's death.
THEOREM Ledger == Spec => []LedgerIsHonest
<1>1. IInv /\ LedgerInv /\ [Next]_vars => LedgerInv'
  BY ChargesNext, CountsNext, OrphansNext DEF LedgerInv
<1>2. IInv /\ LedgerInv => LedgerIsHonest
  <2> SUFFICES ASSUME IInv, LedgerInv PROVE ReportedIsDone
    BY DEF LedgerInv, ChargesAdded, LedgerIsHonest, CountersAgree
  <2>1. TypeOK
    BY DEF IInv, TypeInv
  <2>2. \A w \in Worker : reported[w] <= Counted[w]
    BY <2>1 DEF TypeOK, Counted
  <2>3. IsFiniteSet(Units(Worker, reported)) /\ Total(Worker, reported) <= Total(Worker, Counted)
    <3>1. reported \in [Worker -> Nat]
      BY <2>1 DEF TypeOK
    <3> QED BY <2>1, <2>2, <3>1, CountedType, TotalIsMonotone DEF LedgerInv, CountsAdded
  <2> DEFINE Done == {t \in Task : status[t] = "done"}
  <2>4. IsFiniteSet(Done) /\ Cardinality(DoneForGood) <= Cardinality(Done)
    <3>1. IsFiniteSet(Done)
      BY FiniteAssumption, FS_Subset, Done \subseteq Task
    <3>2. DoneForGood \subseteq Done
      BY DEF DoneForGood
    <3> QED BY <3>1, <3>2, FS_Subset
  <2>5. /\ Total(Worker, reported) \in Nat /\ Total(Worker, Counted) \in Nat
        /\ Cardinality(Done) \in Nat /\ Cardinality(DoneForGood) \in Nat
    <3>1. IsFiniteSet(DoneForGood)
      BY <2>4, FS_Subset, DoneForGood \subseteq Done DEF DoneForGood
    <3> QED BY <2>3, <2>4, <3>1, FS_CardinalityType DEF LedgerInv, CountsAdded, Total
  <2>6. Total(Worker, reported) <= Cardinality(Done)
    <3> HIDE DEF Done
    <3> QED BY <2>3, <2>4, <2>5 DEF LedgerInv, CountsAdded
  <2> QED BY <2>6 DEF ReportedIsDone, QueueStats
<1> QED BY LedgerInit, <1>1, <1>2, Invariance, PTL DEF Spec

(***************************************************************************)
(* What a step may never do, and the refinement                            *)
(***************************************************************************)

\* complete and fail_task write without looking, and yet a settled task stays
\* settled: their caller holds a claimed row (HolderOwnsRow), or one its own
\* lost acknowledgement left done.
THEOREM SettledForGood == Spec => SettledIsFinal
<1> DEFINE Final == \A t \in Task : Settled(t) => status'[t] = status[t] \/ Undoing(t)
<1>1. ASSUME IInv, [Next]_vars PROVE [Final]_vars
  <2> USE <1>1 DEF IInv, TypeInv, TypeOK, JobsMatch, FlushInv, HolderOwnsRow, taskVars, Settled
  <2>1. CASE status' = status
    BY <2>1
  <2>2. ASSUME NEW t \in Task, Enqueue(t) PROVE Final
    BY <2>2 DEF Enqueue
  <2>3. ASSUME NEW w \in Worker, ClaimCommit(w) \/ Complete(w) \/ CompleteAckLost(w) PROVE Final
    BY <2>3 DEF ClaimCommit, Complete, CompleteAckLost
  <2>4. ASSUME NEW w \in Worker, FailTask(w) PROVE Final
    <3>1. /\ pc[w] = "failing"
          /\ status[job[w]] = "claimed" \/ (AckLoss /\ status[job[w]] = "done")
      BY <2>4 DEF FailTask
    <3>2. \A t \in Task : t # job[w] => status'[t] = status[t]
      BY <2>4, <3>1 DEF FailTask
    <3>3. Settled(job[w]) => Undoing(job[w])
      BY <3>1 DEF Undoing
    <3> QED BY <3>2, <3>3
  <2> QED
    BY <2>1, <2>2, <2>3, <2>4
    DEF Next, WorkerStep, vars, LeaseExpire, Start, ClaimFlush, Finish, LoadCommit, LoadRaise,
        LoadAckLost, CompleteRaise, Crash
<1> QED BY <1>1, Invariance, PTL DEF Spec, SettledIsFinal

\* The initial state of the queue is one of the abstract specification.
LEMMA RefinesInit == Init => Delivery!Init
BY DEF Init, Delivery!Init, Phase

\* Every step of the queue is a step of the abstract specification or leaves
\* its variables alone: a claim hands out, a load works, complete delivers
\* (heard of or not), fail_task gives back or gives up, and nothing else is
\* visible.
LEMMA RefinesNext ==
  ASSUME IInv, [Next]_vars
  PROVE  [Delivery!Next]_Delivery!vars
<1> USE DEF IInv, TypeInv, TypeOK, JobsMatch, taskVars, runVars, Phase, Delivery!Move
<1>1. CASE UNCHANGED <<status, attempts, loads>>
  BY <1>1 DEF Delivery!vars
<1>2. ASSUME NEW t \in Task, Enqueue(t) PROVE Delivery!Next
  BY <1>2 DEF Enqueue, Delivery!Submit, Delivery!Next
<1>3. ASSUME NEW w \in Worker, ClaimCommit(w) PROVE Delivery!Next
  <2>1. PICK t \in Task : t = job[w]
    BY <1>3 DEF ClaimCommit
  <2>2. Delivery!HandOut(t)
    BY <1>3, <2>1 DEF ClaimCommit, FlushInv, Delivery!HandOut
  <2> QED BY ONLY <2>2 DEF Delivery!Next
<1>4. ASSUME NEW w \in Worker, LoadCommit(w) \/ LoadAckLost(w) PROVE Delivery!Next
  <2>1. PICK t \in Task : t = job[w]
    BY <1>4 DEF LoadCommit, LoadAckLost
  <2>2. Delivery!Work(t)
    BY <1>4, <2>1 DEF LoadCommit, LoadAckLost, RecordLoad, HolderOwnsRow, ChargeCoversLoad, Delivery!Work
  <2> QED BY ONLY <2>2 DEF Delivery!Next
<1>5. ASSUME NEW w \in Worker, Complete(w) \/ CompleteAckLost(w) PROVE Delivery!Next
  <2>1. PICK t \in Task : t = job[w]
    BY <1>5 DEF Complete, CompleteAckLost
  <2>2. status[t] = "claimed" /\ loads[t] > 0
    BY <1>5, <2>1 DEF Complete, CompleteAckLost, HolderOwnsRow, ChargeCoversLoad
  <2>3. status' = [status EXCEPT ![t] = "done"] /\ UNCHANGED <<attempts, loads>>
    BY <1>5, <2>1 DEF Complete, CompleteAckLost
  <2>4. Delivery!Deliver(t)
    BY <2>2, <2>3 DEF Delivery!Deliver
  <2> QED BY ONLY <2>4 DEF Delivery!Next
<1>6. ASSUME NEW w \in Worker, FailTask(w) PROVE Delivery!Next
  <2>1. PICK t \in Task : t = job[w]
    BY <1>6 DEF FailTask
  <2>2. \E from \in Delivery!Undelivered : Phase(status[t]) = from
    BY <1>6, <2>1 DEF FailTask, HolderOwnsRow, Delivery!Undelivered
  <2>3. attempts[t] \in 0..MaxAttempts /\ MaxAttempts \in Nat
    BY AttemptsAssumption
  <2>4. CASE attempts[t] >= MaxAttempts
    <3>1. attempts[t] = MaxAttempts
      BY ONLY <2>3, <2>4
    <3>2. status' = [status EXCEPT ![t] = "failed"] /\ UNCHANGED <<attempts, loads>>
      BY <1>6, <2>1, <3>1 DEF FailTask
    <3>3. Delivery!GiveUp(t)
      BY <2>2, <3>1, <3>2 DEF Delivery!GiveUp
    <3> QED BY ONLY <3>3 DEF Delivery!Next
  <2>5. CASE attempts[t] < MaxAttempts
    <3>1. ~(attempts[t] >= MaxAttempts)
      BY ONLY <2>3, <2>5
    <3>2. status' = [status EXCEPT ![t] = "pending"] /\ UNCHANGED <<attempts, loads>>
      BY <1>6, <2>1, <3>1 DEF FailTask
    <3>3. Delivery!GiveBack(t)
      BY <2>2, <2>5, <3>2 DEF Delivery!GiveBack
    <3> QED BY ONLY <3>3 DEF Delivery!Next
  <2> QED BY <2>3, <2>4, <2>5
<1>7. CASE Next
  <2>1. ASSUME NEW w \in Worker,
               Start(w) \/ Finish(w) \/ LoadRaise(w) \/ CompleteRaise(w) \/ Crash(w)
        PROVE  UNCHANGED <<status, attempts, loads>>
    BY <2>1 DEF Start, Finish, LoadRaise, CompleteRaise, Crash
  <2>2. ASSUME NEW t \in Task, LeaseExpire(t) \/ \E w \in Worker : ClaimFlush(w, t)
        PROVE  UNCHANGED <<status, attempts, loads>>
    BY <2>2 DEF LeaseExpire, ClaimFlush
  <2> HIDE DEF IInv
  <2> QED
    BY <1>1, <1>2, <1>3, <1>4, <1>5, <1>6, <1>7, <2>1, <2>2 DEF Next, WorkerStep
<1>8. CASE UNCHANGED vars
  BY <1>1, <1>8 DEF vars
<1> QED BY <1>7, <1>8

\* The queue and its workers implement the abstract delivery specification.
THEOREM RefinesDelivery == Spec => ImplementsDelivery
<1>1. IInv /\ [Next]_vars => [Delivery!Next]_Delivery!vars
  BY RefinesNext
<1> QED BY RefinesInit, <1>1, Invariance, PTL DEF Spec, ImplementsDelivery, Delivery!Spec
=============================================================================
