------------------------------ MODULE Approval ------------------------------
(***************************************************************************)
(* Decisions on one snapshot (approve_snapshot in app/routers/workflow.py) *)
(* by concurrent analysts.  A decision reads the snapshot, and then in one *)
(* flush updates its approval_status and inserts the SnapshotApproval,     *)
(* whose decision_at is read at the insert.  The update locks the row to   *)
(* the end of the transaction; the ORM omits it when the status it read is *)
(* the one it is to write.  Of an approval the model also records whether  *)
(* its transaction updated the row.                                        *)
(***************************************************************************)
EXTENDS Integers, FiniteSets

CONSTANTS NULL,
          Analyst,      \* concurrent requests
          MaxDecisions  \* bound on the decisions that are begun after

\* What the constants have to be; the instance assumes it.
ApprovalAssumption == MaxDecisions \in Nat /\ NULL \notin Analyst

Decision == {"approved", "rejected"}

VARIABLES
  status,     \* snapshots.approval_status
  approvals,  \* the committed SnapshotApproval rows: [decision, at, updated]
  holder,     \* the transaction that has the row lock, or NULL
  tx,         \* [pc, seen, decision, at] of each request's transaction
  clock       \* the latest decision_at

vars == <<status, approvals, holder, tx, clock>>

Idle == [pc |-> "idle", seen |-> "pending", decision |-> "approved", at |-> 0]

Init == /\ status = "pending" /\ approvals = {} /\ holder = NULL
        /\ tx = [a \in Analyst |-> Idle] /\ clock = 0

\* db.get(Snapshot), and the assignment of the decision.
Read(a, d) ==
  /\ tx[a].pc = "idle" /\ clock < MaxDecisions
  /\ tx' = [tx EXCEPT ![a] = [pc |-> "read", seen |-> status, decision |-> d, at |-> 0]]
  /\ UNCHANGED <<status, approvals, holder, clock>>

\* The flush writes the status only if the attribute changed.
Changes(a) == tx[a].seen # tx[a].decision

\* Mutant: the row is not locked.
Free_Always(a) == TRUE

\* Nobody else has updated the row and not ended yet.
Free(a) == holder = NULL

Update(a) ==
  /\ tx[a].pc = "read" /\ Changes(a)
  /\ Free(a)
  /\ holder' = a
  /\ tx' = [tx EXCEPT ![a].pc = "updated"]
  /\ UNCHANGED <<status, approvals, clock>>

Insert(a) ==
  /\ tx[a].pc = "updated" \/ (tx[a].pc = "read" /\ ~Changes(a))
  /\ clock' = clock + 1
  /\ tx' = [tx EXCEPT ![a].pc = IF @ = "updated" THEN "committing" ELSE "adding", ![a].at = clock + 1]
  /\ UNCHANGED <<status, approvals, holder>>

Release(a) == holder' = IF holder = a THEN NULL ELSE holder

Commit(a) ==
  /\ tx[a].pc \in {"committing", "adding"}
  /\ approvals' = approvals \cup {[decision |-> tx[a].decision, at |-> tx[a].at, updated |-> tx[a].pc = "committing"]}
  /\ status' = IF tx[a].pc = "committing" THEN tx[a].decision ELSE status
  /\ tx' = [tx EXCEPT ![a] = Idle]
  /\ Release(a)
  /\ UNCHANGED clock

\* An error anywhere rolls both writes back.
Fail(a) ==
  /\ tx[a].pc # "idle"
  /\ tx' = [tx EXCEPT ![a] = Idle]
  /\ Release(a)
  /\ UNCHANGED <<status, approvals, clock>>

Next == \E a \in Analyst : \/ \E d \in Decision : Read(a, d)
                           \/ Update(a) \/ Insert(a) \/ Commit(a) \/ Fail(a)

Spec == Init /\ [][Next]_vars

-----------------------------------------------------------------------------
(* Properties *)

IsLatest(s, r) == r \in s /\ \A q \in s : q.at <= r.at

\* A snapshot stays pending until an approval is stored, and its status is
\* the decision of one that is.
StatusIsADecision ==
  IF approvals = {} THEN status = "pending" ELSE \E r \in approvals : r.decision = status

\* Of the decisions that updated the row, the status is the one with the
\* latest decision_at: the lock covers the time and the commit.
LatestUpdateWins ==
  \A r \in approvals : IsLatest({q \in approvals : q.updated}, r) => status = r.decision

\* The summary state of a snapshot follows from its audit trail.
StatusFollowsApprovals == StatusIsADecision /\ LatestUpdateWins
=============================================================================
