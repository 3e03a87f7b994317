------------------------------ MODULE MCService ------------------------------
(***************************************************************************)
(* An instance for TLC of the parts of the service that requests reach     *)
(* besides the loads: the schema registry, the approvals, API keys and     *)
(* assignments, and retention.  They share no state, so a behaviour is     *)
(* about one of them and the rest stays as it began.                       *)
(***************************************************************************)
EXTENDS SchemaRegistry, TLC

CONSTANTS NULL, Analyst, MaxDecisions,
          AccessRequest, Slug, MaxKeys, MaxAssigned,
          Policy, PolicyTable, MaxRows,
          pUploads, pEvents, pProvenance, pRuns

VARIABLES topic,                                       \* what the behaviour is about
          status, approvals, holder, tx, decided,      \* of Approval
          tenants, keys, assignments, req, now,        \* of Access
          rows, last, todo, results                    \* of Retention

Approvals == INSTANCE Approval WITH clock <- decided
AccessControl == INSTANCE Access WITH Request <- AccessRequest, clock <- now
Policies == INSTANCE Retention

ASSUME ServiceConstants == /\ Approvals!ApprovalAssumption /\ AccessControl!AccessAssumption
                           /\ Policies!PolicyAssumption

\* A policy for each kind of table.
MCPolicyTable == [p \in Policy |-> CASE p = pUploads    -> "uploads"
                                    [] p = pEvents     -> "cdc_events"
                                    [] p = pProvenance -> "field_provenance"
                                    [] OTHER           -> "pipeline_runs"]

\* Callers, analysts and requests can be exchanged.
Interchangeable == Permutations(Client) \cup Permutations(Analyst) \cup Permutations(AccessRequest)

-----------------------------------------------------------------------------

approvalVars == <<status, approvals, holder, tx, decided>>
accessVars == <<tenants, keys, assignments, req, now>>
retentionVars == <<rows, last, todo, results>>
allVars == <<topic, vars, approvalVars, accessVars, retentionVars>>

ServiceInit ==
  /\ topic \in {"registry", "approvals", "access", "retention"}
  /\ Init /\ Approvals!Init /\ AccessControl!Init /\ Policies!Init
  /\ topic # "registry" => DOMAIN schema = {}

ServiceNext ==
  /\ UNCHANGED topic
  /\ \/ /\ topic = "registry" /\ Next
        /\ UNCHANGED <<approvalVars, accessVars, retentionVars>>
     \/ /\ topic = "approvals" /\ Approvals!Next
        /\ UNCHANGED <<vars, accessVars, retentionVars>>
     \/ /\ topic = "access" /\ AccessControl!Next
        /\ UNCHANGED <<vars, approvalVars, retentionVars>>
     \/ /\ topic = "retention" /\ Policies!Next
        /\ UNCHANGED <<vars, approvalVars, accessVars>>

ServiceSpec == ServiceInit /\ [][ServiceNext]_allVars

-----------------------------------------------------------------------------
(* Properties of the parts *)

\* The status of a snapshot follows from its audit trail.
StatusFollowsApprovals == Approvals!StatusFollowsApprovals

\* A key that was revoked lets no later request in.
LateRequestsAreRefused == AccessControl!LateRequestsAreRefused

\* Keys that were revoked and assignments that were ended stay so.
EndsAreFinal == AccessControl!EndsAreFinal

\* Only what has expired is deleted, and each policy has its turn.
PoliciesHold == Policies!PoliciesHold
=============================================================================
