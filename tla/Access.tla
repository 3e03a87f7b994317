------------------------------- MODULE Access -------------------------------
(***************************************************************************)
(* Requests with API keys (app/security.py), and what administrators do    *)
(* with them: tenants and keys (app/routers/admin.py) and the assignments  *)
(* of analysts (app/routers/workflow.py).  A request looks its key up,     *)
(* commits last_used_at, and goes on with its handler, which reads a row   *)
(* and commits a change; others run in between.  Updates write only the    *)
(* columns that were assigned.  The clock is the model's own and counts     *)
(* the revocations: it tells the lookups before one from those after.      *)
(***************************************************************************)
EXTENDS Integers, FiniteSets

CONSTANTS NULL,
          Request,     \* concurrent requests
          Slug,        \* slugs of tenants
          MaxKeys,     \* bounds on the keys
          MaxAssigned  \* and on the assignments

\* What the constants have to be; the instance assumes it.
AccessAssumption == {MaxKeys, MaxAssigned} \subseteq Nat /\ NULL \notin Request

\* A viewer may do what an analyst may, as far as this module goes.
Role == {"admin", "analyst"}

VARIABLES
  tenants,      \* slugs
  keys,         \* sequence of [role, active, used, revoked], by id; used is
                \* whether last_used_at is set, as nothing reads the time
  assignments,  \* sequence of [key, active], by id
  req,          \* each request: [pc, key, at, op]; key is 0 without a header
  clock

vars == <<tenants, keys, assignments, req, clock>>

NoRequest == [pc |-> "idle", key |-> 0, at |-> 0, op |-> NULL]

Init == /\ tenants = {} /\ keys = <<>> /\ assignments = <<>> /\ clock = 0
        /\ req = [r \in Request |-> NoRequest]

-----------------------------------------------------------------------------
(* get_current_key and require_role *)

\* Mutant: revoked keys are found as well.
Accepted_Known(k) == k \in DOMAIN keys

Accepted(k) == k \in DOMAIN keys /\ keys[k].active

\* The query for an active key.
Find(r, k) ==
  /\ req[r].pc = "idle" /\ Accepted(k)
  /\ req' = [req EXCEPT ![r] = [pc |-> "found", key |-> k, at |-> clock, op |-> NULL]]
  /\ UNCHANGED <<tenants, keys, assignments, clock>>

\* Mutant: the whole row is written as it was read.
Touched_Row(r) == [keys[req[r].key] EXCEPT !.used = TRUE, !.active = TRUE]

Touched(r) == [keys[req[r].key] EXCEPT !.used = TRUE]

\* last_used_at is committed before the handler runs.
Touch(r) ==
  /\ req[r].pc = "found"
  /\ keys' = [keys EXCEPT ![req[r].key] = Touched(r)]
  /\ req' = [req EXCEPT ![r].pc = "admitted"]
  /\ UNCHANGED <<tenants, assignments, clock>>

\* Without a header there is no key to check.
Anonymous(r) ==
  /\ req[r].pc = "idle"
  /\ req' = [req EXCEPT ![r].pc = "admitted"]
  /\ UNCHANGED <<tenants, keys, assignments, clock>>

MayAdminister(r) == req[r].key # 0 => keys[req[r].key].role = "admin"

-----------------------------------------------------------------------------
(* The handlers: each reads, may answer 404 or 409, and commits. *)

Ops == [do : {"create_tenant"}, slug : Slug] \cup [do : {"create_api_key"}, role : Role]
         \cup [do : {"revoke_api_key"}, key : DOMAIN keys]
         \cup [do : {"create_assignment"}, key : DOMAIN keys]
         \cup [do : {"unassign"}, id : DOMAIN assignments]

\* create_tenant finds no such slug, and a key belongs to a tenant; the rows
\* of the others are there.
Passes(op) == /\ op.do = "create_tenant" => op.slug \notin tenants
              /\ op.do = "create_api_key" => tenants # {}

Look(r, op) ==
  /\ req[r].pc = "admitted" /\ MayAdminister(r) /\ Passes(op)
  /\ req' = [req EXCEPT ![r].pc = "acting", ![r].op = op]
  /\ UNCHANGED <<tenants, keys, assignments, clock>>

\* 403, 404 or 409, or any error: nothing is changed.
End(r) ==
  /\ req[r].pc # "idle"
  /\ req' = [req EXCEPT ![r] = NoRequest]
  /\ UNCHANGED <<tenants, keys, assignments, clock>>

Does(r, what) == req[r].pc = "acting" /\ req[r].op.do = what /\ req' = [req EXCEPT ![r] = NoRequest]

\* The unique key of slugs decides between two that found none.
CreateTenant(r) ==
  /\ Does(r, "create_tenant")
  /\ req[r].op.slug \notin tenants
  /\ tenants' = tenants \cup {req[r].op.slug}
  /\ UNCHANGED <<keys, assignments, clock>>

CreateApiKey(r) ==
  /\ Does(r, "create_api_key") /\ Cardinality(DOMAIN keys) < MaxKeys
  /\ keys' = [k \in 1..(Cardinality(DOMAIN keys) + 1) |->
                IF k \in DOMAIN keys THEN keys[k]
                ELSE [role |-> req[r].op.role, active |-> TRUE, used |-> FALSE, revoked |-> 0]]
  /\ UNCHANGED <<tenants, assignments, clock>>

RevokeApiKey(r) ==
  /\ Does(r, "revoke_api_key")
  /\ LET k == req[r].op.key
     IN  IF keys[k].active
         THEN /\ clock' = clock + 1
              /\ keys' = [keys EXCEPT ![k] = [@ EXCEPT !.active = FALSE, !.revoked = clock + 1]]
         ELSE UNCHANGED <<keys, clock>>
  /\ UNCHANGED <<tenants, assignments>>

CreateAssignment(r) ==
  /\ Does(r, "create_assignment") /\ Cardinality(DOMAIN assignments) < MaxAssigned
  /\ assignments' = [a \in 1..(Cardinality(DOMAIN assignments) + 1) |->
                       IF a \in DOMAIN assignments THEN assignments[a]
                       ELSE [key |-> req[r].op.key, active |-> TRUE]]
  /\ UNCHANGED <<tenants, keys, clock>>

Unassign(r) ==
  /\ Does(r, "unassign")
  /\ assignments' = [assignments EXCEPT ![req[r].op.id].active = FALSE]
  /\ UNCHANGED <<tenants, keys, clock>>

Next == \E r \in Request :
          \/ \E k \in DOMAIN keys : Find(r, k)
          \/ Touch(r) \/ Anonymous(r) \/ End(r)
          \/ \E op \in Ops : Look(r, op)
          \/ CreateTenant(r) \/ CreateApiKey(r) \/ RevokeApiKey(r)
          \/ CreateAssignment(r) \/ Unassign(r)

Spec == Init /\ [][Next]_vars

-----------------------------------------------------------------------------
(* Properties *)

TypeOK == /\ tenants \subseteq Slug /\ clock \in 0..MaxKeys
          /\ \A r \in Request : req[r].key \in {0} \cup DOMAIN keys /\ req[r].at \in 0..clock
          /\ \A a \in DOMAIN assignments : assignments[a].key \in DOMAIN keys

\* A request that is let in with a key was begun before the key was revoked,
\* however long it takes; one begun later is refused.
LateRequestsAreRefused ==
  \A r \in Request :
    LET k == req[r].key
    IN  k # 0 => keys[k].active \/ req[r].at < keys[k].revoked

\* What was revoked or ended is never brought back by a request that had read
\* it before.
EndsAreFinal ==
  [][/\ \A k \in DOMAIN keys : ~keys[k].active => ~keys'[k].active
     /\ \A a \in DOMAIN assignments : ~assignments[a].active => ~assignments'[a].active]_vars
=============================================================================
